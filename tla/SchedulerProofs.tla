-------------------------- MODULE SchedulerProofs --------------------------
(***************************************************************************)
(* Proofs about BatchScheduler, for any number of slots, pages, requests   *)
(* and buckets, and any prompts and budgets.                               *)
(*                                                                         *)
(* The first part is about the requests, with and without prefix caching   *)
(* and whatever the page manager and the tree do: no request is lost or    *)
(* served twice, every request keeps to its budget, and the scheduler      *)
(* implements first-come, first-served service.  What makes                *)
(* RequestsConserved inductive is that the queue is the last part of the   *)
(* requests in the order of submission (QueueIsTail): a new request cannot *)
(* have the number of one that waits, and the one admitted next is the     *)
(* first that never ran.                                                   *)
(*                                                                         *)
(* The second part is about the pages and the radix nodes that the         *)
(* requests use.  The operations of the executor on its slots are treated  *)
(* once, for any set of cache states that allocating and freeing a slot    *)
(* and adding a page do not leave (Kept), and, once something is cached,   *)
(* taking over a page does not leave either (TakesPages).  Two sets are    *)
(* shown to be like that:                                                  *)
(*   Accounted  what is mapped in a slot's window is listed by the slot    *)
(*              and counted, with any settings;                            *)
(*   Exclusive  moreover the slot lists exactly what is mapped, and no     *)
(*              page is mapped twice, when no page is ever taken over.     *)
(* The loops of the code are functions of the number of steps, whose       *)
(* states after n steps are shown to be in a set X[n].                     *)
(*                                                                         *)
(* The nodes of the tree are counted by NodesInv: the ref_count of a node  *)
(* is the number of requests that hold it, and only requests that run in a *)
(* slot hold any.  Consistent(K) joins it to the invariant of the requests *)
(* (IInv) and to that of the cache (CacheInv), and is inductive for both   *)
(* sets.                                                                   *)
(***************************************************************************)
EXTENDS BatchScheduler, NumberLemmas, VMMPoolLemmas, FunctionTheorems

--------------------------------------------------------------------------------
(* The requests *)

Submitted == Len(all_requests)

\* The requests up to this one have left the queue.
Admitted == Submitted - Len(pending_queue)

IsRequest(x) ==
  /\ x = [prompt |-> x.prompt, max_new_tokens |-> x.max_new_tokens, generated |-> x.generated,
          finish_reason |-> x.finish_reason, matched_radix_nodes |-> x.matched_radix_nodes]
  /\ x.max_new_tokens \in Nat
  /\ x.generated \in Nat
  /\ x.finish_reason \in {"", "stop", "length"}

RequestList ==
  /\ Submitted \in Nat
  /\ all_requests = [id \in 1..Submitted |-> all_requests[id]]
  /\ \A id \in 1..Submitted : IsRequest(all_requests[id])

\* The queue holds the last requests, in the order of their submission.
QueueIsTail ==
  /\ pending_queue \in Seq(Nat)
  /\ Len(pending_queue) <= Submitted
  /\ \A i \in 1..Len(pending_queue) : pending_queue[i] = Admitted + i

Budget(x) == IF x.max_new_tokens >= 1 THEN x.max_new_tokens ELSE 1

\* A request that waits has no token, one that runs is short of its budget, and
\* one that was admitted and does not run has ended within it.
WaitingFresh ==
  \A id \in 1..Submitted : id > Admitted =>
    all_requests[id].generated = 0 /\ all_requests[id].finish_reason = ""

RunningUnfinished ==
  \A s \in Active :
    /\ active_slots[s] \in 1..Admitted
    /\ all_requests[active_slots[s]].finish_reason = ""
    /\ all_requests[active_slots[s]].generated \in 1..(Budget(all_requests[active_slots[s]]) - 1)

WithinBudget ==
  \A id \in 1..Submitted :
    /\ all_requests[id].generated <= Budget(all_requests[id])
    /\ all_requests[id].finish_reason = "length"
         => all_requests[id].generated = Budget(all_requests[id])

SlotsDistinct == \A s, t \in Active : active_slots[s] = active_slots[t] => s = t

NobodyForgotten ==
  \A id \in 1..Admitted :
    destroyed \/ (\E s \in Active : active_slots[s] = id) \/ Finished(all_requests[id])

IInv ==
  /\ RequestList
  /\ QueueIsTail
  /\ DOMAIN active_slots = Slots
  /\ destroyed \in BOOLEAN
  /\ WaitingFresh
  /\ RunningUnfinished
  /\ WithinBudget
  /\ SlotsDistinct
  /\ NobodyForgotten

----------------------------------------------------------------------------
\* The numbers that describe the queue.
LEMMA QueueFacts ==
  ASSUME RequestList, QueueIsTail
  PROVE  /\ Submitted \in Nat /\ Len(pending_queue) \in Nat /\ Admitted \in 0..Submitted
         /\ Submitted = Admitted + Len(pending_queue)
         /\ DOMAIN all_requests = 1..Submitted
BY DEF RequestList, QueueIsTail, Admitted

\* The larger of a number and one.
LEMMA MaxWithOne ==
  ASSUME NEW n \in Nat
  PROVE  Max({n, 1}) = IF n >= 1 THEN n ELSE 1
<1>1. CASE n >= 1
  <2>1. \A x \in {n, 1} : (\A y \in {n, 1} : x >= y) => x = n
    BY <1>1
  <2>2. n \in {n, 1} /\ \A y \in {n, 1} : n >= y
    BY <1>1
  <2> QED BY <1>1, <2>1, <2>2 DEF Max
<1>2. CASE ~(n >= 1)
  <2>1. \A x \in {n, 1} : (\A y \in {n, 1} : x >= y) => x = 1
    BY <1>2
  <2>2. 1 \in {n, 1} /\ \A y \in {n, 1} : 1 >= y
    BY <1>2
  <2> QED BY <1>2, <2>1, <2>2 DEF Max
<1> QED BY <1>1, <1>2

\* A request after one more token.
LEMMA TokenEffect ==
  ASSUME NEW x, IsRequest(x), NEW eos \in BOOLEAN, NEW y, y = WithToken(x, eos)
  PROVE  /\ IsRequest(y)
         /\ y.prompt = x.prompt
         /\ y.max_new_tokens = x.max_new_tokens
         /\ y.generated = x.generated + 1
         /\ y.finish_reason = IF eos THEN "stop"
                              ELSE IF x.generated + 1 >= x.max_new_tokens THEN "length" ELSE ""
<1> DEFINE n == x.generated + 1
           r == IF eos THEN "stop" ELSE IF n >= x.max_new_tokens THEN "length" ELSE ""
<1>1. x = [prompt |-> x.prompt, max_new_tokens |-> x.max_new_tokens, generated |-> x.generated,
           finish_reason |-> x.finish_reason, matched_radix_nodes |-> x.matched_radix_nodes]
      /\ x.max_new_tokens \in Nat /\ x.generated \in Nat
  BY DEF IsRequest
<1>2. y = [x EXCEPT !.generated = n, !.finish_reason = r]
  BY DEF WithToken
<1>3. n \in Nat /\ r \in {"", "stop", "length"}
  BY <1>1
<1>4. n = x.generated + 1 /\ r = IF eos THEN "stop"
                                 ELSE IF x.generated + 1 >= x.max_new_tokens THEN "length" ELSE ""
  OBVIOUS
<1> HIDE DEF n, r
<1>5. y = [prompt |-> x.prompt, max_new_tokens |-> x.max_new_tokens, generated |-> n,
           finish_reason |-> r, matched_radix_nodes |-> x.matched_radix_nodes]
  BY <1>1, <1>2
<1>6. y.prompt = x.prompt /\ y.max_new_tokens = x.max_new_tokens /\ y.generated = n
      /\ y.finish_reason = r /\ y.matched_radix_nodes = x.matched_radix_nodes
  BY <1>5
<1>7. IsRequest(y)
  BY <1>1, <1>3, <1>5, <1>6 DEF IsRequest
<1> QED BY <1>4, <1>6, <1>7

\* Matching or releasing nodes changes nothing else of a request.
LEMMA NodesEffect ==
  ASSUME NEW x, IsRequest(x), NEW nodes,
         NEW y, y = [x EXCEPT !.matched_radix_nodes = nodes]
  PROVE  /\ IsRequest(y)
         /\ y.prompt = x.prompt
         /\ y.max_new_tokens = x.max_new_tokens
         /\ y.generated = x.generated
         /\ y.finish_reason = x.finish_reason
<1>1. x = [prompt |-> x.prompt, max_new_tokens |-> x.max_new_tokens, generated |-> x.generated,
           finish_reason |-> x.finish_reason, matched_radix_nodes |-> x.matched_radix_nodes]
      /\ x.max_new_tokens \in Nat /\ x.generated \in Nat /\ x.finish_reason \in {"", "stop", "length"}
  BY DEF IsRequest
<1>2. y = [prompt |-> x.prompt, max_new_tokens |-> x.max_new_tokens, generated |-> x.generated,
           finish_reason |-> x.finish_reason, matched_radix_nodes |-> nodes]
  BY <1>1
<1> QED BY <1>1, <1>2 DEF IsRequest

\* A finished request that gives up its nodes changes nothing else.
LEMMA ReleasedEffect ==
  ASSUME NEW x, IsRequest(x), NEW y, y = Released(x)
  PROVE  /\ IsRequest(y)
         /\ y.prompt = x.prompt
         /\ y.max_new_tokens = x.max_new_tokens
         /\ y.generated = x.generated
         /\ y.finish_reason = x.finish_reason
<1>1. CASE Finished(x)
  BY <1>1, NodesEffect DEF Released
<1>2. CASE ~Finished(x)
  BY <1>2 DEF Released
<1> QED BY <1>1, <1>2

\* The first free slot is a free slot.
LEMMA SlotEffect ==
  ASSUME Active # Slots
  PROVE  AvailableSlot \in Slots \ Active
<1>1. Slots \ Active \in SUBSET Nat /\ Slots \ Active # {}
  BY PagedAssumption DEF Slots, Active
<1>2. \E x \in Slots \ Active : \A y \in Slots \ Active : x <= y
  BY <1>1, LeastElement
<1> QED BY <1>2 DEF AvailableSlot, Min

\* The state in which nothing was submitted satisfies the invariant.
LEMMA InitStep == Init => IInv
<1> SUFFICES ASSUME Init PROVE IInv
  OBVIOUS
<1>1. all_requests = <<>> /\ pending_queue = <<>> /\ destroyed = FALSE
      /\ active_slots = [s \in Slots |-> NoRequest]
  BY DEF Init
<1>2. Active = {}
  BY <1>1 DEF Active
<1>3. Submitted = 0 /\ Admitted = 0
  BY <1>1 DEF Submitted, Admitted
<1>4. RequestList
  BY <1>1, <1>3 DEF RequestList
<1>5. QueueIsTail
  BY <1>1, <1>3 DEF QueueIsTail
<1>6. WaitingFresh /\ WithinBudget /\ NobodyForgotten
  BY <1>3 DEF WaitingFresh, WithinBudget, NobodyForgotten
<1>7. RunningUnfinished /\ SlotsDistinct
  BY <1>2 DEF RunningUnfinished, SlotsDistinct
<1> QED BY <1>1, <1>4, <1>5, <1>6, <1>7 DEF IInv

\* A submitted request goes to the end of the queue.
LEMMA AddRequestEffect ==
  ASSUME IInv, NEW prompt \in Prompts, NEW max_new \in MaxNewTokens, AddRequest(prompt, max_new)
  PROVE  /\ Submitted' = Submitted + 1 /\ Admitted' = Admitted
         /\ Len(pending_queue)' = Len(pending_queue) + 1
         /\ RequestList' /\ QueueIsTail'
         /\ \A id \in 1..Submitted : all_requests'[id] = all_requests[id]
         /\ all_requests'[Submitted + 1] =
              [prompt |-> prompt, max_new_tokens |-> max_new, generated |-> 0,
               finish_reason |-> "", matched_radix_nodes |-> <<>>]
         /\ all_requests'[Submitted + 1].generated = 0
         /\ all_requests'[Submitted + 1].finish_reason = ""
         /\ active_slots' = active_slots /\ destroyed' = destroyed
<1> DEFINE n == Submitted
           k == Len(pending_queue)
           new == [prompt |-> prompt, max_new_tokens |-> max_new, generated |-> 0,
                   finish_reason |-> "", matched_radix_nodes |-> <<>>]
           S == {all_requests[id] : id \in 1..n} \cup {new}
<1>1. all_requests' = Append(all_requests, new) /\ pending_queue' = Append(pending_queue, n + 1)
      /\ active_slots' = active_slots /\ destroyed' = destroyed
  BY DEF AddRequest, Submitted
<1>2. n \in Nat /\ k \in Nat /\ Admitted \in 0..n /\ n = Admitted + k /\ k <= n
  BY QueueFacts DEF IInv, QueueIsTail
<1>3. all_requests \in Seq(S) /\ new \in S /\ Len(all_requests) = n
  <2>1. all_requests = [id \in 1..n |-> all_requests[id]]
    BY DEF IInv, RequestList
  <2>2. \A id \in 1..n : all_requests[id] \in S
    OBVIOUS
  <2>3. new \in S
    OBVIOUS
  <2> HIDE DEF S, new
  <2>4. [id \in 1..n |-> all_requests[id]] \in Seq(S)
    BY <1>2, <2>2
  <2> QED BY <2>1, <2>3, <2>4 DEF Submitted
<1> HIDE DEF S, new
<1>4. /\ all_requests' \in Seq(S) /\ Len(all_requests') = n + 1
      /\ \A id \in 1..n : all_requests'[id] = all_requests[id]
      /\ all_requests'[n + 1] = new
  BY <1>1, <1>3, AppendProperties
<1>5. /\ pending_queue' \in Seq(Nat) /\ Len(pending_queue') = k + 1
      /\ \A i \in 1..k : pending_queue'[i] = pending_queue[i]
      /\ pending_queue'[k + 1] = n + 1
  <2>1. pending_queue \in Seq(Nat) /\ n + 1 \in Nat
    BY <1>2 DEF IInv, QueueIsTail
  <2> QED BY <1>1, <2>1, AppendProperties
<1>6. Submitted' = n + 1 /\ Admitted' = Admitted
  BY <1>2, <1>4, <1>5 DEF Submitted, Admitted
<1>7. RequestList'
  <2>1. all_requests' = [id \in 1..(n + 1) |-> all_requests'[id]] /\ n + 1 \in Nat
    BY <1>2, <1>4
  <2>2. ASSUME NEW id \in 1..(n + 1) PROVE IsRequest(all_requests'[id])
    <3>1. CASE id \in 1..n
      BY <1>4, <3>1 DEF IInv, RequestList
    <3>2. CASE id = n + 1
      <4>1. max_new \in Nat
        BY SchedulerAssumption
      <4>2. IsRequest(new)
        BY <4>1 DEF IsRequest, new
      <4> QED BY <1>4, <3>2, <4>2
    <3> QED BY <1>2, <3>1, <3>2
  <2> QED BY <1>6, <2>1, <2>2 DEF RequestList
<1>8. QueueIsTail'
  <2>1. ASSUME NEW i \in 1..(k + 1) PROVE pending_queue'[i] = Admitted + i
    <3>1. CASE i \in 1..k
      BY <1>5, <3>1 DEF IInv, QueueIsTail
    <3>2. CASE i = k + 1
      BY <1>2, <1>5, <3>2
    <3> QED BY <1>2, <3>1, <3>2
  <2> QED BY <1>2, <1>5, <1>6, <2>1 DEF QueueIsTail
<1>9. new.generated = 0 /\ new.finish_reason = ""
  BY DEF new
<1>10. new = [prompt |-> prompt, max_new_tokens |-> max_new, generated |-> 0,
              finish_reason |-> "", matched_radix_nodes |-> <<>>]
  BY DEF new
<1> HIDE DEF n
<1>11. all_requests'[n + 1].generated = 0 /\ all_requests'[n + 1].finish_reason = ""
  BY <1>4, <1>9
<1> QED BY <1>1, <1>4, <1>5, <1>6, <1>7, <1>8, <1>10, <1>11 DEF n

\* A submission keeps the invariant.
LEMMA AddRequestStep ==
  ASSUME IInv, NEW prompt \in Prompts, NEW max_new \in MaxNewTokens, AddRequest(prompt, max_new)
  PROVE  IInv'
<1>1. /\ Submitted' = Submitted + 1 /\ Admitted' = Admitted
      /\ RequestList' /\ QueueIsTail'
      /\ \A id \in 1..Submitted : all_requests'[id] = all_requests[id]
      /\ active_slots' = active_slots /\ destroyed' = destroyed
  BY AddRequestEffect
<1>2. /\ all_requests'[Submitted + 1].generated = 0
      /\ all_requests'[Submitted + 1].finish_reason = ""
  BY AddRequestEffect
<1>3. Submitted \in Nat /\ Admitted \in 0..Submitted
  BY QueueFacts DEF IInv
<1>4. Active' = Active
  BY <1>1 DEF Active
<1>5. ASSUME NEW id \in 1..Admitted PROVE id \in 1..Submitted /\ all_requests'[id] = all_requests[id]
  <2>1. id \in 1..Submitted
    BY <1>3
  <2> QED BY <1>1, <2>1
<1>6. ASSUME NEW id \in 1..(Submitted + 1) PROVE id \in 1..Submitted \/ id = Submitted + 1
  BY <1>3
<1>7. WaitingFresh'
  <2>1. ASSUME NEW id \in 1..(Submitted + 1), id > Admitted
        PROVE  all_requests'[id].generated = 0 /\ all_requests'[id].finish_reason = ""
    BY <1>1, <1>2, <1>6, <2>1 DEF IInv, WaitingFresh
  <2> QED BY <1>1, <2>1 DEF WaitingFresh
<1>8. RunningUnfinished'
  BY <1>1, <1>4, <1>5 DEF IInv, RunningUnfinished
<1>9. WithinBudget'
  <2>1. IsRequest(all_requests'[Submitted + 1])
    <3>1. \A id \in 1..(Submitted + 1) : IsRequest(all_requests'[id])
      BY <1>1 DEF RequestList
    <3> QED BY <1>3, <3>1
  <2>2. Budget(all_requests'[Submitted + 1]) \in Nat
    BY <2>1 DEF Budget, IsRequest
  <2>3. ASSUME NEW id \in 1..(Submitted + 1)
        PROVE  /\ all_requests'[id].generated <= Budget(all_requests'[id])
               /\ all_requests'[id].finish_reason = "length"
                    => all_requests'[id].generated = Budget(all_requests'[id])
    <3>1. CASE id \in 1..Submitted
      BY <1>1, <3>1 DEF IInv, WithinBudget
    <3>2. CASE id = Submitted + 1
      <4>1. all_requests'[id] = all_requests'[Submitted + 1]
        BY <3>2
      <4>2. 0 <= Budget(all_requests'[Submitted + 1])
        BY <2>2
      <4> QED BY <1>2, <4>1, <4>2
    <3> QED BY <1>6, <3>1, <3>2
  <2> QED BY <1>1, <2>3 DEF WithinBudget
<1>10. SlotsDistinct'
  BY <1>1, <1>4 DEF IInv, SlotsDistinct
<1>11. NobodyForgotten'
  BY <1>1, <1>4, <1>5 DEF IInv, NobodyForgotten, Finished
<1> QED BY <1>1, <1>7, <1>8, <1>9, <1>10, <1>11 DEF IInv

----------------------------------------------------------------------------
\* The same request, with its budget unchanged.
SameRequest(x, y) ==
  IsRequest(y) /\ y.prompt = x.prompt /\ y.max_new_tokens = x.max_new_tokens

\* A request that got no token, and one that got one.
NoToken(x, y) == y.generated = x.generated /\ y.finish_reason = x.finish_reason

OneToken(x, y) ==
  /\ y.generated = x.generated + 1
  /\ y.generated <= Budget(y)
  /\ y.finish_reason = "length" => y.generated = Budget(y)
  /\ y.finish_reason = "" => y.generated < Budget(y)

\* Counting up to a budget.
LEMMA BudgetArithmetic ==
  ASSUME NEW g \in Nat, NEW m \in Nat, NEW b, b = IF m >= 1 THEN m ELSE 1
  PROVE  /\ b \in Nat /\ 0 < b
         /\ g < b => /\ g + 1 <= b
                     /\ g + 1 >= m => g + 1 = b
                     /\ ~(g + 1 >= m) => g + 1 < b
OBVIOUS

\* The budget of a request and what it generated are numbers.
LEMMA BudgetIsNat ==
  ASSUME NEW x, IsRequest(x)
  PROVE  Budget(x) \in Nat /\ x.generated \in Nat
BY DEF IsRequest, Budget

\* One token for a request that is short of its budget.
LEMMA OneTokenEffect ==
  ASSUME NEW x, IsRequest(x), x.generated < Budget(x), NEW eos \in BOOLEAN,
         NEW y, y = Released(WithToken(x, eos))
  PROVE  SameRequest(x, y) /\ OneToken(x, y) /\ (Finished(y) <=> Finished(WithToken(x, eos)))
<1>1. PICK z : z = WithToken(x, eos)
  OBVIOUS
<1>2. /\ IsRequest(z)
      /\ z.prompt = x.prompt
      /\ z.max_new_tokens = x.max_new_tokens
      /\ z.generated = x.generated + 1
      /\ z.finish_reason = IF eos THEN "stop"
                           ELSE IF x.generated + 1 >= x.max_new_tokens THEN "length" ELSE ""
  BY <1>1, TokenEffect
<1>3. /\ IsRequest(y)
      /\ y.prompt = z.prompt
      /\ y.max_new_tokens = z.max_new_tokens
      /\ y.generated = z.generated
      /\ y.finish_reason = z.finish_reason
  BY <1>1, <1>2, ReleasedEffect
<1>4. x.generated \in Nat /\ x.max_new_tokens \in Nat
  BY DEF IsRequest
<1>5. Budget(y) = Budget(x) /\ Budget(x) = IF x.max_new_tokens >= 1 THEN x.max_new_tokens ELSE 1
  BY <1>2, <1>3 DEF Budget
<1>6. /\ x.generated + 1 <= Budget(x)
      /\ x.generated + 1 >= x.max_new_tokens => x.generated + 1 = Budget(x)
      /\ ~(x.generated + 1 >= x.max_new_tokens) => x.generated + 1 < Budget(x)
  BY <1>4, <1>5, BudgetArithmetic
<1>7. y.generated = x.generated + 1
  BY <1>2, <1>3
<1>8. OneToken(x, y)
  BY <1>2, <1>3, <1>5, <1>6, <1>7 DEF OneToken
<1> QED BY <1>1, <1>2, <1>3, <1>8 DEF SameRequest, Finished

\* The admitted request is the first that never ran, and it takes a free slot
\* unless its first token is its last.
AdmitsInto(z, slot) ==
  /\ SameRequest(all_requests[Admitted + 1], z) /\ OneToken(all_requests[Admitted + 1], z)
  /\ slot \in Slots \ Active
  /\ all_requests' = [all_requests EXCEPT ![Admitted + 1] = z]
  /\ pending_queue' = Tail(pending_queue)
  /\ active_slots' = [active_slots EXCEPT ![slot] = IF Finished(z) THEN NoRequest ELSE Admitted + 1]
  /\ destroyed' = destroyed

\* The first request of the queue has no token yet.
LEMMA HeadFacts ==
  ASSUME IInv, pending_queue # <<>>
  PROVE  /\ Head(pending_queue) = Admitted + 1 /\ Admitted + 1 \in 1..Submitted
         /\ IsRequest(all_requests[Admitted + 1])
         /\ all_requests[Admitted + 1].generated = 0
         /\ all_requests[Admitted + 1].finish_reason = ""
<1>1. Submitted \in Nat /\ Len(pending_queue) \in Nat /\ Admitted \in 0..Submitted
      /\ Submitted = Admitted + Len(pending_queue)
  BY QueueFacts DEF IInv
<1>2. pending_queue \in Seq(Nat)
  BY DEF IInv, QueueIsTail
<1>3. Len(pending_queue) >= 1 /\ Head(pending_queue) = pending_queue[1]
  BY <1>2
<1>4. 1 \in 1..Len(pending_queue)
  BY <1>1, <1>3
<1>5. pending_queue[1] = Admitted + 1
  BY <1>4 DEF IInv, QueueIsTail
<1>6. Admitted + 1 \in 1..Submitted /\ Admitted + 1 > Admitted
  BY <1>1, <1>3
<1> QED BY <1>3, <1>5, <1>6 DEF IInv, RequestList, WaitingFresh

\* An iteration of the admission loop is such an admission.
LEMMA AdmitEffect ==
  ASSUME IInv, Admit
  PROVE  \E z : AdmitsInto(z, AvailableSlot)
<1> DEFINE x == all_requests[Admitted + 1]
<1>1. pending_queue # <<>> /\ Active # Slots
  BY DEF Admit, CanAdmit
<1>2. /\ Head(pending_queue) = Admitted + 1
      /\ IsRequest(x) /\ x.generated = 0
  BY <1>1, HeadFacts
<1>3. AvailableSlot \in Slots \ Active
  BY <1>1, SlotEffect
<1> DEFINE Sampled(eos, nodes) ==
             WithToken([all_requests[Head(pending_queue)] EXCEPT !.matched_radix_nodes = nodes], eos)
           Takes(eos, nodes) ==
             /\ all_requests' = [all_requests EXCEPT
                  ![Head(pending_queue)] = Released(Sampled(eos, nodes))]
             /\ pending_queue' = Tail(pending_queue)
             /\ active_slots' = [active_slots EXCEPT
                  ![AvailableSlot] = IF Finished(Sampled(eos, nodes)) THEN NoRequest
                                     ELSE Head(pending_queue)]
<1>4. PICK eos \in BOOLEAN : \E nodes : Takes(eos, nodes)
  BY DEF Admit
<1>5. PICK nodes : Takes(eos, nodes)
  BY <1>4
<1> HIDE DEF x
<1>6. PICK w : w = [x EXCEPT !.matched_radix_nodes = nodes]
  OBVIOUS
<1>7. PICK z : z = Released(WithToken(w, eos))
  OBVIOUS
<1>8. /\ all_requests' = [all_requests EXCEPT ![Admitted + 1] = z]
      /\ pending_queue' = Tail(pending_queue)
      /\ active_slots' = [active_slots EXCEPT
            ![AvailableSlot] = IF Finished(WithToken(w, eos)) THEN NoRequest ELSE Admitted + 1]
  BY <1>2, <1>5, <1>6, <1>7 DEF x
<1>9. IsRequest(w) /\ w.prompt = x.prompt /\ w.max_new_tokens = x.max_new_tokens
      /\ w.generated = 0
  BY <1>2, <1>6, NodesEffect
<1>10. w.generated < Budget(w)
  <2>1. w.max_new_tokens \in Nat /\ Budget(w) = IF w.max_new_tokens >= 1 THEN w.max_new_tokens ELSE 1
    BY <1>9 DEF IsRequest, Budget
  <2>2. 0 < Budget(w)
    BY <2>1, BudgetArithmetic
  <2> QED BY <1>9, <2>2
<1>11. SameRequest(w, z) /\ OneToken(w, z) /\ (Finished(z) <=> Finished(WithToken(w, eos)))
  BY <1>7, <1>9, <1>10, OneTokenEffect
<1>12. SameRequest(x, z) /\ OneToken(x, z)
  BY <1>2, <1>9, <1>11 DEF SameRequest, OneToken
<1>13. destroyed' = destroyed
  BY DEF Admit
<1>14. AdmitsInto(z, AvailableSlot)
  BY <1>3, <1>8, <1>11, <1>12, <1>13 DEF AdmitsInto, x
<1> QED BY <1>14

\* A function on 1..n is a list of n elements.
LEMMA ListLength ==
  ASSUME NEW n \in Nat, NEW f, f = [i \in 1..n |-> f[i]]
  PROVE  Len(f) = n
<1> DEFINE S == {f[i] : i \in 1..n}
<1>1. \A i \in 1..n : f[i] \in S
  OBVIOUS
<1> HIDE DEF S
<1>2. [i \in 1..n |-> f[i]] \in Seq(S)
  BY <1>1
<1> QED BY <1>2

\* What the admission does to the requests and to the queue.
LEMMA AdmitRequests ==
  ASSUME IInv, pending_queue # <<>>, NEW z, NEW slot, AdmitsInto(z, slot)
  PROVE  /\ Admitted + 1 \in 1..Submitted
         /\ all_requests'[Admitted + 1] = z
         /\ \A id \in 1..Submitted : id # Admitted + 1 => all_requests'[id] = all_requests[id]
         /\ Submitted' = Submitted /\ Admitted' = Admitted + 1
         /\ RequestList' /\ QueueIsTail'
<1> DEFINE k == Len(pending_queue)
<1>1. Submitted \in Nat /\ k \in Nat /\ Admitted \in 0..Submitted /\ Submitted = Admitted + k
  BY QueueFacts DEF IInv
<1>2. Admitted + 1 \in 1..Submitted
  BY HeadFacts
<1>3. all_requests = [id \in 1..Submitted |-> all_requests[id]]
  BY DEF IInv, RequestList
<1>4. /\ all_requests' = [id \in 1..Submitted |-> all_requests'[id]]
      /\ all_requests'[Admitted + 1] = z
      /\ \A id \in 1..Submitted : id # Admitted + 1 => all_requests'[id] = all_requests[id]
  BY <1>2, <1>3 DEF AdmitsInto
<1>5. Submitted' = Submitted
  BY <1>1, <1>4, ListLength DEF Submitted
<1>6. pending_queue \in Seq(Nat) /\ pending_queue' = Tail(pending_queue)
  BY DEF IInv, QueueIsTail, AdmitsInto
<1>7. /\ pending_queue' \in Seq(Nat) /\ Len(pending_queue') = k - 1
      /\ \A i \in 1..(k - 1) : pending_queue'[i] = pending_queue[i + 1]
  BY <1>6
<1>8. Admitted' = Admitted + 1
  BY <1>1, <1>5, <1>7 DEF Admitted
<1>9. RequestList'
  <2>1. IsRequest(z)
    BY DEF AdmitsInto, SameRequest
  <2>2. \A id \in 1..Submitted : IsRequest(all_requests'[id])
    BY <1>4, <2>1 DEF IInv, RequestList
  <2> QED BY <1>1, <1>4, <1>5, <2>2 DEF RequestList
<1>10. QueueIsTail'
  <2>1. ASSUME NEW i \in 1..(k - 1) PROVE pending_queue'[i] = (Admitted + 1) + i
    <3>1. i + 1 \in 1..k
      BY <1>1
    <3>2. pending_queue[i + 1] = Admitted + (i + 1)
      BY <3>1 DEF IInv, QueueIsTail
    <3> QED BY <1>1, <1>7, <3>2
  <2>2. k - 1 <= Submitted
    BY <1>1
  <2> QED BY <1>5, <1>7, <1>8, <2>1, <2>2 DEF QueueIsTail
<1> QED BY <1>2, <1>4, <1>5, <1>8, <1>9, <1>10

\* What it does to the slots.
LEMMA AdmitSlots ==
  ASSUME IInv, pending_queue # <<>>, NEW z, NEW slot, AdmitsInto(z, slot)
  PROVE  /\ DOMAIN active_slots' = Slots
         /\ slot \in Slots /\ slot \notin Active
         /\ \A s \in Active : active_slots'[s] = active_slots[s]
         /\ Active' = IF Finished(z) THEN Active ELSE Active \cup {slot}
         /\ ~Finished(z) => active_slots'[slot] = Admitted + 1
<1>1. slot \in Slots /\ slot \notin Active /\ DOMAIN active_slots = Slots
  BY DEF AdmitsInto, IInv
<1>2. active_slots' = [active_slots EXCEPT ![slot] = IF Finished(z) THEN NoRequest ELSE Admitted + 1]
  BY DEF AdmitsInto
<1>3. /\ DOMAIN active_slots' = Slots
      /\ active_slots'[slot] = IF Finished(z) THEN NoRequest ELSE Admitted + 1
      /\ \A s \in Slots : s # slot => active_slots'[s] = active_slots[s]
  BY <1>1, <1>2
<1>4. Admitted + 1 # NoRequest
  <2>1. Admitted + 1 \in Nat
    BY QueueFacts DEF IInv
  <2> QED BY <2>1, SchedulerAssumption
<1>5. \A s \in Slots : s # slot => (s \in Active' <=> s \in Active)
  BY <1>3 DEF Active
<1>6. slot \in Active' <=> ~Finished(z)
  BY <1>1, <1>3, <1>4 DEF Active
<1>7. Active \subseteq Slots /\ Active' \subseteq Slots
  BY DEF Active, Slots
<1> QED BY <1>1, <1>3, <1>5, <1>6, <1>7

\* An admission keeps the invariant.
LEMMA AdmitStep ==
  ASSUME IInv, Admit
  PROVE  IInv'
<1>1. pending_queue # <<>>
  BY DEF Admit, CanAdmit
<1>2. PICK z, slot : AdmitsInto(z, slot)
  BY AdmitEffect
<1> DEFINE i == Admitted + 1
<1>3. /\ i \in 1..Submitted
      /\ all_requests'[i] = z
      /\ \A id \in 1..Submitted : id # i => all_requests'[id] = all_requests[id]
      /\ Submitted' = Submitted /\ Admitted' = i
      /\ RequestList' /\ QueueIsTail'
  BY <1>1, <1>2, AdmitRequests
<1>4. /\ DOMAIN active_slots' = Slots
      /\ slot \in Slots /\ slot \notin Active
      /\ \A s \in Active : active_slots'[s] = active_slots[s]
      /\ Active' = IF Finished(z) THEN Active ELSE Active \cup {slot}
      /\ ~Finished(z) => active_slots'[slot] = i
  BY <1>1, <1>2, AdmitSlots
<1>5. /\ Admitted \in Nat /\ Submitted \in Nat
      /\ i \in Nat /\ Admitted < i /\ i <= Submitted /\ 1..Admitted \subseteq 1..Submitted
      /\ \A id \in 1..i : id \in 1..Admitted \/ id = i
      /\ i \notin 1..Admitted /\ 1..Admitted \subseteq 1..i /\ i \in 1..i
  BY <1>3, QueueFacts DEF IInv
<1>6. z.generated = 1 /\ OneToken(all_requests[i], z)
  <2>1. OneToken(all_requests[i], z)
    BY <1>2 DEF AdmitsInto
  <2>2. all_requests[i].generated = 0
    BY <1>1, HeadFacts
  <2>3. z.generated = all_requests[i].generated + 1
    BY <2>1 DEF OneToken
  <2> QED BY <2>1, <2>2, <2>3
<1>7. destroyed' = destroyed
  BY <1>2 DEF AdmitsInto
<1> HIDE DEF i
<1>8. WaitingFresh'
  <2>1. ASSUME NEW id \in 1..Submitted, id > i
        PROVE  all_requests'[id].generated = 0 /\ all_requests'[id].finish_reason = ""
    <3>1. id # i /\ id > Admitted
      BY <1>5, <2>1
    <3> QED BY <1>3, <3>1 DEF IInv, WaitingFresh
  <2> QED BY <1>3, <2>1 DEF WaitingFresh
<1>9. ASSUME NEW s \in Active
      PROVE  /\ active_slots'[s] = active_slots[s] /\ active_slots[s] \in 1..Admitted
             /\ active_slots[s] \in 1..i /\ active_slots[s] # i
             /\ all_requests'[active_slots[s]] = all_requests[active_slots[s]]
  <2>1. active_slots[s] \in 1..Admitted
    BY DEF IInv, RunningUnfinished
  <2> QED BY <1>3, <1>4, <1>5, <2>1
<1>10. RunningUnfinished'
  <2>1. ASSUME NEW s \in Active'
        PROVE  /\ active_slots'[s] \in 1..i
               /\ all_requests'[active_slots'[s]].finish_reason = ""
               /\ all_requests'[active_slots'[s]].generated
                    \in 1..(Budget(all_requests'[active_slots'[s]]) - 1)
    <3>1. CASE s \in Active
      BY <1>9, <3>1 DEF IInv, RunningUnfinished
    <3>2. CASE s \notin Active
      <4>1. s = slot /\ ~Finished(z)
        BY <1>4, <3>2
      <4>2. active_slots'[s] = i /\ z.finish_reason = ""
        BY <1>4, <4>1 DEF Finished
      <4>3. 1 < Budget(z)
        BY <1>6, <4>2 DEF OneToken
      <4>4. Budget(z) \in Nat
        BY <1>3 DEF RequestList, IsRequest, Budget
      <4>5. 1 \in 1..(Budget(z) - 1)
        BY <4>3, <4>4
      <4> QED BY <1>3, <1>5, <1>6, <4>2, <4>5
    <3> QED BY <3>1, <3>2
  <2> QED BY <1>3, <2>1 DEF RunningUnfinished
<1>11. WithinBudget'
  <2>1. ASSUME NEW id \in 1..Submitted
        PROVE  /\ all_requests'[id].generated <= Budget(all_requests'[id])
               /\ all_requests'[id].finish_reason = "length"
                    => all_requests'[id].generated = Budget(all_requests'[id])
    <3>1. CASE id = i
      BY <1>3, <1>6, <3>1 DEF OneToken
    <3>2. CASE id # i
      BY <1>3, <3>2 DEF IInv, WithinBudget
    <3> QED BY <3>1, <3>2
  <2> QED BY <1>3, <2>1 DEF WithinBudget
<1>12. SlotsDistinct'
  <2>1. ASSUME NEW s \in Active', NEW t \in Active', active_slots'[s] = active_slots'[t]
        PROVE  s = t
    <3>1. CASE s \in Active /\ t \in Active
      BY <1>9, <2>1, <3>1 DEF IInv, SlotsDistinct
    <3>2. CASE s \in Active /\ t \notin Active
      BY <1>4, <1>9, <2>1, <3>2
    <3>3. CASE s \notin Active /\ t \in Active
      BY <1>4, <1>9, <2>1, <3>3
    <3>4. CASE s \notin Active /\ t \notin Active
      BY <1>4, <3>4
    <3> QED BY <3>1, <3>2, <3>3, <3>4
  <2> QED BY <2>1 DEF SlotsDistinct
<1>13. NobodyForgotten'
  <2>1. ASSUME NEW id \in 1..i
        PROVE  destroyed' \/ (\E s \in Active' : active_slots'[s] = id)
               \/ Finished(all_requests'[id])
    <3>1. CASE id \in 1..Admitted
      <4>1. all_requests'[id] = all_requests[id]
        BY <1>3, <1>5, <3>1
      <4>2. destroyed \/ (\E s \in Active : active_slots[s] = id) \/ Finished(all_requests[id])
        BY <3>1 DEF IInv, NobodyForgotten
      <4> QED BY <1>4, <1>7, <1>9, <4>1, <4>2
    <3>2. CASE id = i
      BY <1>3, <1>4, <3>2
    <3> QED BY <1>5, <3>1, <3>2
  <2> QED BY <1>3, <2>1 DEF NobodyForgotten
<1> QED BY <1>3, <1>4, <1>7, <1>8, <1>10, <1>11, <1>12, <1>13 DEF IInv

----------------------------------------------------------------------------
(***************************************************************************)
(* What a decode step and the destructor have in common: some slots become *)
(* empty, and some of the running requests got one token.  A request ends  *)
(* exactly when its slot is emptied, unless the scheduler is destroyed.    *)
(***************************************************************************)
Empties(done) ==
  /\ done \subseteq Active
  /\ all_requests' = [id \in 1..Submitted |-> all_requests'[id]]
  /\ \A id \in 1..Submitted :
        /\ SameRequest(all_requests[id], all_requests'[id])
        /\ \/ NoToken(all_requests[id], all_requests'[id])
           \/ /\ OneToken(all_requests[id], all_requests'[id])
              /\ \E s \in Active : active_slots[s] = id
              /\ Finished(all_requests'[id]) => \E s \in done : active_slots[s] = id
  /\ active_slots' = [s \in Slots |-> IF s \in done THEN NoRequest ELSE active_slots[s]]
  /\ pending_queue' = pending_queue
  /\ destroyed' \in BOOLEAN /\ (destroyed => destroyed')
  /\ destroyed' \/ \A s \in done : Finished(all_requests'[active_slots[s]])

\* Emptying slots leaves the queue and the other slots alone.
LEMMA EmptiesFrame ==
  ASSUME IInv, NEW done, Empties(done)
  PROVE  /\ Submitted' = Submitted /\ Admitted' = Admitted
         /\ RequestList' /\ QueueIsTail'
         /\ DOMAIN active_slots' = Slots /\ Active' = Active \ done
         /\ \A s \in Active \ done : active_slots'[s] = active_slots[s]
<1>1. Submitted \in Nat /\ QueueIsTail
  BY DEF IInv, RequestList
<1>2. Submitted' = Submitted
  BY <1>1, ListLength DEF Empties, Submitted
<1>3. pending_queue' = pending_queue
  BY DEF Empties
<1>4. Admitted' = Admitted
  BY <1>2, <1>3 DEF Admitted
<1>5. RequestList'
  BY <1>1, <1>2 DEF RequestList, Empties, SameRequest
<1>6. QueueIsTail'
  BY <1>1, <1>2, <1>3, <1>4 DEF QueueIsTail
<1>7. /\ DOMAIN active_slots' = Slots
      /\ \A s \in Slots : active_slots'[s] = IF s \in done THEN NoRequest ELSE active_slots[s]
  BY DEF Empties
<1>8. Active' = Active \ done
  BY <1>7 DEF Active
<1>9. \A s \in Active \ done : active_slots'[s] = active_slots[s]
  BY <1>7 DEF Active
<1> QED BY <1>2, <1>4, <1>5, <1>6, <1>7, <1>8, <1>9

\* Emptying slots keeps the invariant.
LEMMA EmptiesStep ==
  ASSUME IInv, NEW done, Empties(done)
  PROVE  IInv'
<1>1. /\ Submitted' = Submitted /\ Admitted' = Admitted
      /\ RequestList' /\ QueueIsTail'
      /\ DOMAIN active_slots' = Slots /\ Active' = Active \ done
      /\ \A s \in Active \ done : active_slots'[s] = active_slots[s]
  BY EmptiesFrame
<1>2. /\ Submitted \in Nat /\ Admitted \in 0..Submitted
      /\ \A id \in 1..Admitted : id \in 1..Submitted /\ ~(id > Admitted)
  BY QueueFacts DEF IInv
<1>3. \A s \in Active : /\ active_slots[s] \in 1..Admitted
                         /\ all_requests[active_slots[s]].finish_reason = ""
  BY DEF IInv, RunningUnfinished
<1>4. WaitingFresh'
  <2>1. ASSUME NEW id \in 1..Submitted, id > Admitted
        PROVE  all_requests'[id].generated = 0 /\ all_requests'[id].finish_reason = ""
    <3>1. ~\E s \in Active : active_slots[s] = id
      BY <1>2, <1>3, <2>1
    <3>2. NoToken(all_requests[id], all_requests'[id])
      BY <3>1 DEF Empties
    <3> QED BY <2>1, <3>2 DEF IInv, WaitingFresh, NoToken
  <2> QED BY <1>1, <2>1 DEF WaitingFresh
<1>5. RunningUnfinished'
  <2>1. ASSUME NEW s \in Active \ done, NEW id, id = active_slots[s]
        PROVE  /\ all_requests'[id].finish_reason = ""
               /\ all_requests'[id].generated \in 1..(Budget(all_requests'[id]) - 1)
    <3>1. /\ id \in 1..Admitted /\ id \in 1..Submitted
          /\ all_requests[id].finish_reason = ""
          /\ all_requests[id].generated \in 1..(Budget(all_requests[id]) - 1)
      BY <1>2, <2>1 DEF IInv, RunningUnfinished
    <3>2. SameRequest(all_requests[id], all_requests'[id])
      BY <3>1 DEF Empties
    <3>3. CASE NoToken(all_requests[id], all_requests'[id])
      <4>1. Budget(all_requests'[id]) = Budget(all_requests[id])
        BY <3>2 DEF SameRequest, Budget
      <4> QED BY <3>1, <3>3, <4>1 DEF NoToken
    <3>4. CASE ~NoToken(all_requests[id], all_requests'[id])
      <4>1. /\ OneToken(all_requests[id], all_requests'[id])
            /\ Finished(all_requests'[id]) => \E t \in done : active_slots[t] = id
        BY <3>1, <3>4 DEF Empties
      <4>2. ~\E t \in done : active_slots[t] = id
        BY <2>1 DEF IInv, SlotsDistinct, Empties
      <4>3. all_requests'[id].finish_reason = ""
        BY <4>1, <4>2 DEF Finished
      <4>4. /\ all_requests'[id].generated = all_requests[id].generated + 1
            /\ all_requests'[id].generated < Budget(all_requests'[id])
        BY <4>1, <4>3 DEF OneToken
      <4>5. Budget(all_requests'[id]) \in Nat
        BY <3>2, BudgetIsNat DEF SameRequest
      <4>6. all_requests[id].generated \in Nat
        BY <3>1, BudgetIsNat DEF IInv, RequestList
      <4>7. all_requests[id].generated >= 1
        <5>1. Budget(all_requests[id]) \in Nat
          BY <3>1, BudgetIsNat DEF IInv, RequestList
        <5>2. all_requests[id].generated \in 1..(Budget(all_requests[id]) - 1)
          BY <3>1
        <5>3. \A g, b \in Nat : g \in 1..(b - 1) => g >= 1
          OBVIOUS
        <5> QED BY <4>6, <5>1, <5>2, <5>3
      <4>8. \A g, h, b \in Nat : g >= 1 /\ h = g + 1 /\ h < b => h \in 1..(b - 1)
        OBVIOUS
      <4>9. all_requests'[id].generated \in Nat
        BY <4>4, <4>6
      <4>10. all_requests'[id].generated \in 1..(Budget(all_requests'[id]) - 1)
        BY <4>4, <4>5, <4>6, <4>7, <4>8, <4>9
      <4> QED BY <4>3, <4>10
    <3> QED BY <3>3, <3>4
  <2> QED BY <1>1, <1>3, <2>1 DEF RunningUnfinished
<1>6. WithinBudget'
  <2>1. ASSUME NEW id \in 1..Submitted
        PROVE  /\ all_requests'[id].generated <= Budget(all_requests'[id])
               /\ all_requests'[id].finish_reason = "length"
                    => all_requests'[id].generated = Budget(all_requests'[id])
    <3>1. SameRequest(all_requests[id], all_requests'[id])
      BY DEF Empties
    <3>2. CASE NoToken(all_requests[id], all_requests'[id])
      <4>1. Budget(all_requests'[id]) = Budget(all_requests[id])
        BY <3>1 DEF SameRequest, Budget
      <4> QED BY <3>2, <4>1 DEF NoToken, IInv, WithinBudget
    <3>3. CASE OneToken(all_requests[id], all_requests'[id])
      BY <3>3 DEF OneToken
    <3> QED BY <3>2, <3>3 DEF Empties
  <2> QED BY <1>1, <2>1 DEF WithinBudget
<1>7. SlotsDistinct'
  BY <1>1 DEF IInv, SlotsDistinct
<1>8. NobodyForgotten'
  <2>1. ASSUME NEW id \in 1..Admitted, ~destroyed'
        PROVE  (\E s \in Active' : active_slots'[s] = id) \/ Finished(all_requests'[id])
    <3>1. ~destroyed
      BY <2>1 DEF Empties
    <3>2. CASE \E s \in done : active_slots[s] = id
      BY <2>1, <3>2 DEF Empties
    <3>3. CASE \E s \in Active \ done : active_slots[s] = id
      BY <1>1, <3>3
    <3>4. CASE ~\E s \in Active : active_slots[s] = id
      <4>1. Finished(all_requests[id])
        BY <3>1, <3>4 DEF IInv, NobodyForgotten
      <4>2. NoToken(all_requests[id], all_requests'[id])
        BY <1>2, <3>4 DEF Empties
      <4> QED BY <4>1, <4>2 DEF NoToken, Finished
    <3> QED BY <3>2, <3>3, <3>4
  <2> QED BY <1>1, <2>1 DEF NobodyForgotten
<1>9. destroyed' \in BOOLEAN
  BY DEF Empties
<1> QED BY <1>1, <1>4, <1>5, <1>6, <1>7, <1>8, <1>9 DEF IInv

\* One decode step.
LEMMA DecodeEffect ==
  ASSUME IInv, Decode
  PROVE  \E done : Empties(done)
<1> DEFINE served == DecodeBatch \cap Active
<1>1. PICK eos \in SUBSET served :
        LET sampled == [id \in DOMAIN all_requests |->
                IF \E s \in served : active_slots[s] = id
                THEN WithToken(all_requests[id], \E s \in eos : active_slots[s] = id)
                ELSE all_requests[id]]
            done  == {s \in served : Finished(sampled[active_slots[s]])}
        IN  /\ all_requests' = [id \in DOMAIN sampled |-> Released(sampled[id])]
            /\ active_slots' = [s \in Slots |->
                 IF s \in done THEN NoRequest ELSE active_slots[s]]
  BY DEF Decode
<1> DEFINE sampled == [id \in DOMAIN all_requests |->
                IF \E s \in served : active_slots[s] = id
                THEN WithToken(all_requests[id], \E s \in eos : active_slots[s] = id)
                ELSE all_requests[id]]
           done == {s \in served : Finished(sampled[active_slots[s]])}
<1>2. /\ all_requests' = [id \in DOMAIN sampled |-> Released(sampled[id])]
      /\ active_slots' = [s \in Slots |-> IF s \in done THEN NoRequest ELSE active_slots[s]]
  BY <1>1
<1>3. DOMAIN sampled = 1..Submitted /\ DOMAIN all_requests = 1..Submitted
  BY QueueFacts DEF IInv
<1>4. done \subseteq served /\ served \subseteq Active
  OBVIOUS
<1>5. \A s \in served : s \in done <=> Finished(sampled[active_slots[s]])
  OBVIOUS
<1>6. \A id \in 1..Submitted : (\E s \in served : active_slots[s] = id)
          => sampled[id] = WithToken(all_requests[id], \E s \in eos : active_slots[s] = id)
  BY <1>3
<1>7. \A id \in 1..Submitted : ~(\E s \in served : active_slots[s] = id)
          => sampled[id] = all_requests[id]
  BY <1>3
<1> HIDE DEF sampled, done, served
<1>8. \A id \in 1..Submitted : all_requests'[id] = Released(sampled[id])
  BY <1>2, <1>3
<1>9. \A s \in Active : /\ active_slots[s] \in 1..Submitted
                         /\ IsRequest(all_requests[active_slots[s]])
                         /\ all_requests[active_slots[s]].generated
                              < Budget(all_requests[active_slots[s]])
  <2>1. ASSUME NEW s \in Active PROVE active_slots[s] \in 1..Submitted
    <3>1. active_slots[s] \in 1..Admitted
      BY DEF IInv, RunningUnfinished
    <3>2. Submitted \in Nat /\ Admitted \in 0..Submitted
      BY QueueFacts DEF IInv
    <3> QED BY <3>1, <3>2
  <2>2. ASSUME NEW s \in Active PROVE IsRequest(all_requests[active_slots[s]])
    BY <2>1 DEF IInv, RequestList
  <2>3. ASSUME NEW s \in Active
        PROVE  all_requests[active_slots[s]].generated < Budget(all_requests[active_slots[s]])
    <3>1. all_requests[active_slots[s]].generated \in 1..(Budget(all_requests[active_slots[s]]) - 1)
      BY DEF IInv, RunningUnfinished
    <3>2. Budget(all_requests[active_slots[s]]) \in Nat
      BY <2>2 DEF IsRequest, Budget
    <3> QED BY <3>1, <3>2
  <2> QED BY <2>1, <2>2, <2>3
<1>10. ASSUME NEW id \in 1..Submitted, \E s \in served : active_slots[s] = id
       PROVE  /\ SameRequest(all_requests[id], all_requests'[id])
              /\ OneToken(all_requests[id], all_requests'[id])
              /\ Finished(all_requests'[id]) <=> Finished(sampled[id])
  <2>1. IsRequest(all_requests[id]) /\ all_requests[id].generated < Budget(all_requests[id])
    BY <1>4, <1>9, <1>10
  <2>2. PICK b \in BOOLEAN : b = (\E s \in eos : active_slots[s] = id)
    OBVIOUS
  <2>3. sampled[id] = WithToken(all_requests[id], b)
    BY <1>6, <1>10, <2>2
  <2> QED BY <1>8, <2>1, <2>3, OneTokenEffect
<1>11. ASSUME NEW id \in 1..Submitted, ~\E s \in served : active_slots[s] = id
       PROVE  /\ SameRequest(all_requests[id], all_requests'[id])
              /\ NoToken(all_requests[id], all_requests'[id])
  <2>1. IsRequest(all_requests[id])
    BY DEF IInv, RequestList
  <2>2. all_requests'[id] = Released(all_requests[id])
    BY <1>7, <1>8, <1>11
  <2> QED BY <2>1, <2>2, ReleasedEffect DEF SameRequest, NoToken
<1>12. ASSUME NEW id \in 1..Submitted
       PROVE  /\ SameRequest(all_requests[id], all_requests'[id])
              /\ \/ NoToken(all_requests[id], all_requests'[id])
                 \/ /\ OneToken(all_requests[id], all_requests'[id])
                    /\ \E s \in Active : active_slots[s] = id
                    /\ Finished(all_requests'[id]) => \E s \in done : active_slots[s] = id
  <2>1. CASE \E s \in served : active_slots[s] = id
    <3>1. Finished(sampled[id]) => \E s \in done : active_slots[s] = id
      BY <1>5, <2>1
    <3> QED BY <1>4, <1>10, <2>1, <3>1
  <2>2. CASE ~\E s \in served : active_slots[s] = id
    BY <1>11, <2>2
  <2> QED BY <2>1, <2>2
<1>13. ASSUME NEW s \in done PROVE Finished(all_requests'[active_slots[s]])
  <2>1. s \in served /\ Finished(sampled[active_slots[s]]) /\ active_slots[s] \in 1..Submitted
    BY <1>4, <1>5, <1>9
  <2> QED BY <1>10, <2>1
<1>14. pending_queue' = pending_queue /\ destroyed' = destroyed /\ destroyed \in BOOLEAN
  BY DEF Decode, IInv
<1>15. all_requests' = [id \in 1..Submitted |-> all_requests'[id]]
  BY <1>2, <1>3
<1>16. Empties(done)
  BY <1>2, <1>4, <1>12, <1>13, <1>14, <1>15 DEF Empties
<1> QED BY <1>16

\* The destructor.
LEMMA DestroyEffect ==
  ASSUME IInv, Destroy
  PROVE  /\ Empties(Active) /\ destroyed' = TRUE
         /\ \A id \in 1..Submitted : NoToken(all_requests[id], all_requests'[id])
<1>1. DOMAIN all_requests = 1..Submitted
  BY QueueFacts DEF IInv
<1>2. /\ destroyed' = TRUE /\ pending_queue' = pending_queue
      /\ active_slots' = [s \in Slots |-> NoRequest]
      /\ all_requests' = [id \in DOMAIN all_requests |->
            IF \E s \in Active : active_slots[s] = id
            THEN [all_requests[id] EXCEPT !.matched_radix_nodes = <<>>]
            ELSE all_requests[id]]
  BY DEF Destroy
<1>3. all_requests' = [id \in 1..Submitted |-> all_requests'[id]]
  BY <1>1, <1>2
<1>4. ASSUME NEW id \in 1..Submitted
      PROVE  /\ SameRequest(all_requests[id], all_requests'[id])
             /\ NoToken(all_requests[id], all_requests'[id])
  <2>1. IsRequest(all_requests[id])
    BY DEF IInv, RequestList
  <2>2. CASE \E s \in Active : active_slots[s] = id
    <3>1. all_requests'[id] = [all_requests[id] EXCEPT !.matched_radix_nodes = <<>>]
      BY <1>1, <1>2, <2>2
    <3> QED BY <2>1, <3>1, NodesEffect DEF SameRequest, NoToken
  <2>3. CASE ~\E s \in Active : active_slots[s] = id
    <3>1. all_requests'[id] = all_requests[id]
      BY <1>1, <1>2, <2>3
    <3> QED BY <2>1, <3>1 DEF SameRequest, NoToken
  <2> QED BY <2>2, <2>3
<1>5. active_slots' = [s \in Slots |-> IF s \in Active THEN NoRequest ELSE active_slots[s]]
  BY <1>2 DEF Active
<1> QED BY <1>2, <1>3, <1>4, <1>5 DEF Empties

\* A step that concerns pages, nodes or flags only.
LEMMA OtherStep ==
  ASSUME IInv, UNCHANGED <<all_requests, pending_queue, active_slots, destroyed>>
  PROVE  IInv'
BY DEF IInv, RequestList, QueueIsTail, WaitingFresh, RunningUnfinished, WithinBudget,
       SlotsDistinct, NobodyForgotten, Submitted, Admitted, Active

\* Every step keeps the invariant.
LEMMA NextStep == IInv /\ [Next]_vars => IInv'
<1> SUFFICES ASSUME IInv, [Next]_vars PROVE IInv'
  OBVIOUS
<1>1. CASE Admit
  BY <1>1, AdmitStep
<1>2. CASE ReturnFromStep
  BY <1>2, OtherStep DEF ReturnFromStep
<1>3. CASE Decode
  BY <1>3, DecodeEffect, EmptiesStep
<1>4. CASE \E prompt \in Prompts, max_new \in MaxNewTokens : AddRequest(prompt, max_new)
  BY <1>4, AddRequestStep
<1>5. CASE \E enable \in CachingSettings : EnablePrefixCaching(enable)
  BY <1>5, OtherStep DEF EnablePrefixCaching
<1>6. CASE ResetKVCache
  BY <1>6, OtherStep DEF ResetKVCache
<1>7. CASE Destroy
  BY <1>7, DestroyEffect, EmptiesStep
<1>8. CASE UNCHANGED vars
  BY <1>8, OtherStep DEF vars
<1> QED BY <1>1, <1>2, <1>3, <1>4, <1>5, <1>6, <1>7, <1>8 DEF Next, Step

(***************************************************************************)
(* The invariant holds whatever the page manager and the tree do, for any  *)
(* number of slots, requests, prompts and budgets.                         *)
(***************************************************************************)
THEOREM InductiveInvariant == Spec => []IInv
<1>1. Init => IInv
  BY InitStep
<1>2. IInv /\ [Next]_vars => IInv'
  BY NextStep
<1> QED BY <1>1, <1>2, PTL DEF Spec

----------------------------------------------------------------------------
\* The invariant places every request.
LEMMA ConservedFromInvariant == IInv => RequestsConserved
<1> SUFFICES ASSUME IInv PROVE RequestsConserved
  OBVIOUS
<1>1. /\ Submitted \in Nat /\ Len(pending_queue) \in Nat /\ Admitted \in 0..Submitted
      /\ Submitted = Admitted + Len(pending_queue) /\ DOMAIN all_requests = 1..Submitted
  BY QueueFacts DEF IInv
<1>2. DOMAIN pending_queue = 1..Len(pending_queue)
  BY DEF IInv, QueueIsTail
<1>3. ASSUME NEW i \in DOMAIN pending_queue, NEW j \in DOMAIN pending_queue,
             pending_queue[i] = pending_queue[j]
      PROVE  i = j
  <2>1. pending_queue[i] = Admitted + i /\ pending_queue[j] = Admitted + j
    BY <1>2 DEF IInv, QueueIsTail
  <2>2. i \in Nat /\ j \in Nat /\ Admitted \in Nat
    BY <1>1, <1>2
  <2>3. Admitted + i = Admitted + j
    BY <1>3, <2>1
  <2> QED BY <2>2, <2>3
<1>4. \A s, t \in Active : active_slots[s] = active_slots[t] => s = t
  BY DEF IInv, SlotsDistinct
<1>5. ASSUME NEW id \in Ids
      PROVE  LET waits == \E i \in DOMAIN pending_queue : pending_queue[i] = id
                 runs  == id \in Running
                 ends  == Finished(all_requests[id])
             IN  /\ ~(waits /\ runs) /\ ~(waits /\ ends) /\ ~(runs /\ ends)
                 /\ waits \/ runs \/ ends \/ destroyed
  <2> DEFINE waits == \E i \in DOMAIN pending_queue : pending_queue[i] = id
             runs == id \in Running
             ends == Finished(all_requests[id])
  <2>1. id \in 1..Submitted
    BY <1>1 DEF Ids
  <2>2. waits => id > Admitted
    BY <1>1, <1>2 DEF IInv, QueueIsTail
  <2>3. id > Admitted => waits
    <3> SUFFICES ASSUME id > Admitted PROVE waits
      OBVIOUS
    <3>1. (id - Admitted) \in 1..Len(pending_queue) /\ Admitted + (id - Admitted) = id
      BY <1>1, <2>1
    <3>2. pending_queue[id - Admitted] = Admitted + (id - Admitted)
      BY <3>1 DEF IInv, QueueIsTail
    <3> QED BY <1>2, <3>1, <3>2
  <2>4. runs => id \in 1..Admitted /\ ~ends
    BY DEF IInv, RunningUnfinished, Running, Finished
  <2>5. id > Admitted => ~ends
    BY <2>1 DEF IInv, WaitingFresh, Finished
  <2>6. ~(id > Admitted) => destroyed \/ runs \/ ends
    <3> SUFFICES ASSUME ~(id > Admitted) PROVE destroyed \/ runs \/ ends
      OBVIOUS
    <3>1. id \in 1..Admitted
      BY <1>1, <2>1
    <3> QED BY <3>1 DEF IInv, NobodyForgotten, Running
  <2>7. id \in 1..Admitted => ~(id > Admitted)
    BY <1>1
  <2> HIDE DEF waits, runs, ends
  <2>8. /\ ~(waits /\ runs) /\ ~(waits /\ ends) /\ ~(runs /\ ends)
        /\ waits \/ runs \/ ends \/ destroyed
    BY <2>2, <2>3, <2>4, <2>5, <2>6, <2>7
  <2> QED BY <2>8 DEF waits, runs, ends
<1> QED BY <1>3, <1>4, <1>5 DEF RequestsConserved

(***************************************************************************)
(* Every submitted request waits, runs or has ended, and only one of       *)
(* these: whatever the order of admissions, decode steps, submissions and  *)
(* resets, none is lost and none is served twice.                          *)
(***************************************************************************)
THEOREM Conserved == Spec => []RequestsConserved
BY InductiveInvariant, ConservedFromInvariant, PTL

\* The invariant bounds the tokens of every request.
LEMMA BudgetFromInvariant == IInv => TokenBudget
<1> SUFFICES ASSUME IInv, NEW id \in Ids
             PROVE  LET req    == all_requests[id]
                        budget == Max({req.max_new_tokens, 1})
                    IN  /\ req.generated <= budget
                        /\ req.finish_reason = "length" => req.generated = budget
                        /\ id \in Running => req.generated \in 1..(budget - 1)
  BY DEF TokenBudget
<1>1. id \in 1..Submitted
  BY QueueFacts DEF IInv, Ids
<1>2. all_requests[id].max_new_tokens \in Nat
  BY <1>1 DEF IInv, RequestList, IsRequest
<1>3. Max({all_requests[id].max_new_tokens, 1}) = Budget(all_requests[id])
  BY <1>2, MaxWithOne DEF Budget
<1>4. /\ all_requests[id].generated <= Budget(all_requests[id])
      /\ all_requests[id].finish_reason = "length"
           => all_requests[id].generated = Budget(all_requests[id])
  BY <1>1 DEF IInv, WithinBudget
<1>5. id \in Running => all_requests[id].generated \in 1..(Budget(all_requests[id]) - 1)
  BY DEF IInv, RunningUnfinished, Running
<1> QED BY <1>3, <1>4, <1>5

(***************************************************************************)
(* Every request keeps to its budget of tokens, one that ended for         *)
(* "length" got all of them, and one that runs is short of it.             *)
(***************************************************************************)
THEOREM WithinTokenBudget == Spec => []TokenBudget
BY InductiveInvariant, BudgetFromInvariant, PTL

----------------------------------------------------------------------------
(***************************************************************************)
(* The refinement of FifoService.  Running requests are counted by their   *)
(* slots, which are pairwise different, and the requests the service knows *)
(* of are the first Submitted numbers, until the scheduler is destroyed.   *)
(***************************************************************************)
Ended == {id \in Ids : Finished(all_requests[id])}

\* There are MaxBatch slots.
LEMMA SlotsFinite == IsFiniteSet(Slots) /\ Cardinality(Slots) = MaxBatch
<1>1. MaxBatch \in Nat /\ MaxBatch > 0
  BY PagedAssumption
<1>2. /\ IsFiniteSet(0..(MaxBatch - 1))
      /\ Cardinality(0..(MaxBatch - 1)) =
           IF 0 > MaxBatch - 1 THEN 0 ELSE (MaxBatch - 1) - 0 + 1
  BY <1>1, FS_Interval
<1> QED BY <1>1, <1>2 DEF Slots

\* As many requests run as slots are taken.
LEMMA RunningCount ==
  ASSUME IInv
  PROVE  /\ IsFiniteSet(Active) /\ Cardinality(Active) \in Nat
         /\ Cardinality(Running) = Cardinality(Active)
<1>1. Active \subseteq Slots
  BY DEF Active
<1>2. IsFiniteSet(Active)
  BY <1>1, SlotsFinite, FS_Subset
<1>3. PICK f : f = [s \in Active |-> active_slots[s]]
  OBVIOUS
<1>4. f \in Bijection(Active, Running)
  <2>1. f \in [Active -> Running] /\ \A s \in Active : f[s] = active_slots[s]
    BY <1>3 DEF Running
  <2>2. \A s, t \in Active : f[s] = f[t] => s = t
    BY <2>1 DEF IInv, SlotsDistinct
  <2>3. \A r \in Running : \E s \in Active : f[s] = r
    BY <2>1 DEF Running
  <2> QED BY <2>1, <2>2, <2>3 DEF Bijection, Injection, Surjection, IsInjective
<1>5. ExistsBijection(Active, Running)
  BY <1>4 DEF ExistsBijection
<1> QED BY <1>2, <1>5, FS_Bijection, FS_CardinalityType

\* The capacity of the service is used up when every slot is taken.
LEMMA CapacityUsed ==
  ASSUME IInv
  PROVE  /\ Active # Slots => Cardinality(Running) < MaxBatch
         /\ Active = Slots => Cardinality(Running) = MaxBatch
<1>1. Active \subseteq Slots
  BY DEF Active
<1>2. IsFiniteSet(Slots) /\ Cardinality(Slots) = MaxBatch /\ MaxBatch \in Nat
  BY SlotsFinite, PagedAssumption
<1>3. Cardinality(Active) <= MaxBatch /\ (Cardinality(Active) = MaxBatch => Active = Slots)
  BY <1>1, <1>2, FS_Subset
<1> QED BY <1>2, <1>3, RunningCount

\* The service counts as the module of finite sets does.
LEMMA SameCardinality == \A S : Service!Cardinality(S) = Cardinality(S)
BY DEF Cardinality, Service!Cardinality

\* As long as the scheduler is not destroyed, the service knows exactly the
\* submitted requests.
LEMMA KnownRequests ==
  ASSUME IInv, ~destroyed
  PROVE  Service!Known = 1..Submitted /\ Cardinality(Service!Known) = Submitted
<1>1. /\ Submitted \in Nat /\ Len(pending_queue) \in Nat /\ Admitted \in 0..Submitted
      /\ Submitted = Admitted + Len(pending_queue) /\ DOMAIN all_requests = 1..Submitted
  BY QueueFacts DEF IInv
<1>2. RequestsConserved
  BY ConservedFromInvariant
<1>3. Service!Known = {pending_queue[i] : i \in DOMAIN pending_queue} \cup Running \cup Ended
  BY DEF Service!Known, Ended
<1>4. ASSUME NEW id \in 1..Submitted PROVE id \in Service!Known
  BY <1>1, <1>2, <1>3 DEF RequestsConserved, Ids, Ended
<1>5. ASSUME NEW id \in Service!Known PROVE id \in 1..Submitted
  <2>1. CASE id \in {pending_queue[i] : i \in DOMAIN pending_queue}
    <3>1. PICK i \in DOMAIN pending_queue : id = pending_queue[i]
      BY <2>1
    <3>2. i \in 1..Len(pending_queue) /\ id = Admitted + i
      BY <3>1 DEF IInv, QueueIsTail
    <3> QED BY <1>1, <3>2
  <2>2. CASE id \in Running
    <3>1. id \in 1..Admitted
      BY <2>2 DEF Running, IInv, RunningUnfinished
    <3> QED BY <1>1, <3>1
  <2>3. CASE id \in Ended
    BY <1>1, <2>3 DEF Ended, Ids
  <2> QED BY <1>3, <1>5, <2>1, <2>2, <2>3
<1>6. Service!Known = 1..Submitted
  BY <1>4, <1>5
<1>7. Cardinality(1..Submitted) = IF 1 > Submitted THEN 0 ELSE Submitted - 1 + 1
  <2>1. 1 \in Int /\ Submitted \in Int
    BY <1>1
  <2> QED BY <2>1, FS_Interval
<1>8. Cardinality(1..Submitted) = Submitted
  BY <1>1, <1>7
<1> QED BY <1>6, <1>8

\* At first the service is open and has no requests.
LEMMA ServiceInit == Init => Service!Init
<1> SUFFICES ASSUME Init PROVE Service!Init
  OBVIOUS
<1>1. all_requests = <<>> /\ pending_queue = <<>> /\ destroyed = FALSE
      /\ active_slots = [s \in Slots |-> NoRequest]
  BY DEF Init
<1>2. Running = {}
  BY <1>1 DEF Running, Active
<1>3. {id \in Ids : Finished(all_requests[id])} = {}
  BY <1>1 DEF Ids
<1> QED BY <1>1, <1>2, <1>3 DEF Service!Init

\* A submission is a submission.
LEMMA AddRequestRefines ==
  ASSUME IInv, NEW prompt \in Prompts, NEW max_new \in MaxNewTokens, AddRequest(prompt, max_new)
  PROVE  Service!Submit
<1>1. /\ Submitted' = Submitted + 1
      /\ RequestList'
      /\ \A id \in 1..Submitted : all_requests'[id] = all_requests[id]
      /\ all_requests'[Submitted + 1].finish_reason = ""
      /\ active_slots' = active_slots /\ destroyed' = destroyed
  BY AddRequestEffect
<1>2. Submitted \in Nat /\ DOMAIN all_requests = 1..Submitted
  BY QueueFacts DEF IInv
<1>3. DOMAIN all_requests' = 1..(Submitted + 1)
  BY <1>1 DEF RequestList
<1>4. Running' = Running
  BY <1>1 DEF Running, Active
<1>5. \A id \in 1..(Submitted + 1) : id \in 1..Submitted \/ id = Submitted + 1
  BY <1>2
<1>6. \A id \in 1..Submitted : id \in 1..(Submitted + 1)
  BY <1>2
<1>7. Ended' = Ended
  BY <1>1, <1>2, <1>3, <1>5, <1>6 DEF Ended, Ids, Finished
<1>8. ~destroyed /\ pending_queue' = Append(pending_queue, Submitted + 1)
  BY DEF AddRequest, Idle, Submitted
<1>9. Cardinality(Service!Known) = Submitted
  BY <1>8, KnownRequests
<1>10. Service!Cardinality(Service!Known) = Submitted
  BY <1>9, SameCardinality
<1> QED BY <1>1, <1>4, <1>7, <1>8, <1>10 DEF Service!Submit, Ended

\* An admission starts the first waiting request.
LEMMA AdmitRefines ==
  ASSUME IInv, Admit
  PROVE  Service!StartFirst
<1>1. pending_queue # <<>> /\ Active # Slots /\ ~destroyed
  BY DEF Admit, CanAdmit
<1>2. PICK z, slot : AdmitsInto(z, slot)
  BY AdmitEffect
<1>3. /\ Admitted + 1 \in 1..Submitted
      /\ all_requests'[Admitted + 1] = z
      /\ \A id \in 1..Submitted : id # Admitted + 1 => all_requests'[id] = all_requests[id]
      /\ Submitted' = Submitted /\ RequestList'
  BY <1>1, <1>2, AdmitRequests
<1>4. /\ slot \notin Active
      /\ \A s \in Active : active_slots'[s] = active_slots[s]
      /\ Active' = IF Finished(z) THEN Active ELSE Active \cup {slot}
      /\ ~Finished(z) => active_slots'[slot] = Admitted + 1
  BY <1>1, <1>2, AdmitSlots
<1>5. Head(pending_queue) = Admitted + 1 /\ ~Finished(all_requests[Admitted + 1])
  BY <1>1, HeadFacts DEF Finished
<1>6. pending_queue' = Tail(pending_queue) /\ destroyed' = destroyed
  BY <1>2 DEF AdmitsInto
<1>7. DOMAIN all_requests = 1..Submitted /\ DOMAIN all_requests' = 1..Submitted
  BY <1>3, QueueFacts DEF IInv, RequestList
<1>8. Running' = IF Finished(z) THEN Running ELSE Running \cup {Admitted + 1}
  BY <1>4 DEF Running
<1>9. Ended' = IF Finished(z) THEN Ended \cup {Admitted + 1} ELSE Ended
  BY <1>3, <1>5, <1>7 DEF Ended, Ids
<1>10. Service!Cardinality(Running) < MaxBatch
  BY <1>1, CapacityUsed, SameCardinality
<1> QED BY <1>1, <1>5, <1>6, <1>8, <1>9, <1>10 DEF Service!StartFirst, Ended

\* The sets of running and of ended requests when slots are emptied.
LEMMA EmptiesSets ==
  ASSUME IInv, NEW done, Empties(done)
  PROVE  LET S == {active_slots[s] : s \in done}
         IN  /\ S \subseteq Running /\ Running' = Running \ S
             /\ ~destroyed' => Ended' = Ended \cup S
             /\ (\A id \in 1..Submitted : NoToken(all_requests[id], all_requests'[id]))
                  => Ended' = Ended
<1> DEFINE S == {active_slots[s] : s \in done}
<1>1. /\ Submitted' = Submitted /\ RequestList'
      /\ Active' = Active \ done
      /\ \A s \in Active \ done : active_slots'[s] = active_slots[s]
  BY EmptiesFrame
<1>2. done \subseteq Active /\ \A s, t \in Active : active_slots[s] = active_slots[t] => s = t
  BY DEF Empties, IInv, SlotsDistinct
<1>3. S \subseteq Running
  BY <1>2 DEF Running
<1>4. Running' = Running \ S
  BY <1>1, <1>2 DEF Running
<1>5. DOMAIN all_requests = 1..Submitted /\ DOMAIN all_requests' = 1..Submitted
  BY <1>1, QueueFacts DEF IInv, RequestList
<1>6. \A s \in Active : active_slots[s] \in 1..Submitted /\ ~Finished(all_requests[active_slots[s]])
  <2>1. ASSUME NEW s \in Active PROVE active_slots[s] \in 1..Submitted
    <3>1. active_slots[s] \in 1..Admitted
      BY DEF IInv, RunningUnfinished
    <3>2. Submitted \in Nat /\ Admitted \in 0..Submitted
      BY QueueFacts DEF IInv
    <3> QED BY <3>1, <3>2
  <2> QED BY <2>1 DEF IInv, RunningUnfinished, Finished
<1>7. ASSUME ~destroyed', NEW id \in 1..Submitted
      PROVE  Finished(all_requests'[id]) <=> Finished(all_requests[id]) \/ id \in S
  <2>1. CASE id \in S
    BY <1>7, <2>1 DEF Empties
  <2>2. CASE id \notin S /\ NoToken(all_requests[id], all_requests'[id])
    BY <2>2 DEF NoToken, Finished
  <2>3. CASE id \notin S /\ ~NoToken(all_requests[id], all_requests'[id])
    <3>1. /\ \E s \in Active : active_slots[s] = id
          /\ Finished(all_requests'[id]) => \E s \in done : active_slots[s] = id
      BY <2>3 DEF Empties
    <3> QED BY <1>6, <2>3, <3>1
  <2> QED BY <2>1, <2>2, <2>3
<1>8. S \subseteq 1..Submitted
  BY <1>2, <1>6
<1> HIDE DEF S
<1>9. ~destroyed' => Ended' = Ended \cup S
  BY <1>5, <1>7, <1>8 DEF Ended, Ids
<1>10. (\A id \in 1..Submitted : NoToken(all_requests[id], all_requests'[id])) => Ended' = Ended
  BY <1>5 DEF Ended, Ids, NoToken, Finished
<1> QED BY <1>3, <1>4, <1>9, <1>10 DEF S

\* A decode step ends some of the running requests, and only when no request
\* could start.
LEMMA DecodeRefines ==
  ASSUME IInv, Decode
  PROVE  Service!End
<1>1. PICK done : Empties(done)
  BY DecodeEffect
<1>2. PICK S : S = {active_slots[s] : s \in done}
  OBVIOUS
<1>3. ~CanAdmit /\ ~destroyed /\ destroyed' = destroyed /\ pending_queue' = pending_queue
  BY DEF Decode
<1>4. S \subseteq Running /\ Running' = Running \ S /\ Ended' = Ended \cup S
  BY <1>1, <1>2, <1>3, EmptiesSets
<1>5. pending_queue = <<>> \/ Service!Cardinality(Running) = MaxBatch
  BY <1>3, CapacityUsed, SameCardinality DEF CanAdmit
<1> QED BY <1>3, <1>4, <1>5 DEF Service!End, Ended

\* The destructor shuts the service down.
LEMMA DestroyRefines ==
  ASSUME IInv, Destroy
  PROVE  Service!ShutDown
<1>1. Empties(Active) /\ destroyed' = TRUE
  BY DestroyEffect
<1>2. \A id \in 1..Submitted : NoToken(all_requests[id], all_requests'[id])
  BY DestroyEffect
<1>3. Ended' = Ended
  BY <1>1, <1>2, EmptiesSets
<1>4. Running' = {}
  BY <1>1, EmptiesFrame DEF Running
<1>5. pending_queue' = pending_queue
  BY DEF Destroy
<1> QED BY <1>1, <1>3, <1>4, <1>5 DEF Service!ShutDown, Ended

\* The service sees nothing of pages, nodes and flags.
LEMMA OtherRefines ==
  ASSUME UNCHANGED <<all_requests, pending_queue, active_slots, destroyed>>
  PROVE  UNCHANGED Service!serviceVars
BY DEF Service!serviceVars, Running, Active, Ids

\* Every step is a step or a stutter of the service.
LEMMA ServiceNext == IInv /\ [Next]_vars => [Service!Next]_(Service!serviceVars)
<1> SUFFICES ASSUME IInv, [Next]_vars PROVE Service!Next \/ UNCHANGED Service!serviceVars
  OBVIOUS
<1>1. CASE Admit
  BY <1>1, AdmitRefines DEF Service!Next
<1>2. CASE ReturnFromStep
  BY <1>2, OtherRefines DEF ReturnFromStep
<1>3. CASE Decode
  BY <1>3, DecodeRefines DEF Service!Next
<1>4. CASE \E prompt \in Prompts, max_new \in MaxNewTokens : AddRequest(prompt, max_new)
  BY <1>4, AddRequestRefines DEF Service!Next
<1>5. CASE \E enable \in CachingSettings : EnablePrefixCaching(enable)
  BY <1>5, OtherRefines DEF EnablePrefixCaching
<1>6. CASE ResetKVCache
  BY <1>6, OtherRefines DEF ResetKVCache
<1>7. CASE Destroy
  BY <1>7, DestroyRefines DEF Service!Next
<1>8. CASE UNCHANGED vars
  BY <1>8, OtherRefines DEF vars
<1> QED BY <1>1, <1>2, <1>3, <1>4, <1>5, <1>6, <1>7, <1>8 DEF Next, Step

(***************************************************************************)
(* Continuous batching is first-come, first-served: requests start in the  *)
(* order of their submission, each once, never more than there are slots,  *)
(* and running requests progress only when no waiting one could start.     *)
(***************************************************************************)
THEOREM ServiceRefinement == Spec => ImplementsFifoService
<1>1. Init => Service!Init
  BY ServiceInit
<1>2. IInv /\ [Next]_vars => [Service!Next]_(Service!serviceVars)
  BY ServiceNext
<1> QED BY <1>1, <1>2, InductiveInvariant, PTL DEF Spec, ImplementsFifoService, Service!Spec

--------------------------------------------------------------------------------
(* The pages and the nodes of the requests *)

SlotType == [active : BOOLEAN, pages : Seq(Handles \cup {NoHandle})]

KVState == [vmm : PoolState, paged_slots : [Slots -> SlotType]]

PagesOf(c, s) == c.paged_slots[s].pages

\* Nothing but slot s differs.
OthersAlike(c, d, s) == \A t \in Slots : t # s => d.paged_slots[t] = c.paged_slots[t]

MappedAddrs(v) == {a \in Addrs : v.mapped_pages[a] # NoHandle}

\* total_mapped is right.
Counts(v) == v.total_mapped = Cardinality(MappedAddrs(v))

(***************************************************************************)
(* The mapped addresses of a slot's window are among those that its        *)
(* bookkeeping lists, each is counted once, and a slot that is not         *)
(* allocated lists none.                                                   *)
(***************************************************************************)
Accounted ==
  {c \in KVState :
     /\ \A s \in Slots : \A i \in 0..(SlotPages - 1) :
          c.vmm.mapped_pages[<<s, i>>] # NoHandle => i < Len(PagesOf(c, s))
     /\ Counts(c.vmm)
     /\ \A s \in Slots : /\ Len(PagesOf(c, s)) <= SlotPages
                         /\ ~c.paged_slots[s].active => PagesOf(c, s) = <<>>}

\* Addresses are pairs of a slot and a page of its window.
LEMMA AddrFacts ==
  /\ \A a \in Addrs : /\ a[1] \in Slots /\ a[2] \in 0..(SlotPages - 1)
                      /\ a = <<a[1], a[2]>>
  /\ \A s \in Slots : \A i \in 0..(SlotPages - 1) : <<s, i>> \in Addrs
  /\ IsFiniteSet(Addrs) /\ Cardinality(Addrs) = MaxBatch * SlotPages
  /\ MaxBatch \in Nat /\ SlotPages \in Nat
<1>1. Addrs = Slots \X (0..(SlotPages - 1)) /\ MaxBatch \in Nat /\ SlotPages \in Nat /\ SlotPages > 0
  BY PagedAssumption
<1>2. /\ IsFiniteSet(0..(SlotPages - 1))
      /\ Cardinality(0..(SlotPages - 1)) = IF 0 > SlotPages - 1 THEN 0 ELSE (SlotPages - 1) - 0 + 1
  BY <1>1, FS_Interval
<1>3. Cardinality(0..(SlotPages - 1)) = SlotPages
  BY <1>1, <1>2
<1>4. IsFiniteSet(Addrs) /\ Cardinality(Addrs) = MaxBatch * SlotPages
  BY <1>1, <1>2, <1>3, SlotsFinite, FS_Product
<1> QED BY <1>1, <1>4

\* Allocating a slot only marks it.
LEMMA AllocSlotEffect ==
  ASSUME NEW c \in KVState, NEW s \in Slots, NEW d, d = AllocSlot(c, s)
  PROVE  /\ d \in KVState /\ d.vmm = c.vmm
         /\ d.paged_slots[s].active = TRUE /\ PagesOf(d, s) = PagesOf(c, s)
         /\ OthersAlike(c, d, s)
<1> DEFINE slot == [c.paged_slots[s] EXCEPT !.active = TRUE]
           slots == [c.paged_slots EXCEPT ![s] = slot]
<1>1. c.vmm \in PoolState /\ c.paged_slots \in [Slots -> SlotType]
      /\ c = [vmm |-> c.vmm, paged_slots |-> c.paged_slots]
  BY DEF KVState
<1>2. c.paged_slots[s] \in SlotType
  BY <1>1
<1>3. slot \in SlotType /\ slot.active = TRUE /\ slot.pages = c.paged_slots[s].pages
  BY <1>2 DEF SlotType
<1>4. d = [c EXCEPT !.paged_slots = slots]
  BY DEF AllocSlot
<1> HIDE DEF slot
<1>5. /\ slots \in [Slots -> SlotType] /\ slots[s] = slot
      /\ \A t \in Slots : t # s => slots[t] = c.paged_slots[t]
  BY <1>1, <1>3
<1> HIDE DEF slots
<1>6. d = [vmm |-> c.vmm, paged_slots |-> slots]
  BY <1>1, <1>4
<1>7. d \in KVState /\ d.vmm = c.vmm /\ d.paged_slots = slots
  BY <1>1, <1>5, <1>6 DEF KVState
<1> QED BY <1>3, <1>5, <1>7 DEF PagesOf, OthersAlike

\* The page cuMemCreate makes, if any.
LEMMA NewPageFacts ==
  ASSUME NEW v
  PROVE  /\ NewPage(v) \in Handles \cup {NoHandle}
         /\ NewPage(v) # NoHandle => NewPage(v) \in Creatable(v)
         /\ Creatable(v) # {} => NewPage(v) \in Creatable(v)
<1>1. Creatable(v) \subseteq Handles
  BY DEF Creatable
<1> QED BY <1>1 DEF NewPage

\* Adding a page to a slot.
LEMMA AddPageEffect ==
  ASSUME NEW c \in KVState, NEW s \in Slots, NEW d, d = AddPage(c, s),
         Len(PagesOf(c, s)) < SlotPages,
         NEW h, h = AllocatedHandle(c.vmm, NewPage(c.vmm)),
         NEW v, v = AllocPhysicalPage(c.vmm, NewPage(c.vmm))
  PROVE  /\ d.vmm = MapPage(v, <<s, Len(PagesOf(c, s))>>, h)
         /\ d \in KVState
         /\ h \in Handles \cup {NoHandle}
         /\ d.paged_slots[s].active = c.paged_slots[s].active
         /\ PagesOf(d, s) = Append(PagesOf(c, s), h)
         /\ Len(PagesOf(d, s)) = Len(PagesOf(c, s)) + 1
         /\ OthersAlike(c, d, s)
<1> DEFINE slot == [c.paged_slots[s] EXCEPT !.pages = Append(@, h)]
           slots == [c.paged_slots EXCEPT ![s] = slot]
           a == <<s, Len(PagesOf(c, s))>>
<1>1. c.vmm \in PoolState /\ c.paged_slots \in [Slots -> SlotType]
  BY DEF KVState
<1>2. c.paged_slots[s] \in SlotType /\ PagesOf(c, s) \in Seq(Handles \cup {NoHandle})
  BY <1>1 DEF SlotType, PagesOf
<1>3. SameMappings(c.vmm, v) /\ h \in Handles \cup {NoHandle}
  BY <1>1, NewPageFacts, AllocTyped
<1>4. /\ slot \in SlotType /\ slot.active = c.paged_slots[s].active
      /\ slot.pages = Append(PagesOf(c, s), h)
      /\ Len(slot.pages) = Len(PagesOf(c, s)) + 1
  <2> DEFINE pages == Append(PagesOf(c, s), h)
  <2>1. pages \in Seq(Handles \cup {NoHandle}) /\ Len(pages) = Len(PagesOf(c, s)) + 1
    BY <1>2, <1>3
  <2>2. slot = [c.paged_slots[s] EXCEPT !.pages = pages]
    BY DEF PagesOf
  <2> HIDE DEF slot, pages
  <2>3. slot \in SlotType /\ slot.active = c.paged_slots[s].active /\ slot.pages = pages
    BY <1>2, <2>1, <2>2 DEF SlotType
  <2> QED BY <2>1, <2>3 DEF pages
<1>5. d.vmm = MapPage(v, a, h) /\ d.paged_slots = slots
      /\ d = [vmm |-> MapPage(v, a, h), paged_slots |-> slots]
  BY DEF AddPage, PagesOf
<1> HIDE DEF slot
<1>6. /\ slots \in [Slots -> SlotType] /\ slots[s] = slot
      /\ \A t \in Slots : t # s => slots[t] = c.paged_slots[t]
  BY <1>1, <1>4
<1> HIDE DEF slots
<1>7. MapPage(v, a, h) \in PoolState
  <2>1. Len(PagesOf(c, s)) \in 0..(SlotPages - 1)
    BY <1>2, AddrFacts
  <2>2. a \in Addrs
    BY <2>1, AddrFacts
  <2>3. v \in PoolState
    BY <1>3 DEF SameMappings
  <2>4. CASE CanMap(v, a, h)
    <3>1. h \in Handles
      BY <2>3, <2>4 DEF CanMap, PoolState
    <3> HIDE DEF a
    <3> QED BY <2>2, <2>3, <2>4, <3>1, MapEffect
  <2>5. CASE ~CanMap(v, a, h)
    BY <2>3, <2>5 DEF MapPage
  <2> QED BY <2>4, <2>5
<1>8. d \in KVState
  BY <1>5, <1>6, <1>7 DEF KVState
<1> QED BY <1>3, <1>4, <1>5, <1>6, <1>8 DEF PagesOf, OthersAlike

----------------------------------------------------------------------------
(***************************************************************************)
(* The loops.                                                              *)
(***************************************************************************)
\* Adding pages to slot s until its window is full.
LEMMA AddPageLoop ==
  ASSUME NEW c, NEW s, NEW len \in Nat, len = SlotPages - Len(PagesOf(c, s)), len > 0,
         NEW X, c \in X[0], \A n \in 1..len : \A x \in X[n - 1] : AddPage(x, s) \in X[n],
         NEW d, d = EnsureTokens(c, s)
  PROVE  d \in X[len]
<1> DEFINE step == [n \in 1..len |-> [x \in X[n - 1] |-> AddPage(x, s)]]
           Loops(g) == g = [n \in 0..len |-> IF n = 0 THEN c ELSE AddPage(g[n - 1], s)]
<1>1. PICK g : IsLoop(g, len, c, step) /\ \A n \in 0..len : g[n] \in X[n]
  <2>1. \A n \in 1..len : \A x \in X[n - 1] : step[n][x] \in X[n]
    OBVIOUS
  <2> HIDE DEF step
  <2> QED BY <2>1, LoopRuns
<1>2. Loops(g)
  BY <1>1, LoopNumbers DEF IsLoop
<1> DEFINE after == CHOOSE f : Loops(f)
<1>3. Loops(after)
  BY <1>2
<1>4. d = after[len]
  BY DEF EnsureTokens, Loop, PagesOf
<1> HIDE DEF after
<1>5. after[0] \in X[0] /\ \A n \in 1..len : after[n - 1] \in X[n - 1] => after[n] \in X[n]
  BY <1>3, LoopNumbers
<1>6. \A n \in 0..len : after[n] \in X[n]
  BY <1>5, LoopReaches
<1> QED BY <1>4, <1>6, LoopNumbers

\* Taking over a list of pages.
LEMMA MapExistingLoop ==
  ASSUME NEW c, NEW s, NEW handles, NEW len \in Nat, len = Len(handles), NEW X, c \in X[0],
         \A n \in 1..len : \A x \in X[n - 1] : MapExistingPage(x, s, n, handles[n]) \in X[n],
         NEW d, d = MapExistingPages(c, s, handles)
  PROVE  d \in X[len]
<1> DEFINE step == [n \in 1..len |-> [x \in X[n - 1] |-> MapExistingPage(x, s, n, handles[n])]]
           Loops(g) == g = [n \in 0..len |-> IF n = 0 THEN c
                                             ELSE MapExistingPage(g[n - 1], s, n, handles[n])]
<1>1. PICK g : IsLoop(g, len, c, step) /\ \A n \in 0..len : g[n] \in X[n]
  <2>1. \A n \in 1..len : \A x \in X[n - 1] : step[n][x] \in X[n]
    OBVIOUS
  <2> HIDE DEF step
  <2> QED BY <2>1, LoopRuns
<1>2. Loops(g)
  BY <1>1, LoopNumbers DEF IsLoop
<1> DEFINE after == CHOOSE f : Loops(f)
<1>3. Loops(after)
  BY <1>2
<1>4. d = after[len]
  BY DEF MapExistingPages, Loop
<1> HIDE DEF after
<1>5. after[0] \in X[0] /\ \A n \in 1..len : after[n - 1] \in X[n - 1] => after[n] \in X[n]
  BY <1>3, LoopNumbers
<1>6. \A n \in 0..len : after[n] \in X[n]
  BY <1>5, LoopReaches
<1> QED BY <1>4, <1>6, LoopNumbers

\* Freeing the pages that a slot lists.
LEMMA FreePageLoop ==
  ASSUME NEW c, NEW s, NEW pages, pages = PagesOf(c, s), NEW len \in Nat, len = Len(pages),
         NEW X, c.vmm \in X[0],
         \A n \in 1..len : \A x \in X[n - 1] : FreePage(x, s, n, pages[n]) \in X[n],
         NEW d, d = FreeSlot(c, s)
  PROVE  /\ d = [vmm |-> d.vmm, paged_slots |-> [c.paged_slots EXCEPT ![s] = FreeSlotRecord]]
         /\ d.vmm \in X[len]
<1> DEFINE step == [n \in 1..len |-> [x \in X[n - 1] |-> FreePage(x, s, n, pages[n])]]
           Loops(g) == g = [n \in 0..len |-> IF n = 0 THEN c.vmm
                                             ELSE FreePage(g[n - 1], s, n, pages[n])]
<1>1. PICK g : IsLoop(g, len, c.vmm, step) /\ \A n \in 0..len : g[n] \in X[n]
  <2>1. \A n \in 1..len : \A x \in X[n - 1] : step[n][x] \in X[n]
    OBVIOUS
  <2> HIDE DEF step
  <2> QED BY <2>1, LoopRuns
<1>2. Loops(g)
  BY <1>1, LoopNumbers DEF IsLoop
<1> DEFINE after == CHOOSE f : Loops(f)
<1>3. Loops(after)
  BY <1>2
<1>4. d = [vmm |-> after[len], paged_slots |-> [c.paged_slots EXCEPT ![s] = FreeSlotRecord]]
  BY DEF FreeSlot, FreePages, Loop, PagesOf
<1> HIDE DEF after
<1>5. after[0] \in X[0] /\ \A n \in 1..len : after[n - 1] \in X[n - 1] => after[n] \in X[n]
  BY <1>3, LoopNumbers
<1>6. \A n \in 0..len : after[n] \in X[n]
  BY <1>5, LoopReaches
<1> QED BY <1>4, <1>6, LoopNumbers

\* Freeing slots one after the other.
LEMMA FreeSlotLoop ==
  ASSUME NEW c, NEW S, NEW X, c \in X[0],
         \A n \in 1..MaxBatch : \A x \in X[n - 1] :
            (IF n - 1 \in S THEN FreeSlot(x, n - 1) ELSE x) \in X[n],
         NEW d, d = FreeSlots(c, S)
  PROVE  d \in X[MaxBatch]
<1> DEFINE step == [n \in 1..MaxBatch |-> [x \in X[n - 1] |->
                      IF n - 1 \in S THEN FreeSlot(x, n - 1) ELSE x]]
           Loops(g) == g = [n \in 0..MaxBatch |-> IF n = 0 THEN c
                              ELSE IF n - 1 \in S THEN FreeSlot(g[n - 1], n - 1) ELSE g[n - 1]]
<1>0. MaxBatch \in Nat
  BY PagedAssumption
<1>1. PICK g : IsLoop(g, MaxBatch, c, step) /\ \A n \in 0..MaxBatch : g[n] \in X[n]
  <2>1. \A n \in 1..MaxBatch : \A x \in X[n - 1] : step[n][x] \in X[n]
    OBVIOUS
  <2> HIDE DEF step
  <2> QED BY <1>0, <2>1, LoopRuns
<1>2. Loops(g)
  BY <1>0, <1>1, LoopNumbers DEF IsLoop
<1> DEFINE after == CHOOSE f : Loops(f)
<1>3. Loops(after)
  BY <1>2
<1>4. d = after[MaxBatch]
  BY DEF FreeSlots, Loop
<1> HIDE DEF after
<1>5. after[0] \in X[0]
      /\ \A n \in 1..MaxBatch : after[n - 1] \in X[n - 1] => after[n] \in X[n]
  BY <1>0, <1>3, LoopNumbers
<1>6. \A n \in 0..MaxBatch : after[n] \in X[n]
  BY <1>0, <1>5, LoopReaches
<1> QED BY <1>0, <1>4, <1>6, LoopNumbers

\* Backing the slots of a batch.
LEMMA BackSlotLoop ==
  ASSUME NEW len \in Nat, NEW X, kv \in X[0],
         \A n \in 1..len : \A x \in X[n - 1] : BackSlot(x, n - 1) \in X[n],
         NEW d, d = BackBatch(len)
  PROVE  d \in X[len]
<1> DEFINE step == [n \in 1..len |-> [x \in X[n - 1] |-> BackSlot(x, n - 1)]]
           Loops(g) == g = [n \in 0..len |-> IF n = 0 THEN kv ELSE BackSlot(g[n - 1], n - 1)]
<1>1. PICK g : IsLoop(g, len, kv, step) /\ \A n \in 0..len : g[n] \in X[n]
  <2>1. \A n \in 1..len : \A x \in X[n - 1] : step[n][x] \in X[n]
    OBVIOUS
  <2> HIDE DEF step
  <2> QED BY <2>1, LoopRuns
<1>2. Loops(g)
  BY <1>1, LoopNumbers DEF IsLoop
<1> DEFINE after == CHOOSE f : Loops(f)
<1>3. Loops(after)
  BY <1>2
<1>4. d = after[len]
  BY DEF BackBatch, Loop
<1> HIDE DEF after
<1>5. after[0] \in X[0] /\ \A n \in 1..len : after[n - 1] \in X[n - 1] => after[n] \in X[n]
  BY <1>3, LoopNumbers
<1>6. \A n \in 0..len : after[n] \in X[n]
  BY <1>5, LoopReaches
<1> QED BY <1>4, <1>6, LoopNumbers

----------------------------------------------------------------------------
(***************************************************************************)
(* A set of states of the cache that allocating a slot, freeing it and     *)
(* adding a page to it do not leave.  What the operations of the executor  *)
(* and of the scheduler do to the slots is the same for all such sets.     *)
(***************************************************************************)
Kept(K) ==
  /\ K \subseteq Accounted
  /\ \A c \in K : \A s \in Slots :
        /\ AllocSlot(c, s) \in K
        /\ FreeSlot(c, s) \in K
        /\ c.paged_slots[s].active /\ Len(PagesOf(c, s)) < SlotPages => AddPage(c, s) \in K

\* The window of slot s is full.
Backed(c, s) == c.paged_slots[s].active /\ Len(PagesOf(c, s)) = SlotPages

\* The types of slots.
LEMMA SlotFacts ==
  ASSUME NEW K, Kept(K), NEW c \in K, NEW s \in Slots
  PROVE  /\ c \in KVState /\ c \in Accounted
         /\ c.paged_slots[s].active \in BOOLEAN
         /\ PagesOf(c, s) \in Seq(Handles \cup {NoHandle})
         /\ Len(PagesOf(c, s)) \in 0..SlotPages
<1>1. c \in Accounted /\ c \in KVState
  BY DEF Kept, Accounted
<1>2. c.paged_slots[s] \in SlotType
  BY <1>1 DEF KVState
<1>3. c.paged_slots[s].active \in BOOLEAN /\ PagesOf(c, s) \in Seq(Handles \cup {NoHandle})
  BY <1>2 DEF SlotType, PagesOf
<1>4. Len(PagesOf(c, s)) \in Nat /\ Len(PagesOf(c, s)) <= SlotPages
  BY <1>1, <1>3 DEF Accounted
<1> QED BY <1>1, <1>3, <1>4, AddrFacts

\* Pages for the whole window of a slot.
LEMMA EnsureEffect ==
  ASSUME NEW K, Kept(K), NEW c \in K, NEW s \in Slots, c.paged_slots[s].active,
         NEW d, d = EnsureTokens(c, s)
  PROVE  d \in K /\ Backed(d, s) /\ OthersAlike(c, d, s)
<1> DEFINE k == Len(PagesOf(c, s))
           len == SlotPages - k
           X == [n \in 0..len |-> {x \in K : /\ x.paged_slots[s].active
                                            /\ Len(PagesOf(x, s)) = k + n
                                            /\ OthersAlike(c, x, s)}]
<1>1. k \in Nat /\ k <= SlotPages /\ SlotPages \in Nat
  BY SlotFacts, AddrFacts
<1>2. CASE k = SlotPages
  <2>1. SlotPages - k <= 0
    BY <1>1, <1>2
  <2>2. d = c
    BY <2>1 DEF EnsureTokens, PagesOf
  <2> QED BY <1>2, <2>2 DEF Backed, OthersAlike
<1>3. CASE k # SlotPages
  <2>1. len \in Nat /\ len > 0 /\ k + len = SlotPages
    BY <1>1, <1>3
  <2>2. c \in X[0]
    <3>1. 0 \in 0..len /\ k + 0 = k
      BY <1>1, <2>1
    <3> QED BY <3>1 DEF OthersAlike
  <2>3. ASSUME NEW n \in 1..len, NEW x \in X[n - 1] PROVE AddPage(x, s) \in X[n]
    <3>1. n \in 0..len /\ n - 1 \in 0..len /\ k + (n - 1) < SlotPages /\ (k + (n - 1)) + 1 = k + n
      BY <1>1, <2>1
    <3>2. /\ x \in K /\ x.paged_slots[s].active
          /\ Len(PagesOf(x, s)) = k + (n - 1) /\ OthersAlike(c, x, s)
      BY <3>1
    <3>3. AddPage(x, s) \in K /\ x \in KVState
      BY <3>1, <3>2, SlotFacts DEF Kept
    <3> DEFINE y == AddPage(x, s)
    <3>4. /\ y.paged_slots[s].active = x.paged_slots[s].active
          /\ Len(PagesOf(y, s)) = Len(PagesOf(x, s)) + 1
          /\ OthersAlike(x, y, s)
      <4> HIDE DEF y
      <4>1. y = AddPage(x, s) /\ Len(PagesOf(x, s)) < SlotPages
        BY <3>1, <3>2 DEF y
      <4> QED BY <3>3, <4>1, AddPageEffect
    <3>5. OthersAlike(c, y, s)
      BY <3>2, <3>4 DEF OthersAlike
    <3> QED BY <3>1, <3>2, <3>3, <3>4, <3>5
  <2>4. d \in X[len]
    <3> HIDE DEF X
    <3> QED BY <2>1, <2>2, <2>3, AddPageLoop
  <2>5. len \in 0..len
    BY <2>1
  <2> QED BY <2>1, <2>4, <2>5 DEF Backed
<1> QED BY <1>2, <1>3

\* A slot of the batch is allocated and backed.
LEMMA BackSlotEffect ==
  ASSUME NEW K, Kept(K), NEW c \in K, NEW s \in Slots, NEW d, d = BackSlot(c, s)
  PROVE  d \in K /\ Backed(d, s) /\ OthersAlike(c, d, s)
<1>1. CASE IsAllocated(c, s)
  BY <1>1, EnsureEffect DEF BackSlot, IsAllocated
<1>2. CASE ~IsAllocated(c, s)
  <2>1. PICK x : x = AllocSlot(c, s)
    OBVIOUS
  <2>2. x \in K /\ x.paged_slots[s].active /\ OthersAlike(c, x, s)
    <3>1. x \in K
      BY <2>1 DEF Kept
    <3>2. c \in KVState
      BY SlotFacts
    <3>3. x.paged_slots[s].active = TRUE /\ OthersAlike(c, x, s)
      BY <2>1, <3>2, AllocSlotEffect
    <3> QED BY <3>1, <3>3
  <2>3. d = EnsureTokens(x, s)
    BY <1>2, <2>1 DEF BackSlot
  <2>4. d \in K /\ Backed(d, s) /\ OthersAlike(x, d, s)
    BY <2>2, <2>3, EnsureEffect
  <2> QED BY <2>2, <2>4 DEF OthersAlike
<1> QED BY <1>1, <1>2

\* The slots of the batch are backed, and the others stay as they are.
LEMMA BackBatchEffect ==
  ASSUME NEW K, Kept(K), kv \in K, NEW len \in 0..MaxBatch, NEW d, d = BackBatch(len)
  PROVE  /\ d \in K
         /\ \A s \in Slots : IF s < len THEN Backed(d, s)
                              ELSE d.paged_slots[s] = kv.paged_slots[s]
<1> DEFINE X == [n \in 0..len |-> {x \in K :
                   \A s \in Slots : IF s < n THEN Backed(x, s)
                                    ELSE x.paged_slots[s] = kv.paged_slots[s]}]
<1>1. len \in Nat /\ len <= MaxBatch /\ MaxBatch \in Nat /\ Slots = 0..(MaxBatch - 1)
  BY AddrFacts DEF Slots
<1>2. kv \in X[0]
  BY <1>1
<1>3. ASSUME NEW n \in 1..len, NEW x \in X[n - 1] PROVE BackSlot(x, n - 1) \in X[n]
  <2>1. n \in 0..len /\ n - 1 \in 0..len /\ n - 1 \in Slots
    BY <1>1
  <2>2. /\ x \in K
        /\ \A s \in Slots : IF s < n - 1 THEN Backed(x, s)
                             ELSE x.paged_slots[s] = kv.paged_slots[s]
    BY <2>1
  <2> DEFINE y == BackSlot(x, n - 1)
  <2>3. y \in K /\ Backed(y, n - 1) /\ OthersAlike(x, y, n - 1)
    BY <2>1, <2>2, BackSlotEffect
  <2> HIDE DEF y
  <2>4. ASSUME NEW s \in Slots
        PROVE  IF s < n THEN Backed(y, s) ELSE y.paged_slots[s] = kv.paged_slots[s]
    <3>1. CASE s = n - 1
      BY <1>1, <2>3, <3>1
    <3>2. CASE s # n - 1
      <4>1. y.paged_slots[s] = x.paged_slots[s] /\ (s < n <=> s < n - 1)
        BY <1>1, <2>3, <3>2 DEF OthersAlike
      <4> QED BY <2>2, <4>1 DEF Backed, PagesOf
    <3> QED BY <3>1, <3>2
  <2> QED BY <2>1, <2>3, <2>4 DEF y
<1>4. d \in X[len]
  <2> HIDE DEF X
  <2> QED BY <1>1, <1>2, <1>3, BackSlotLoop
<1> QED BY <1>1, <1>4

\* What freeing does to the slots.
LEMMA FreeSlotSlots ==
  ASSUME NEW c, NEW s
  PROVE  FreeSlot(c, s).paged_slots = [c.paged_slots EXCEPT ![s] = FreeSlotRecord]
BY DEF FreeSlot, FreePages

\* Freeing several slots.
LEMMA FreeSlotsEffect ==
  ASSUME NEW K, Kept(K), NEW c \in K, NEW S, NEW d, d = FreeSlots(c, S)
  PROVE  /\ d \in K
         /\ \A s \in Slots : d.paged_slots[s] = IF s \in S THEN FreeSlotRecord ELSE c.paged_slots[s]
<1> DEFINE Result(x, n) ==
             \A s \in Slots : x.paged_slots[s] = IF s < n /\ s \in S THEN FreeSlotRecord
                                                 ELSE c.paged_slots[s]
           X == [n \in 0..MaxBatch |-> {x \in K : Result(x, n)}]
<1>1. MaxBatch \in Nat /\ Slots = 0..(MaxBatch - 1)
  BY AddrFacts DEF Slots
<1>2. c \in X[0]
  BY <1>1
<1>3. ASSUME NEW n \in 1..MaxBatch, NEW x \in X[n - 1]
      PROVE  (IF n - 1 \in S THEN FreeSlot(x, n - 1) ELSE x) \in X[n]
  <2>1. n \in 0..MaxBatch /\ n - 1 \in 0..MaxBatch /\ n - 1 \in Slots
    BY <1>1
  <2>2. x \in K /\ Result(x, n - 1)
    BY <2>1
  <2>3. CASE n - 1 \in S
    <3> DEFINE y == FreeSlot(x, n - 1)
    <3>1. y \in K /\ DOMAIN x.paged_slots = Slots
      <4>1. x \in KVState
        BY <2>1, <2>2, SlotFacts
      <4> QED BY <2>1, <2>2, <4>1 DEF Kept, KVState
    <3>2. y.paged_slots = [x.paged_slots EXCEPT ![n - 1] = FreeSlotRecord]
      BY FreeSlotSlots
    <3> HIDE DEF y
    <3>3. ASSUME NEW s \in Slots
          PROVE  y.paged_slots[s] = IF s < n /\ s \in S THEN FreeSlotRecord ELSE c.paged_slots[s]
      <4>1. CASE s = n - 1
        BY <1>1, <2>3, <3>1, <3>2, <4>1
      <4>2. CASE s # n - 1
        <5>1. y.paged_slots[s] = x.paged_slots[s] /\ (s < n <=> s < n - 1)
          BY <1>1, <3>1, <3>2, <4>2
        <5> QED BY <2>2, <5>1
      <4> QED BY <4>1, <4>2
    <3> QED BY <2>1, <2>3, <3>1, <3>3 DEF y
  <2>4. CASE n - 1 \notin S
    <3>1. \A s \in Slots : s < n /\ s \in S <=> s < n - 1 /\ s \in S
      BY <1>1, <2>4
    <3> QED BY <2>1, <2>2, <2>4, <3>1
  <2> QED BY <2>3, <2>4
<1>4. d \in X[MaxBatch]
  <2> HIDE DEF X
  <2> QED BY <1>2, <1>3, FreeSlotLoop
<1> QED BY <1>1, <1>4

----------------------------------------------------------------------------
(***************************************************************************)
(* Accounted is such a set.                                                *)
(***************************************************************************)
\* Mapping a page counts it.
LEMMA MapCounts ==
  ASSUME NEW v \in PoolState, Counts(v), NEW a \in Addrs, NEW h \in Handles \cup {NoHandle},
         NEW w, w = MapPage(v, a, h)
  PROVE  /\ w \in PoolState /\ Counts(w)
         /\ \A b \in Addrs : b # a => w.mapped_pages[b] = v.mapped_pages[b]
<1>1. CASE CanMap(v, a, h)
  <2>1. h \in Handles /\ v.mapped_pages[a] = NoHandle
    BY <1>1 DEF CanMap, PoolState
  <2>2. /\ w \in PoolState
        /\ w.mapped_pages = [v.mapped_pages EXCEPT ![a] = h]
        /\ w.total_mapped = v.total_mapped + 1
    BY <1>1, <2>1, MapEffect
  <2>3. /\ w.mapped_pages[a] = h /\ h # NoHandle
        /\ \A b \in Addrs : b # a => w.mapped_pages[b] = v.mapped_pages[b]
    BY <2>1, <2>2, NoHandleAssumption DEF PoolState
  <2>4. MappedAddrs(w) = MappedAddrs(v) \cup {a} /\ a \notin MappedAddrs(v)
    BY <2>1, <2>3 DEF MappedAddrs
  <2>5. IsFiniteSet(MappedAddrs(v))
    BY AddrFacts, FS_Subset DEF MappedAddrs
  <2>6. Cardinality(MappedAddrs(w)) = Cardinality(MappedAddrs(v)) + 1
    BY <2>4, <2>5, FS_AddElement
  <2> QED BY <2>2, <2>3, <2>6 DEF Counts
<1>2. CASE ~CanMap(v, a, h)
  BY <1>2 DEF MapPage
<1> QED BY <1>1, <1>2

\* Unmapping a page uncounts it.
LEMMA UnmapCounts ==
  ASSUME NEW v \in PoolState, Counts(v), NEW a \in Addrs, NEW w, w = UnmapPage(v, a)
  PROVE  /\ w \in PoolState /\ Counts(w)
         /\ w.mapped_pages = [v.mapped_pages EXCEPT ![a] = NoHandle]
         /\ w.handle_refcounts = v.handle_refcounts
         /\ w.free_pages_pool = v.free_pages_pool
         /\ w.driver = v.driver
<1>1. CASE v.mapped_pages[a] = NoHandle
  <2>1. w = v
    BY <1>1 DEF UnmapPage
  <2>2. v.mapped_pages = [v.mapped_pages EXCEPT ![a] = NoHandle]
    BY <1>1 DEF PoolState
  <2> QED BY <2>1, <2>2
<1>2. CASE v.mapped_pages[a] # NoHandle
  <2>1. IsFiniteSet(MappedAddrs(v)) /\ a \in MappedAddrs(v)
    BY <1>2, AddrFacts, FS_Subset DEF MappedAddrs
  <2>2. Cardinality(MappedAddrs(v)) \in Nat /\ v.total_mapped = Cardinality(MappedAddrs(v))
        /\ Cardinality(MappedAddrs(v) \ {a}) = Cardinality(MappedAddrs(v)) - 1
        /\ Cardinality(MappedAddrs(v) \ {a}) \in Nat
    <3>1. IsFiniteSet(MappedAddrs(v) \ {a})
      BY <2>1, FS_RemoveElement
    <3> QED BY <2>1, <3>1, FS_RemoveElement, FS_CardinalityType DEF Counts
  <2>3. v.total_mapped > 0
    BY <2>2
  <2>4. /\ w \in PoolState
        /\ w.handle_refcounts = v.handle_refcounts
        /\ w.free_pages_pool = v.free_pages_pool
        /\ w.mapped_pages = [v.mapped_pages EXCEPT ![a] = NoHandle]
        /\ w.total_mapped = v.total_mapped - 1
        /\ w.driver = v.driver
    BY <1>2, <2>3, UnmapEffect
  <2>5. MappedAddrs(w) = MappedAddrs(v) \ {a}
    BY <2>4 DEF MappedAddrs, PoolState
  <2> QED BY <2>2, <2>4, <2>5 DEF Counts
<1> QED BY <1>1, <1>2

\* What does not change mappings does not change their number.
LEMMA SameCounts ==
  ASSUME NEW v, NEW w, SameMappings(v, w), Counts(v)
  PROVE  w \in PoolState /\ Counts(w) /\ w.mapped_pages = v.mapped_pages
BY DEF SameMappings, Counts, MappedAddrs

\* The types of an accounted state.
LEMMA AccountedFacts ==
  ASSUME NEW c \in Accounted, NEW s \in Slots
  PROVE  /\ c \in KVState /\ c.vmm \in PoolState /\ Counts(c.vmm)
         /\ c.paged_slots \in [Slots -> SlotType]
         /\ c.paged_slots[s].active \in BOOLEAN
         /\ PagesOf(c, s) \in Seq(Handles \cup {NoHandle})
         /\ Len(PagesOf(c, s)) \in 0..SlotPages
         /\ \A i \in 0..(SlotPages - 1) :
              c.vmm.mapped_pages[<<s, i>>] # NoHandle => i < Len(PagesOf(c, s))
         /\ ~c.paged_slots[s].active => PagesOf(c, s) = <<>>
<1>1. c \in KVState /\ Counts(c.vmm)
  BY DEF Accounted
<1>2. c.vmm \in PoolState /\ c.paged_slots \in [Slots -> SlotType]
  BY <1>1 DEF KVState
<1>3. c.paged_slots[s].active \in BOOLEAN /\ PagesOf(c, s) \in Seq(Handles \cup {NoHandle})
  BY <1>2 DEF SlotType, PagesOf
<1>4. Len(PagesOf(c, s)) \in 0..SlotPages
  <2>1. Len(PagesOf(c, s)) \in Nat /\ Len(PagesOf(c, s)) <= SlotPages
    BY <1>3 DEF Accounted
  <2> QED BY <2>1, AddrFacts
<1> QED BY <1>1, <1>2, <1>3, <1>4 DEF Accounted

\* A state is accounted if one slot is and the others are as before.
LEMMA AccountedSlot ==
  ASSUME NEW c \in Accounted, NEW s \in Slots, NEW d \in KVState, Counts(d.vmm),
         OthersAlike(c, d, s),
         \A t \in Slots : t # s => \A i \in 0..(SlotPages - 1) :
            d.vmm.mapped_pages[<<t, i>>] = c.vmm.mapped_pages[<<t, i>>],
         \A i \in 0..(SlotPages - 1) :
            d.vmm.mapped_pages[<<s, i>>] # NoHandle => i < Len(PagesOf(d, s)),
         Len(PagesOf(d, s)) <= SlotPages,
         ~d.paged_slots[s].active => PagesOf(d, s) = <<>>
  PROVE  d \in Accounted
<1>1. ASSUME NEW t \in Slots
      PROVE  /\ \A i \in 0..(SlotPages - 1) :
                  d.vmm.mapped_pages[<<t, i>>] # NoHandle => i < Len(PagesOf(d, t))
             /\ Len(PagesOf(d, t)) <= SlotPages
             /\ ~d.paged_slots[t].active => PagesOf(d, t) = <<>>
  <2>1. CASE t = s
    BY <2>1
  <2>2. CASE t # s
    <3>1. PagesOf(d, t) = PagesOf(c, t) /\ d.paged_slots[t].active = c.paged_slots[t].active
      BY <2>2 DEF OthersAlike, PagesOf
    <3>2. \A i \in 0..(SlotPages - 1) :
             d.vmm.mapped_pages[<<t, i>>] = c.vmm.mapped_pages[<<t, i>>]
      BY <2>2
    <3> QED BY <3>1, <3>2 DEF Accounted
  <2> QED BY <2>1, <2>2
<1> QED BY <1>1 DEF Accounted

\* What freeing does to the mappings.
Unmapped(v, w, s) ==
  \A b \in Addrs : w.mapped_pages[b] = IF b[1] = s THEN NoHandle ELSE v.mapped_pages[b]

\* Freeing a slot unmaps its window and nothing else.
LEMMA FreeSlotUnmaps ==
  ASSUME NEW c \in Accounted, NEW s \in Slots, NEW d, d = FreeSlot(c, s)
  PROVE  /\ d \in KVState /\ Counts(d.vmm) /\ Unmapped(c.vmm, d.vmm, s)
         /\ d.paged_slots[s] = FreeSlotRecord /\ OthersAlike(c, d, s)
<1> DEFINE pages == PagesOf(c, s)
           len == Len(pages)
           Result(v, n) ==
             \A b \in Addrs : v.mapped_pages[b] = IF b[1] = s /\ b[2] < n THEN NoHandle
                                                  ELSE c.vmm.mapped_pages[b]
           X == [n \in 0..len |-> {v \in PoolState : Counts(v) /\ Result(v, n)}]
<1>1. /\ c.vmm \in PoolState /\ Counts(c.vmm) /\ c.paged_slots \in [Slots -> SlotType]
      /\ pages \in Seq(Handles \cup {NoHandle}) /\ len \in 0..SlotPages
      /\ \A i \in 0..(SlotPages - 1) : c.vmm.mapped_pages[<<s, i>>] # NoHandle => i < len
  BY AccountedFacts
<1>2. len \in Nat /\ \A n \in 1..len : pages[n] \in Handles \cup {NoHandle}
  BY <1>1, AddrFacts
<1>3. c.vmm \in X[0]
  <2>1. \A b \in Addrs : ~(b[2] < 0)
    BY AddrFacts
  <2> QED BY <1>1, <1>2, <2>1
<1>4. ASSUME NEW n \in 1..len, NEW x \in X[n - 1] PROVE FreePage(x, s, n, pages[n]) \in X[n]
  <2> DEFINE a == <<s, n - 1>>
             u == UnmapPage(x, a)
             w == ReleasePhysicalPage(u, pages[n])
  <2>1. n \in 0..len /\ n - 1 \in 0..len /\ n - 1 \in 0..(SlotPages - 1)
    BY <1>1, <1>2, AddrFacts
  <2>2. a \in Addrs /\ a[1] = s /\ a[2] = n - 1
    BY <2>1, AddrFacts
  <2>3. x \in PoolState /\ Counts(x) /\ Result(x, n - 1)
    BY <2>1
  <2> HIDE DEF Result
  <2>4. /\ u \in PoolState /\ Counts(u)
        /\ u.mapped_pages = [x.mapped_pages EXCEPT ![a] = NoHandle]
    <3> HIDE DEF a
    <3> QED BY <2>2, <2>3, UnmapCounts
  <2>5. w \in PoolState /\ Counts(w) /\ w.mapped_pages = u.mapped_pages
    <3>1. pages[n] \in Handles \cup {NoHandle}
      BY <1>2
    <3> HIDE DEF u
    <3> QED BY <3>1, <2>4, ReleaseTyped, SameCounts
  <2>6. Result(w, n)
    <3> SUFFICES ASSUME NEW b \in Addrs
                 PROVE  w.mapped_pages[b] = IF b[1] = s /\ b[2] < n THEN NoHandle
                                            ELSE c.vmm.mapped_pages[b]
      BY DEF Result
    <3>1. b[2] \in 0..(SlotPages - 1) /\ b = <<b[1], b[2]>>
      BY AddrFacts
    <3>2. w.mapped_pages[b] = IF b = a THEN NoHandle ELSE x.mapped_pages[b]
      BY <2>3, <2>4, <2>5 DEF PoolState
    <3>3. b = a <=> b[1] = s /\ b[2] = n - 1
      BY <2>2, <3>1
    <3>4. x.mapped_pages[b] = IF b[1] = s /\ b[2] < n - 1 THEN NoHandle
                              ELSE c.vmm.mapped_pages[b]
      BY <2>3 DEF Result
    <3>5. b[2] < n <=> b[2] < n - 1 \/ b[2] = n - 1
      BY <2>1, <3>1
    <3> QED BY <3>2, <3>3, <3>4, <3>5
  <2>7. w \in X[n]
    BY <2>1, <2>5, <2>6
  <2> QED BY <2>7 DEF FreePage
<1>5. /\ d = [vmm |-> d.vmm, paged_slots |-> [c.paged_slots EXCEPT ![s] = FreeSlotRecord]]
      /\ d.vmm \in X[len]
  <2> HIDE DEF X
  <2> QED BY <1>2, <1>3, <1>4, FreePageLoop
<1>6. d.vmm \in PoolState /\ Counts(d.vmm) /\ Result(d.vmm, len)
  BY <1>2, <1>5
<1>7. Unmapped(c.vmm, d.vmm, s)
  <2> SUFFICES ASSUME NEW b \in Addrs
               PROVE  d.vmm.mapped_pages[b] = IF b[1] = s THEN NoHandle
                                              ELSE c.vmm.mapped_pages[b]
    BY DEF Unmapped
  <2>1. b[2] \in 0..(SlotPages - 1) /\ b = <<b[1], b[2]>>
    BY AddrFacts
  <2>2. b[1] = s /\ ~(b[2] < len) => c.vmm.mapped_pages[b] = NoHandle
    BY <1>1, <2>1
  <2> QED BY <1>6, <2>2
<1>8. FreeSlotRecord \in SlotType
  BY DEF FreeSlotRecord, SlotType
<1>9. /\ d.paged_slots \in [Slots -> SlotType] /\ d.paged_slots[s] = FreeSlotRecord
      /\ OthersAlike(c, d, s)
  BY <1>1, <1>5, <1>8 DEF OthersAlike
<1> QED BY <1>5, <1>6, <1>7, <1>9 DEF KVState

\* Taking over one page.
TakesPage(c, d, s, n) ==
  /\ d \in KVState /\ Counts(d.vmm)
  /\ \A b \in Addrs : b # <<s, n - 1>> => d.vmm.mapped_pages[b] = c.vmm.mapped_pages[b]
  /\ d.paged_slots[s].active = c.paged_slots[s].active
  /\ Len(PagesOf(d, s)) = IF n <= Len(PagesOf(c, s)) THEN Len(PagesOf(c, s)) ELSE n
  /\ OthersAlike(c, d, s)

\* A page is taken over, over whatever was mapped there.
LEMMA MapExistingEffect ==
  ASSUME NEW c \in KVState, Counts(c.vmm), NEW s \in Slots, NEW n \in 1..SlotPages,
         n - 1 <= Len(PagesOf(c, s)), NEW h \in Handles \cup {NoHandle},
         NEW d, d = MapExistingPage(c, s, n, h)
  PROVE  TakesPage(c, d, s, n)
<1> DEFINE old == PagesOf(c, s)
           pages == IF n <= Len(old) THEN [old EXCEPT ![n] = h] ELSE Append(old, h)
           slot == [c.paged_slots[s] EXCEPT !.pages = pages]
           slots == [c.paged_slots EXCEPT ![s] = slot]
           a == <<s, n - 1>>
           v == RetainPhysicalPage(c.vmm, h)
           w == MapPage(v, a, h)
<1>1. c.vmm \in PoolState /\ c.paged_slots \in [Slots -> SlotType]
  BY DEF KVState
<1>2. c.paged_slots[s] \in SlotType /\ old \in Seq(Handles \cup {NoHandle})
  BY <1>1 DEF SlotType, PagesOf
<1>3. /\ pages \in Seq(Handles \cup {NoHandle})
      /\ Len(pages) = IF n <= Len(old) THEN Len(old) ELSE n
  <2> HIDE DEF old
  <2>1. n \in Nat /\ n >= 1 /\ Len(old) \in Nat /\ n - 1 <= Len(old)
    BY <1>2, AddrFacts DEF old
  <2>2. CASE n <= Len(old)
    BY <1>2, <2>1, <2>2
  <2>3. CASE ~(n <= Len(old))
    <3>1. Len(old) + 1 = n
      BY <2>1, <2>3
    <3>2. Append(old, h) \in Seq(Handles \cup {NoHandle}) /\ Len(Append(old, h)) = Len(old) + 1
      BY <1>2
    <3> QED BY <2>3, <3>1, <3>2
  <2> QED BY <2>2, <2>3
<1>4. d = [vmm |-> w, paged_slots |-> slots]
  BY DEF MapExistingPage, PagesOf
<1> HIDE DEF pages
<1>5. slot \in SlotType /\ slot.active = c.paged_slots[s].active /\ slot.pages = pages
  BY <1>2, <1>3 DEF SlotType
<1> HIDE DEF slot
<1>6. /\ slots \in [Slots -> SlotType] /\ slots[s] = slot
      /\ \A t \in Slots : t # s => slots[t] = c.paged_slots[t]
  BY <1>1, <1>5
<1> HIDE DEF slots
<1>7. v \in PoolState /\ Counts(v) /\ v.mapped_pages = c.vmm.mapped_pages
  BY <1>1, RetainTyped, SameCounts
<1>8. /\ w \in PoolState /\ Counts(w)
      /\ \A b \in Addrs : b # a => w.mapped_pages[b] = v.mapped_pages[b]
  <2>1. n - 1 \in 0..(SlotPages - 1)
    BY AddrFacts
  <2>2. a \in Addrs
    BY <2>1, AddrFacts
  <2> HIDE DEF a, v
  <2> QED BY <1>7, <2>2, MapCounts
<1> HIDE DEF w, v
<1>9. d.vmm = w /\ d.paged_slots = slots
  BY <1>4
<1>10. d \in KVState
  BY <1>4, <1>6, <1>8 DEF KVState
<1>11. OthersAlike(c, d, s)
  BY <1>6, <1>9 DEF OthersAlike
<1>12. PagesOf(d, s) = pages /\ d.paged_slots[s].active = c.paged_slots[s].active
  BY <1>5, <1>6, <1>9 DEF PagesOf
<1> QED BY <1>3, <1>7, <1>8, <1>9, <1>10, <1>11, <1>12 DEF TakesPage

\* The same of sets that taking over pages does not leave either.
TakesPages(K) ==
  \A c \in K : \A s \in Slots : \A n \in 1..SlotPages : \A h \in Handles \cup {NoHandle} :
    c.paged_slots[s].active /\ n - 1 <= Len(PagesOf(c, s)) => MapExistingPage(c, s, n, h) \in K

\* Allocating and freeing slots and adding pages keep the cache accounted for.
LEMMA AccountedKept == Kept(Accounted)
<1>1. ASSUME NEW c \in Accounted, NEW s \in Slots PROVE AllocSlot(c, s) \in Accounted
  <2>1. PICK d : d = AllocSlot(c, s)
    OBVIOUS
  <2>2. /\ d \in KVState /\ d.vmm = c.vmm
        /\ d.paged_slots[s].active = TRUE /\ PagesOf(d, s) = PagesOf(c, s)
        /\ OthersAlike(c, d, s)
    <3>1. c \in KVState
      BY AccountedFacts
    <3> QED BY <2>1, <3>1, AllocSlotEffect
  <2>3. /\ Counts(c.vmm) /\ Len(PagesOf(c, s)) <= SlotPages
        /\ \A i \in 0..(SlotPages - 1) :
              c.vmm.mapped_pages[<<s, i>>] # NoHandle => i < Len(PagesOf(c, s))
    BY DEF Accounted
  <2>4. d \in Accounted
    BY <2>2, <2>3, AccountedSlot
  <2> QED BY <2>1, <2>4
<1>2. ASSUME NEW c \in Accounted, NEW s \in Slots PROVE FreeSlot(c, s) \in Accounted
  <2>1. PICK d : d = FreeSlot(c, s)
    OBVIOUS
  <2>2. /\ d \in KVState /\ Counts(d.vmm) /\ Unmapped(c.vmm, d.vmm, s)
        /\ d.paged_slots[s] = FreeSlotRecord /\ OthersAlike(c, d, s)
    BY <2>1, FreeSlotUnmaps
  <2>3. PagesOf(d, s) = <<>> /\ Len(PagesOf(d, s)) <= SlotPages
    BY <2>2, AddrFacts DEF PagesOf, FreeSlotRecord
  <2>4. \A t \in Slots : \A i \in 0..(SlotPages - 1) :
           d.vmm.mapped_pages[<<t, i>>] = IF t = s THEN NoHandle
                                          ELSE c.vmm.mapped_pages[<<t, i>>]
    BY <2>2, AddrFacts DEF Unmapped
  <2>5. d \in Accounted
    BY <2>2, <2>3, <2>4, AccountedSlot
  <2> QED BY <2>1, <2>5
<1>3. ASSUME NEW c \in Accounted, NEW s \in Slots, c.paged_slots[s].active,
             Len(PagesOf(c, s)) < SlotPages
      PROVE  AddPage(c, s) \in Accounted
  <2>1. PICK d : d = AddPage(c, s)
    OBVIOUS
  <2>2. PICK h : h = AllocatedHandle(c.vmm, NewPage(c.vmm))
    OBVIOUS
  <2>3. PICK v : v = AllocPhysicalPage(c.vmm, NewPage(c.vmm))
    OBVIOUS
  <2>4. PICK k : k = Len(PagesOf(c, s))
    OBVIOUS
  <2>5. /\ d.vmm = MapPage(v, <<s, k>>, h)
        /\ d \in KVState /\ h \in Handles \cup {NoHandle}
        /\ d.paged_slots[s].active = c.paged_slots[s].active
        /\ Len(PagesOf(d, s)) = k + 1
        /\ OthersAlike(c, d, s)
    <3>1. c \in KVState
      BY AccountedFacts
    <3>2. /\ d.vmm = MapPage(v, <<s, Len(PagesOf(c, s))>>, h)
          /\ d \in KVState /\ h \in Handles \cup {NoHandle}
          /\ d.paged_slots[s].active = c.paged_slots[s].active
          /\ Len(PagesOf(d, s)) = Len(PagesOf(c, s)) + 1
          /\ OthersAlike(c, d, s)
      <4>1. Len(PagesOf(c, s)) < SlotPages
        BY <1>3
      <4> QED BY <2>1, <2>2, <2>3, <3>1, <4>1, AddPageEffect
    <3> QED BY <2>4, <3>2
  <2>6. k \in Nat /\ k < SlotPages /\ k \in 0..(SlotPages - 1)
    BY <1>3, <2>4, AccountedFacts, AddrFacts
  <2>7. v \in PoolState /\ Counts(v) /\ v.mapped_pages = c.vmm.mapped_pages
    BY <2>3, AccountedFacts, NewPageFacts, AllocTyped, SameCounts
  <2>8. PICK a : a = <<s, k>>
    OBVIOUS
  <2>9. a \in Addrs
    BY <2>6, <2>8, AddrFacts
  <2>10. /\ Counts(d.vmm)
         /\ \A b \in Addrs : b # a => d.vmm.mapped_pages[b] = c.vmm.mapped_pages[b]
    BY <2>5, <2>7, <2>8, <2>9, MapCounts
  <2>11. \A t \in Slots : \A i \in 0..(SlotPages - 1) :
           t # s \/ i # k => d.vmm.mapped_pages[<<t, i>>] = c.vmm.mapped_pages[<<t, i>>]
    BY <2>8, <2>10, AddrFacts
  <2>12. ASSUME NEW i \in 0..(SlotPages - 1), d.vmm.mapped_pages[<<s, i>>] # NoHandle
         PROVE  i < k + 1
    <3>1. CASE i = k
      BY <2>6, <3>1
    <3>2. CASE i # k
      <4>1. c.vmm.mapped_pages[<<s, i>>] # NoHandle
        BY <2>11, <2>12, <3>2
      <4>2. i < k
        BY <2>4, <4>1 DEF Accounted
      <4> QED BY <2>6, <4>2, AddrFacts
    <3> QED BY <3>1, <3>2
  <2>13. d \in Accounted
    <3>1. \A t \in Slots : t # s => \A i \in 0..(SlotPages - 1) :
             d.vmm.mapped_pages[<<t, i>>] = c.vmm.mapped_pages[<<t, i>>]
      BY <2>11
    <3>2. Len(PagesOf(d, s)) <= SlotPages
      BY <2>5, <2>6, AddrFacts
    <3>3. \A i \in 0..(SlotPages - 1) :
             d.vmm.mapped_pages[<<s, i>>] # NoHandle => i < Len(PagesOf(d, s))
      BY <2>5, <2>12
    <3>4. d \in KVState /\ Counts(d.vmm) /\ OthersAlike(c, d, s)
      BY <2>5, <2>10
    <3>5. ~d.paged_slots[s].active => PagesOf(d, s) = <<>>
      BY <1>3, <2>5
    <3> QED BY <3>1, <3>2, <3>3, <3>4, <3>5, AccountedSlot
  <2> QED BY <2>1, <2>13
<1> QED BY <1>1, <1>2, <1>3 DEF Kept

\* So does taking over pages.
LEMMA AccountedTakesPages == TakesPages(Accounted)
<1> SUFFICES ASSUME NEW c \in Accounted, NEW s \in Slots, NEW n \in 1..SlotPages,
                    NEW h \in Handles \cup {NoHandle}, c.paged_slots[s].active,
                    n - 1 <= Len(PagesOf(c, s))
             PROVE  MapExistingPage(c, s, n, h) \in Accounted
  BY DEF TakesPages
<1>1. PICK d : d = MapExistingPage(c, s, n, h)
  OBVIOUS
<1>2. PICK k : k = Len(PagesOf(c, s))
  OBVIOUS
<1>3. /\ c \in KVState /\ Counts(c.vmm) /\ k \in 0..SlotPages
      /\ \A i \in 0..(SlotPages - 1) : c.vmm.mapped_pages[<<s, i>>] # NoHandle => i < k
  BY <1>2, AccountedFacts
<1>4. /\ d \in KVState /\ Counts(d.vmm)
      /\ \A b \in Addrs : b # <<s, n - 1>> => d.vmm.mapped_pages[b] = c.vmm.mapped_pages[b]
      /\ d.paged_slots[s].active = c.paged_slots[s].active
      /\ Len(PagesOf(d, s)) = IF n <= k THEN k ELSE n
      /\ OthersAlike(c, d, s)
  <2>1. c \in KVState /\ Counts(c.vmm) /\ n - 1 <= Len(PagesOf(c, s))
    BY <1>3
  <2>2. TakesPage(c, d, s, n)
    BY <1>1, <2>1, MapExistingEffect
  <2> QED BY <1>2, <2>2 DEF TakesPage
<1>5. \A t \in Slots : \A i \in 0..(SlotPages - 1) :
         t # s \/ i # n - 1 => d.vmm.mapped_pages[<<t, i>>] = c.vmm.mapped_pages[<<t, i>>]
  BY <1>4, AddrFacts
<1>6. n \in Nat /\ n >= 1 /\ n <= SlotPages /\ k \in Nat /\ k <= SlotPages /\ n - 1 <= k
      /\ SlotPages \in Nat
  BY <1>2, <1>3, AddrFacts
<1>7. ASSUME NEW i \in 0..(SlotPages - 1), d.vmm.mapped_pages[<<s, i>>] # NoHandle
      PROVE  i < Len(PagesOf(d, s))
  <2>1. CASE i = n - 1
    BY <1>4, <1>6, <2>1
  <2>2. CASE i # n - 1
    <3>1. i < k
      BY <1>3, <1>5, <1>7, <2>2
    <3> QED BY <1>4, <1>6, <3>1
  <2> QED BY <2>1, <2>2
<1>8. Len(PagesOf(d, s)) <= SlotPages
  BY <1>4, <1>6
<1>9. \A t \in Slots : t # s => \A i \in 0..(SlotPages - 1) :
         d.vmm.mapped_pages[<<t, i>>] = c.vmm.mapped_pages[<<t, i>>]
  BY <1>5
<1>10. d \in Accounted
  BY <1>4, <1>7, <1>8, <1>9, AccountedSlot
<1> QED BY <1>1, <1>10

----------------------------------------------------------------------------
(***************************************************************************)
(* Pages that are mapped at one address only.  As long as no page is taken *)
(* over from elsewhere, a page is counted once when it is mapped, it is    *)
(* not in the pool then, and what the driver holds is mapped or pooled.    *)
(***************************************************************************)
MappedOnce(v) ==
  \A a, b \in MappedAddrs(v) : v.mapped_pages[a] = v.mapped_pages[b] => a = b

SoleOwner(v) ==
  /\ MappedOnce(v)
  /\ \A h \in Handles : v.handle_refcounts[h] = IF Mapped(v, h) THEN 1 ELSE 0
  /\ Distinct(v.free_pages_pool)
  /\ \A h \in Pooled(v) : ~Mapped(v, h)
  /\ v.driver = Pooled(v) \cup {h \in Handles : Mapped(v, h)}

\* There is a page for every address.
Enough == IsFiniteSet(Handles) /\ Cardinality(Handles) >= MaxBatch * SlotPages

\* The bookkeeping lists what is mapped.
Bookkept(c) ==
  \A s \in Slots : \A i \in 0..(SlotPages - 1) :
    c.vmm.mapped_pages[<<s, i>>] = IF i < Len(PagesOf(c, s)) THEN PagesOf(c, s)[i + 1]
                                   ELSE NoHandle

Exclusive ==
  {c \in Accounted :
     /\ Bookkept(c)
     /\ SoleOwner(c.vmm)
     /\ Enough => \A s \in Slots : NoHandle \notin Elements(PagesOf(c, s))}

\* Which pages are mapped after a mapping changed.
LEMMA MappedAfterMap ==
  ASSUME NEW v \in PoolState, NEW w, NEW a \in Addrs, NEW h \in Handles,
         v.mapped_pages[a] = NoHandle, ~Mapped(v, h),
         w.mapped_pages = [v.mapped_pages EXCEPT ![a] = h]
  PROVE  /\ \A g \in Handles : Mapped(w, g) <=> Mapped(v, g) \/ g = h
         /\ MappedOnce(v) => MappedOnce(w)
<1>1. \A b \in Addrs : w.mapped_pages[b] = IF b = a THEN h ELSE v.mapped_pages[b]
  BY DEF PoolState
<1>2. \A b \in Addrs : v.mapped_pages[b] # h
  BY DEF Mapped
<1>3. h # NoHandle
  BY NoHandleAssumption
<1>4. ASSUME NEW g \in Handles PROVE Mapped(w, g) <=> Mapped(v, g) \/ g = h
  BY <1>1, NoHandleAssumption DEF Mapped
<1>5. MappedAddrs(w) = MappedAddrs(v) \cup {a} /\ a \notin MappedAddrs(v)
  BY <1>1, <1>3 DEF MappedAddrs
<1>6. MappedAddrs(v) \subseteq Addrs
  BY DEF MappedAddrs
<1>7. MappedOnce(v) => MappedOnce(w)
  BY <1>1, <1>2, <1>5, <1>6 DEF MappedOnce
<1> QED BY <1>4, <1>7

\* A page that was mapped once is not mapped any more.
LEMMA MappedAfterUnmap ==
  ASSUME NEW v \in PoolState, NEW w, NEW a \in Addrs, NEW h \in Handles,
         v.mapped_pages[a] = h,
         MappedOnce(v),
         w.mapped_pages = [v.mapped_pages EXCEPT ![a] = NoHandle]
  PROVE  /\ \A g \in Handles : Mapped(w, g) <=> Mapped(v, g) /\ g # h
         /\ MappedOnce(w)
<1>1. \A b \in Addrs : w.mapped_pages[b] = IF b = a THEN NoHandle ELSE v.mapped_pages[b]
  BY DEF PoolState
<1>2. h # NoHandle
  BY NoHandleAssumption
<1>3. \A b \in Addrs : v.mapped_pages[b] = h => b = a
  BY <1>2 DEF MappedAddrs, MappedOnce
<1>4. ASSUME NEW g \in Handles PROVE Mapped(w, g) <=> Mapped(v, g) /\ g # h
  BY <1>1, <1>3, NoHandleAssumption DEF Mapped
<1>5. MappedAddrs(w) = MappedAddrs(v) \ {a} /\ MappedAddrs(v) \subseteq Addrs
  BY <1>1 DEF MappedAddrs
<1>6. MappedOnce(w)
  BY <1>1, <1>5 DEF MappedOnce
<1> QED BY <1>4, <1>6

\* A page is allocated and mapped at a free address.
LEMMA AllocAndMap ==
  ASSUME NEW v \in PoolState, SoleOwner(v), NEW a \in Addrs, v.mapped_pages[a] = NoHandle,
         NEW h, h = AllocatedHandle(v, NewPage(v)),
         NEW w, w = MapPage(AllocPhysicalPage(v, NewPage(v)), a, h)
  PROVE  /\ SoleOwner(w) /\ w.mapped_pages = [v.mapped_pages EXCEPT ![a] = h]
         /\ h = NoHandle => v.free_pages_pool = <<>> /\ Creatable(v) = {}
<1> DEFINE fresh == NewPage(v)
           u == AllocPhysicalPage(v, fresh)
<1>1. CASE h \in Handles /\ ~Mapped(v, h)
            /\ u \in PoolState /\ u.mapped_pages = v.mapped_pages
            /\ u.handle_refcounts = [v.handle_refcounts EXCEPT ![h] = 1]
            /\ Distinct(u.free_pages_pool) /\ Pooled(u) = Pooled(v) \ {h}
            /\ u.driver = v.driver \cup {h}
  <2> HIDE DEF u
  <2>1. CanMap(u, a, h)
    BY <1>1 DEF CanMap
  <2>2. /\ w \in PoolState
        /\ w.handle_refcounts = u.handle_refcounts
        /\ w.free_pages_pool = u.free_pages_pool
        /\ w.mapped_pages = [u.mapped_pages EXCEPT ![a] = h]
        /\ w.driver = u.driver
    BY <1>1, <2>1, MapEffect DEF u
  <2>3. Pooled(w) = Pooled(u)
    BY <2>2 DEF Pooled
  <2>4. /\ \A g \in Handles : Mapped(w, g) <=> Mapped(v, g) \/ g = h
        /\ MappedOnce(w)
    <3>1. w.mapped_pages = [v.mapped_pages EXCEPT ![a] = h]
      BY <1>1, <2>2
    <3>2. h \in Handles /\ ~Mapped(v, h)
      BY <1>1
    <3> QED BY <3>1, <3>2, MappedAfterMap DEF SoleOwner
  <2>5. \A g \in Handles : w.handle_refcounts[g] = IF Mapped(w, g) THEN 1 ELSE 0
    <3> SUFFICES ASSUME NEW g \in Handles
                 PROVE  w.handle_refcounts[g] = IF Mapped(w, g) THEN 1 ELSE 0
      OBVIOUS
    <3>1. w.handle_refcounts[g] = IF g = h THEN 1 ELSE v.handle_refcounts[g]
      BY <1>1, <2>2 DEF PoolState
    <3>2. v.handle_refcounts[g] = IF Mapped(v, g) THEN 1 ELSE 0
      BY DEF SoleOwner
    <3> QED BY <2>4, <3>1, <3>2
  <2>6. \A g \in Pooled(w) : ~Mapped(w, g)
    <3>1. Pooled(w) \subseteq Handles
      BY <2>2 DEF PoolState, Pooled
    <3> QED BY <1>1, <2>3, <2>4, <3>1 DEF SoleOwner
  <2>7. w.driver = Pooled(w) \cup {g \in Handles : Mapped(w, g)}
    <3>1. v.driver = Pooled(v) \cup {g \in Handles : Mapped(v, g)}
      BY DEF SoleOwner
    <3> QED BY <1>1, <2>2, <2>3, <2>4, <3>1
  <2>8. SoleOwner(w)
    BY <1>1, <2>2, <2>4, <2>5, <2>6, <2>7 DEF SoleOwner
  <2> QED BY <1>1, <2>2, <2>8, NoHandleAssumption
<1>2. CASE v.free_pages_pool # <<>>
  <2>1. /\ u \in PoolState /\ h \in Handles /\ h \in Pooled(v)
        /\ u.handle_refcounts = [v.handle_refcounts EXCEPT ![h] = 1]
        /\ Distinct(u.free_pages_pool) /\ Pooled(u) = Pooled(v) \ {h}
        /\ u.mapped_pages = v.mapped_pages
        /\ u.driver = v.driver
    <3>1. Distinct(v.free_pages_pool)
      BY DEF SoleOwner
    <3> QED BY <1>2, <3>1, AllocFromPoolEffect
  <2>2. ~Mapped(v, h) /\ v.driver = v.driver \cup {h}
    BY <2>1 DEF SoleOwner
  <2> QED BY <1>1, <2>1, <2>2
<1>3. CASE v.free_pages_pool = <<>> /\ fresh # NoHandle
  <2>1. fresh \in Creatable(v) /\ fresh \in Handles /\ ~Mapped(v, fresh)
    BY <1>3, NewPageFacts DEF Creatable
  <2>2. /\ u \in PoolState /\ AllocatedHandle(v, fresh) = fresh
        /\ u.handle_refcounts = [v.handle_refcounts EXCEPT ![fresh] = 1]
        /\ u.free_pages_pool = v.free_pages_pool
        /\ u.mapped_pages = v.mapped_pages
        /\ u.driver = v.driver \cup {fresh}
    <3> HIDE DEF fresh
    <3> QED BY <1>3, <2>1, AllocFreshEffect
  <2> HIDE DEF u, fresh
  <2>3. Pooled(u) = {} /\ Pooled(v) = {} /\ Distinct(u.free_pages_pool)
    BY <1>3, <2>2 DEF Pooled, SoleOwner
  <2>4. h = fresh
    BY <2>2 DEF fresh
  <2> QED BY <1>1, <2>1, <2>2, <2>3, <2>4
<1>4. CASE v.free_pages_pool = <<>> /\ fresh = NoHandle
  <2>1. h = NoHandle /\ u = v
    BY <1>4 DEF AllocatedHandle, AllocPhysicalPage
  <2>2. ~CanMap(v, a, NoHandle)
    BY NoHandleAssumption DEF CanMap, PoolState
  <2>3. w = v
    BY <2>1, <2>2 DEF MapPage
  <2>4. v.mapped_pages = [v.mapped_pages EXCEPT ![a] = NoHandle]
    BY DEF PoolState
  <2>5. Creatable(v) = {}
    BY <1>4, NewPageFacts, NoHandleAssumption DEF Creatable
  <2> QED BY <1>4, <2>1, <2>3, <2>4, <2>5
<1> QED BY <1>2, <1>3, <1>4

\* A page is unmapped and released.
LEMMA UnmapAndRelease ==
  ASSUME NEW v \in PoolState, SoleOwner(v), Counts(v), NEW a \in Addrs,
         NEW h, h = v.mapped_pages[a],
         NEW w, w = ReleasePhysicalPage(UnmapPage(v, a), h)
  PROVE  /\ w \in PoolState /\ SoleOwner(w) /\ Counts(w)
         /\ w.mapped_pages = [v.mapped_pages EXCEPT ![a] = NoHandle]
<1> DEFINE u == UnmapPage(v, a)
<1>1. CASE h = NoHandle
  <2>1. u = v
    BY <1>1 DEF UnmapPage
  <2>2. w = v
    BY <1>1, <2>1 DEF ReleasePhysicalPage, Counted
  <2>3. v.mapped_pages = [v.mapped_pages EXCEPT ![a] = NoHandle]
    BY <1>1 DEF PoolState
  <2> QED BY <2>2, <2>3
<1>2. CASE h # NoHandle
  <2>1. h \in Handles
    BY <1>2 DEF PoolState
  <2>2. /\ u \in PoolState /\ Counts(u)
        /\ u.mapped_pages = [v.mapped_pages EXCEPT ![a] = NoHandle]
        /\ u.handle_refcounts = v.handle_refcounts
        /\ u.free_pages_pool = v.free_pages_pool
        /\ u.driver = v.driver
    BY UnmapCounts
  <2>3. Mapped(v, h)
    BY DEF Mapped
  <2>4. v.handle_refcounts[h] = 1 /\ h \notin Pooled(v) /\ h \in v.driver
    BY <2>1, <2>3 DEF SoleOwner
  <2> HIDE DEF u
  <2>5. u.handle_refcounts[h] = 1 /\ h \notin Pooled(u) /\ Pooled(u) = Pooled(v)
        /\ Distinct(u.free_pages_pool)
    BY <2>2, <2>4 DEF Pooled, SoleOwner
  <2>6. /\ w \in PoolState
        /\ w.handle_refcounts = [u.handle_refcounts EXCEPT ![h] = @ - 1]
        /\ w.mapped_pages = u.mapped_pages
        /\ w.total_mapped = u.total_mapped
        /\ Distinct(w.free_pages_pool)
        /\ \/ Pooled(w) = Pooled(u) \cup {h} /\ w.driver = u.driver
           \/ Pooled(w) = Pooled(u) /\ w.driver = u.driver \ {h}
    <3>1. w = ReleasePhysicalPage(u, h) /\ u.handle_refcounts[h] > 0
          /\ ~(u.handle_refcounts[h] > 1)
      BY <2>5 DEF u
    <3> QED BY <2>1, <2>2, <2>5, <3>1, ReleaseEffect
  <2>7. /\ \A g \in Handles : Mapped(w, g) <=> Mapped(v, g) /\ g # h
        /\ MappedOnce(w)
    <3>1. w.mapped_pages = [v.mapped_pages EXCEPT ![a] = NoHandle] /\ v.mapped_pages[a] = h
      BY <2>2, <2>6
    <3>2. MappedOnce(v)
      BY DEF SoleOwner
    <3> QED BY <2>1, <3>1, <3>2, MappedAfterUnmap
  <2>8. \A g \in Handles : w.handle_refcounts[g] = IF Mapped(w, g) THEN 1 ELSE 0
    <3> SUFFICES ASSUME NEW g \in Handles
                 PROVE  w.handle_refcounts[g] = IF Mapped(w, g) THEN 1 ELSE 0
      OBVIOUS
    <3>1. w.handle_refcounts[g] = IF g = h THEN 0 ELSE v.handle_refcounts[g]
      BY <2>2, <2>4, <2>6 DEF PoolState
    <3>2. v.handle_refcounts[g] = IF Mapped(v, g) THEN 1 ELSE 0
      BY DEF SoleOwner
    <3> QED BY <2>7, <3>1, <3>2
  <2>9. Pooled(v) \subseteq Handles
    BY DEF PoolState, Pooled
  <2>10. \A g \in Pooled(w) : ~Mapped(w, g)
    BY <2>1, <2>5, <2>6, <2>7, <2>9 DEF SoleOwner
  <2>11. w.driver = Pooled(w) \cup {g \in Handles : Mapped(w, g)}
    <3>1. v.driver = Pooled(v) \cup {g \in Handles : Mapped(v, g)}
      BY DEF SoleOwner
    <3> QED BY <2>1, <2>2, <2>3, <2>4, <2>5, <2>6, <2>7, <3>1
  <2>12. SoleOwner(w)
    BY <2>6, <2>7, <2>8, <2>10, <2>11 DEF SoleOwner
  <2>13. Counts(w)
    <3>1. MappedAddrs(w) = MappedAddrs(u)
      BY <2>6 DEF MappedAddrs
    <3> QED BY <2>2, <2>6, <3>1 DEF Counts
  <2> QED BY <2>2, <2>6, <2>12, <2>13
<1> QED BY <1>1, <1>2

\* Freeing a slot whose bookkeeping is right.
LEMMA FreeSlotOwners ==
  ASSUME NEW c \in Exclusive, NEW s \in Slots, NEW d, d = FreeSlot(c, s)
  PROVE  SoleOwner(d.vmm)
<1> DEFINE pages == PagesOf(c, s)
           len == Len(pages)
           Result(v, n) ==
             \A b \in Addrs : v.mapped_pages[b] = IF b[1] = s /\ b[2] < n THEN NoHandle
                                                  ELSE c.vmm.mapped_pages[b]
           X == [n \in 0..len |-> {v \in PoolState : Counts(v) /\ SoleOwner(v) /\ Result(v, n)}]
<1>1. c \in Accounted /\ Bookkept(c) /\ SoleOwner(c.vmm)
  BY DEF Exclusive
<1>2. /\ c.vmm \in PoolState /\ Counts(c.vmm)
      /\ pages \in Seq(Handles \cup {NoHandle}) /\ len \in 0..SlotPages
  BY <1>1, AccountedFacts
<1>3. len \in Nat
  BY <1>2, AddrFacts
<1>4. c.vmm \in X[0]
  <2>1. \A b \in Addrs : ~(b[2] < 0)
    BY AddrFacts
  <2> QED BY <1>1, <1>2, <1>3, <2>1
<1>5. ASSUME NEW n \in 1..len, NEW x \in X[n - 1] PROVE FreePage(x, s, n, pages[n]) \in X[n]
  <2> DEFINE a == <<s, n - 1>>
             w == ReleasePhysicalPage(UnmapPage(x, a), pages[n])
  <2>1. n \in 0..len /\ n - 1 \in 0..len /\ n - 1 \in 0..(SlotPages - 1)
        /\ n - 1 < len /\ (n - 1) + 1 = n
    BY <1>2, <1>3, AddrFacts
  <2>2. a \in Addrs /\ a[1] = s /\ a[2] = n - 1
    BY <2>1, AddrFacts
  <2>3. x \in PoolState /\ Counts(x) /\ SoleOwner(x) /\ Result(x, n - 1)
    BY <2>1
  <2>4. pages[n] = x.mapped_pages[a]
    <3>1. c.vmm.mapped_pages[a] = pages[n]
      BY <1>1, <2>1 DEF Bookkept
    <3>2. ~(a[2] < n - 1)
      BY <2>1, <2>2
    <3> QED BY <2>2, <2>3, <3>1, <3>2
  <2> HIDE DEF Result
  <2>5. /\ w \in PoolState /\ SoleOwner(w) /\ Counts(w)
        /\ w.mapped_pages = [x.mapped_pages EXCEPT ![a] = NoHandle]
    <3> HIDE DEF a, w
    <3>1. PICK h : h = pages[n]
      OBVIOUS
    <3>2. w = ReleasePhysicalPage(UnmapPage(x, a), h)
      BY <3>1 DEF w
    <3>3. x \in PoolState /\ SoleOwner(x) /\ Counts(x) /\ a \in Addrs /\ h = x.mapped_pages[a]
      BY <2>2, <2>3, <2>4, <3>1
    <3> QED BY <3>2, <3>3, UnmapAndRelease
  <2>6. Result(w, n)
    <3> SUFFICES ASSUME NEW b \in Addrs
                 PROVE  w.mapped_pages[b] = IF b[1] = s /\ b[2] < n THEN NoHandle
                                            ELSE c.vmm.mapped_pages[b]
      BY DEF Result
    <3>1. b[2] \in 0..(SlotPages - 1) /\ b = <<b[1], b[2]>>
      BY AddrFacts
    <3>2. w.mapped_pages[b] = IF b = a THEN NoHandle ELSE x.mapped_pages[b]
      BY <2>3, <2>5 DEF PoolState
    <3>3. b = a <=> b[1] = s /\ b[2] = n - 1
      BY <2>2, <3>1
    <3>4. x.mapped_pages[b] = IF b[1] = s /\ b[2] < n - 1 THEN NoHandle
                              ELSE c.vmm.mapped_pages[b]
      BY <2>3 DEF Result
    <3>5. b[2] < n <=> b[2] < n - 1 \/ b[2] = n - 1
      BY <2>1, <3>1
    <3> QED BY <3>2, <3>3, <3>4, <3>5
  <2>7. w \in X[n]
    BY <2>1, <2>5, <2>6
  <2> QED BY <2>7 DEF FreePage
<1>6. d.vmm \in X[len]
  <2> HIDE DEF X
  <2> QED BY <1>3, <1>4, <1>5, FreePageLoop
<1> QED BY <1>3, <1>6

\* With a page for every address, there is one for an address without a mapping.
LEMMA EnoughPages ==
  ASSUME NEW v \in PoolState, NEW a \in Addrs, v.mapped_pages[a] = NoHandle, Enough,
         SoleOwner(v), v.free_pages_pool = <<>>
  PROVE  Creatable(v) # {}
<1> SUFFICES ASSUME Creatable(v) = {} PROVE FALSE
  OBVIOUS
<1>1. Pooled(v) = {}
  BY DEF Pooled
<1>2. ASSUME NEW h \in Handles PROVE Mapped(v, h)
  <2>1. h \in v.driver \/ Mapped(v, h)
    BY DEF Creatable
  <2> QED BY <1>1, <2>1 DEF SoleOwner
<1>3. PICK f : f = [b \in MappedAddrs(v) |-> v.mapped_pages[b]]
  OBVIOUS
<1>4. f \in Surjection(MappedAddrs(v), Handles)
  <2>1. \A b \in MappedAddrs(v) : v.mapped_pages[b] \in Handles
    BY DEF MappedAddrs, PoolState
  <2>2. ASSUME NEW h \in Handles PROVE \E b \in MappedAddrs(v) : f[b] = h
    <3>1. PICK b \in Addrs : v.mapped_pages[b] = h
      BY <1>2 DEF Mapped
    <3>2. b \in MappedAddrs(v)
      BY <3>1, NoHandleAssumption DEF MappedAddrs
    <3> QED BY <1>3, <3>1, <3>2
  <2> QED BY <1>3, <2>1, <2>2 DEF Surjection
<1>5. IsFiniteSet(MappedAddrs(v)) /\ Cardinality(MappedAddrs(v)) < Cardinality(Addrs)
  <2>1. MappedAddrs(v) \in SUBSET Addrs /\ MappedAddrs(v) # Addrs
    BY DEF MappedAddrs
  <2>2. IsFiniteSet(Addrs)
    BY AddrFacts
  <2>3. /\ IsFiniteSet(MappedAddrs(v)) /\ Cardinality(MappedAddrs(v)) <= Cardinality(Addrs)
        /\ Cardinality(MappedAddrs(v)) # Cardinality(Addrs)
    BY <2>1, <2>2, FS_Subset
  <2>4. Cardinality(MappedAddrs(v)) \in Nat /\ Cardinality(Addrs) \in Nat
    BY <2>2, <2>3, FS_CardinalityType
  <2> QED BY <2>3, <2>4
<1>6. Cardinality(Handles) <= Cardinality(MappedAddrs(v))
  BY <1>4, <1>5, FS_Surjection
<1>7. /\ Cardinality(Handles) \in Nat /\ Cardinality(MappedAddrs(v)) \in Nat
      /\ Cardinality(Addrs) \in Nat /\ Cardinality(Handles) >= Cardinality(Addrs)
  BY <1>5, AddrFacts, FS_CardinalityType DEF Enough
<1> QED BY <1>5, <1>6, <1>7

\* As long as no page is taken over, none gets mapped twice.
LEMMA ExclusiveKept == Kept(Exclusive)
<1>1. Exclusive \subseteq Accounted
  BY DEF Exclusive
<1>2. ASSUME NEW c \in Exclusive, NEW s \in Slots PROVE AllocSlot(c, s) \in Exclusive
  <2>1. PICK d : d = AllocSlot(c, s)
    OBVIOUS
  <2>2. d.vmm = c.vmm /\ \A t \in Slots : PagesOf(d, t) = PagesOf(c, t)
    <3>1. c \in KVState
      BY <1>1, AccountedFacts
    <3>2. d.vmm = c.vmm /\ PagesOf(d, s) = PagesOf(c, s) /\ OthersAlike(c, d, s)
      BY <2>1, <3>1, AllocSlotEffect
    <3> QED BY <3>2 DEF OthersAlike, PagesOf
  <2>3. d \in Accounted
    BY <1>1, <2>1, AccountedKept DEF Kept
  <2>4. d \in Exclusive
    BY <2>2, <2>3 DEF Exclusive, Bookkept
  <2> QED BY <2>1, <2>4
<1>3. ASSUME NEW c \in Exclusive, NEW s \in Slots PROVE FreeSlot(c, s) \in Exclusive
  <2>1. PICK d : d = FreeSlot(c, s)
    OBVIOUS
  <2>2. c \in Accounted /\ Bookkept(c) /\ (Enough => \A t \in Slots : NoHandle \notin Elements(PagesOf(c, t)))
    BY DEF Exclusive
  <2>3. d \in Accounted
    BY <2>1, <2>2, AccountedKept DEF Kept
  <2>4. SoleOwner(d.vmm)
    BY <2>1, FreeSlotOwners
  <2>5. /\ Unmapped(c.vmm, d.vmm, s)
        /\ d.paged_slots[s] = FreeSlotRecord /\ OthersAlike(c, d, s)
    BY <2>1, <2>2, FreeSlotUnmaps
  <2>6. \A t \in Slots : PagesOf(d, t) = IF t = s THEN <<>> ELSE PagesOf(c, t)
    BY <2>5 DEF OthersAlike, PagesOf, FreeSlotRecord
  <2>7. Bookkept(d)
    <3> SUFFICES ASSUME NEW t \in Slots, NEW i \in 0..(SlotPages - 1)
                 PROVE  d.vmm.mapped_pages[<<t, i>>] =
                          IF i < Len(PagesOf(d, t)) THEN PagesOf(d, t)[i + 1] ELSE NoHandle
      BY DEF Bookkept
    <3>1. d.vmm.mapped_pages[<<t, i>>] = IF t = s THEN NoHandle ELSE c.vmm.mapped_pages[<<t, i>>]
      BY <2>5, AddrFacts DEF Unmapped
    <3>2. CASE t = s
      BY <2>6, <3>1, <3>2, AddrFacts
    <3>3. CASE t # s
      BY <2>2, <2>6, <3>1, <3>3 DEF Bookkept
    <3> QED BY <3>2, <3>3
  <2>8. Enough => \A t \in Slots : NoHandle \notin Elements(PagesOf(d, t))
    BY <2>2, <2>6 DEF Elements
  <2>9. d \in Exclusive
    BY <2>3, <2>4, <2>7, <2>8 DEF Exclusive
  <2> QED BY <2>1, <2>9
<1>4. ASSUME NEW c \in Exclusive, NEW s \in Slots, c.paged_slots[s].active,
             Len(PagesOf(c, s)) < SlotPages
      PROVE  AddPage(c, s) \in Exclusive
  <2>1. PICK d : d = AddPage(c, s)
    OBVIOUS
  <2>2. PICK h : h = AllocatedHandle(c.vmm, NewPage(c.vmm))
    OBVIOUS
  <2>3. PICK v : v = AllocPhysicalPage(c.vmm, NewPage(c.vmm))
    OBVIOUS
  <2>4. PICK k : k = Len(PagesOf(c, s))
    OBVIOUS
  <2>5. /\ c \in Accounted /\ Bookkept(c) /\ SoleOwner(c.vmm)
        /\ Enough => \A t \in Slots : NoHandle \notin Elements(PagesOf(c, t))
    BY DEF Exclusive
  <2>6. /\ c \in KVState /\ c.vmm \in PoolState
        /\ PagesOf(c, s) \in Seq(Handles \cup {NoHandle}) /\ k \in 0..SlotPages
    BY <2>4, <2>5, AccountedFacts
  <2>7. k \in Nat /\ k < SlotPages /\ k \in 0..(SlotPages - 1)
    BY <1>4, <2>4, <2>6, AddrFacts
  <2>8. d \in Accounted
    BY <1>4, <2>1, <2>5, AccountedKept DEF Kept
  <2>9. PICK a : a = <<s, k>>
    OBVIOUS
  <2>10. d.vmm = MapPage(v, a, h) /\ h \in Handles \cup {NoHandle}
         /\ PagesOf(d, s) = Append(PagesOf(c, s), h) /\ OthersAlike(c, d, s)
    <3>1. Len(PagesOf(c, s)) < SlotPages
      BY <1>4
    <3>2. d.vmm = MapPage(v, <<s, Len(PagesOf(c, s))>>, h) /\ h \in Handles \cup {NoHandle}
          /\ PagesOf(d, s) = Append(PagesOf(c, s), h) /\ OthersAlike(c, d, s)
      BY <2>1, <2>2, <2>3, <2>6, <3>1, AddPageEffect
    <3> QED BY <2>4, <2>9, <3>2
  <2>11. a \in Addrs /\ c.vmm.mapped_pages[a] = NoHandle
    <3>1. a \in Addrs
      BY <2>7, <2>9, AddrFacts
    <3>2. ~(k < Len(PagesOf(c, s)))
      BY <2>4, <2>7
    <3> QED BY <2>5, <2>7, <2>9, <3>1, <3>2 DEF Bookkept
  <2>12. /\ SoleOwner(d.vmm) /\ d.vmm.mapped_pages = [c.vmm.mapped_pages EXCEPT ![a] = h]
         /\ h = NoHandle => c.vmm.free_pages_pool = <<>> /\ Creatable(c.vmm) = {}
    BY <2>2, <2>3, <2>5, <2>6, <2>10, <2>11, AllocAndMap
  <2>13. /\ Len(PagesOf(d, s)) = k + 1 /\ PagesOf(d, s)[k + 1] = h
         /\ \A i \in 1..k : PagesOf(d, s)[i] = PagesOf(c, s)[i]
         /\ Elements(PagesOf(d, s)) = Elements(PagesOf(c, s)) \cup {h}
    <3>1. PICK p \in Seq(Handles \cup {NoHandle}) : p = PagesOf(c, s)
      BY <2>6
    <3>2. PICK q : q = PagesOf(d, s)
      OBVIOUS
    <3>3. q = Append(p, h) /\ Len(p) = k
      BY <2>4, <2>10, <3>1, <3>2
    <3>4. /\ Len(q) = k + 1 /\ q[k + 1] = h /\ \A i \in 1..k : q[i] = p[i]
          /\ DOMAIN q = 1..(k + 1) /\ DOMAIN p = 1..k
      BY <2>7, <2>10, <3>1, <3>3
    <3>5. Elements(q) = Elements(p) \cup {h}
      <4>1. ASSUME NEW x \in Elements(q) PROVE x \in Elements(p) \cup {h}
        BY <2>7, <3>4, <4>1 DEF Elements
      <4>2. ASSUME NEW x \in Elements(p) PROVE x \in Elements(q)
        BY <2>7, <3>4, <4>2 DEF Elements
      <4>3. h \in Elements(q)
        BY <2>7, <3>4 DEF Elements
      <4> QED BY <4>1, <4>2, <4>3
    <3> QED BY <3>1, <3>2, <3>4, <3>5
  <2>14. Bookkept(d)
    <3> SUFFICES ASSUME NEW t \in Slots, NEW i \in 0..(SlotPages - 1)
                 PROVE  d.vmm.mapped_pages[<<t, i>>] =
                          IF i < Len(PagesOf(d, t)) THEN PagesOf(d, t)[i + 1] ELSE NoHandle
      BY DEF Bookkept
    <3>1. /\ <<t, i>> \in Addrs
          /\ d.vmm.mapped_pages[<<t, i>>] = IF <<t, i>> = a THEN h ELSE c.vmm.mapped_pages[<<t, i>>]
      BY <2>6, <2>12, AddrFacts DEF PoolState
    <3>2. c.vmm.mapped_pages[<<t, i>>] =
            IF i < Len(PagesOf(c, t)) THEN PagesOf(c, t)[i + 1] ELSE NoHandle
      BY <2>5 DEF Bookkept
    <3>3. CASE t # s
      <4>1. PagesOf(d, t) = PagesOf(c, t) /\ <<t, i>> # a
        BY <2>9, <2>10, <3>3 DEF OthersAlike, PagesOf
      <4> QED BY <3>1, <3>2, <4>1
    <3>4. CASE t = s /\ i = k
      <4>1. <<t, i>> = a /\ k < k + 1
        BY <2>7, <2>9, <3>4
      <4> QED BY <2>13, <3>1, <3>4, <4>1
    <3>5. CASE t = s /\ i # k
      <4>1. <<t, i>> # a /\ (i < k + 1 <=> i < k) /\ (i < k => i + 1 \in 1..k)
        BY <2>7, <2>9, <3>5, AddrFacts
      <4> QED BY <2>4, <2>13, <3>1, <3>2, <3>5, <4>1
    <3> QED BY <3>3, <3>4, <3>5
  <2>15. Enough => \A t \in Slots : NoHandle \notin Elements(PagesOf(d, t))
    <3> SUFFICES ASSUME Enough, NEW t \in Slots PROVE NoHandle \notin Elements(PagesOf(d, t))
      OBVIOUS
    <3>1. h # NoHandle
      BY <2>5, <2>6, <2>11, <2>12, EnoughPages
    <3>2. CASE t = s
      BY <2>5, <2>13, <3>1, <3>2
    <3>3. CASE t # s
      <4>1. PagesOf(d, t) = PagesOf(c, t)
        BY <2>10, <3>3 DEF OthersAlike, PagesOf
      <4> QED BY <2>5, <4>1
    <3> QED BY <3>2, <3>3
  <2>16. d \in Exclusive
    BY <2>8, <2>12, <2>14, <2>15 DEF Exclusive
  <2> QED BY <2>1, <2>16
<1> QED BY <1>1, <1>2, <1>3, <1>4 DEF Kept

----------------------------------------------------------------------------
(***************************************************************************)
(* The cache before the first request, and pages taken over from the tree. *)
(***************************************************************************)
LEMMA InitialAccounted ==
  ASSUME NEW c, c = InitialKV(WarmPages)
  PROVE  /\ c \in Accounted
         /\ \A s \in Slots : ~c.paged_slots[s].active /\ PagesOf(c, s) = <<>>
<1>1. PICK v : v = EmptyPool(WarmPages)
  OBVIOUS
<1>2. v \in PoolState /\ v.total_mapped = 0 /\ \A a \in Addrs : v.mapped_pages[a] = NoHandle
  BY <1>1, SchedulerAssumption DEF EmptyPool, PoolState
<1>3. c = [vmm |-> v, paged_slots |-> [s \in Slots |-> FreeSlotRecord]]
  BY <1>1 DEF InitialKV
<1>4. FreeSlotRecord \in SlotType
  BY DEF FreeSlotRecord, SlotType
<1>5. c \in KVState /\ c.vmm = v /\ \A s \in Slots : c.paged_slots[s] = FreeSlotRecord
  BY <1>2, <1>3, <1>4 DEF KVState
<1>6. \A s \in Slots : ~c.paged_slots[s].active /\ PagesOf(c, s) = <<>>
  BY <1>5 DEF PagesOf, FreeSlotRecord
<1>7. MappedAddrs(v) = {}
  BY <1>2 DEF MappedAddrs
<1>8. Counts(v)
  BY <1>2, <1>7, FS_EmptySet DEF Counts
<1>9. \A s \in Slots : \A i \in 0..(SlotPages - 1) : c.vmm.mapped_pages[<<s, i>>] = NoHandle
  BY <1>2, <1>5, AddrFacts
<1>10. \A s \in Slots : Len(PagesOf(c, s)) <= SlotPages
  BY <1>6, AddrFacts
<1> QED BY <1>5, <1>6, <1>8, <1>9, <1>10 DEF Accounted

\* At first nothing is mapped.
LEMMA InitialExclusive ==
  ASSUME NEW c, c = InitialKV(WarmPages)
  PROVE  c \in Exclusive
<1>1. PICK v : v = EmptyPool(WarmPages)
  OBVIOUS
<1>2. /\ \A a \in Addrs : v.mapped_pages[a] = NoHandle
      /\ \A h \in Handles : v.handle_refcounts[h] = 0
      /\ v.free_pages_pool = <<>> /\ v.driver = {}
  BY <1>1 DEF EmptyPool
<1>3. \A h \in Handles : ~Mapped(v, h)
  BY <1>2, NoHandleAssumption DEF Mapped
<1>4. MappedOnce(v)
  BY <1>2 DEF MappedOnce, MappedAddrs
<1>5. Pooled(v) = {} /\ Distinct(v.free_pages_pool)
  BY <1>2 DEF Pooled, Distinct
<1>6. SoleOwner(v)
  BY <1>2, <1>3, <1>4, <1>5 DEF SoleOwner
<1>7. c.vmm = v
  BY <1>1 DEF InitialKV
<1>8. c \in Accounted /\ \A s \in Slots : PagesOf(c, s) = <<>>
  BY InitialAccounted
<1>9. Bookkept(c)
  <2>1. \A s \in Slots : \A i \in 0..(SlotPages - 1) : ~(i < Len(PagesOf(c, s)))
    BY <1>8, AddrFacts
  <2>2. \A s \in Slots : \A i \in 0..(SlotPages - 1) : c.vmm.mapped_pages[<<s, i>>] = NoHandle
    BY <1>2, <1>7, AddrFacts
  <2> QED BY <2>1, <2>2 DEF Bookkept
<1>10. \A s \in Slots : NoHandle \notin Elements(PagesOf(c, s))
  BY <1>8 DEF Elements
<1> QED BY <1>6, <1>7, <1>8, <1>9, <1>10 DEF Exclusive

\* Taking over a list of pages.
LEMMA MapExistingPagesEffect ==
  ASSUME NEW K, Kept(K), TakesPages(K), NEW c \in K, NEW s \in Slots, c.paged_slots[s].active,
         NEW handles, NEW len \in 0..SlotPages, len = Len(handles),
         \A n \in 1..len : handles[n] \in Handles \cup {NoHandle},
         NEW d, d = MapExistingPages(c, s, handles)
  PROVE  d \in K /\ d.paged_slots[s].active /\ OthersAlike(c, d, s)
<1> DEFINE X == [n \in 0..len |-> {x \in K : /\ x.paged_slots[s].active
                                            /\ n <= Len(PagesOf(x, s))
                                            /\ OthersAlike(c, x, s)}]
<1>1. len \in Nat /\ SlotPages \in Nat
  BY AddrFacts
<1>2. c \in X[0]
  <2>1. 0 <= Len(PagesOf(c, s))
    BY SlotFacts, AddrFacts
  <2> QED BY <1>1, <2>1 DEF OthersAlike
<1>3. ASSUME NEW n \in 1..len, NEW x \in X[n - 1]
      PROVE  MapExistingPage(x, s, n, handles[n]) \in X[n]
  <2>1. n \in 0..len /\ n - 1 \in 0..len /\ n \in 1..SlotPages /\ n \in Nat
    BY <1>1
  <2>2. x \in K /\ x.paged_slots[s].active /\ n - 1 <= Len(PagesOf(x, s)) /\ OthersAlike(c, x, s)
    BY <2>1
  <2>3. PICK h \in Handles \cup {NoHandle} : h = handles[n]
    OBVIOUS
  <2>4. PICK y : y = MapExistingPage(x, s, n, h)
    OBVIOUS
  <2>5. y \in K
    BY <2>1, <2>2, <2>4 DEF TakesPages
  <2>6. x \in KVState /\ Counts(x.vmm) /\ Len(PagesOf(x, s)) \in 0..SlotPages
    BY <2>2, SlotFacts DEF Accounted
  <2>7. TakesPage(x, y, s, n)
    <3>1. n - 1 <= Len(PagesOf(x, s))
      BY <2>2
    <3>2. x \in KVState /\ Counts(x.vmm)
      BY <2>6
    <3> QED BY <2>1, <2>4, <3>1, <3>2, MapExistingEffect
  <2>8. /\ y.paged_slots[s].active
        /\ Len(PagesOf(y, s)) = IF n <= Len(PagesOf(x, s)) THEN Len(PagesOf(x, s)) ELSE n
        /\ OthersAlike(x, y, s)
    BY <2>2, <2>7 DEF TakesPage
  <2>9. n <= Len(PagesOf(y, s))
    BY <2>1, <2>6, <2>8, AddrFacts
  <2>10. OthersAlike(c, y, s)
    BY <2>2, <2>8 DEF OthersAlike
  <2> QED BY <2>1, <2>3, <2>4, <2>5, <2>8, <2>9, <2>10
<1>4. d \in X[len]
  <2> HIDE DEF X
  <2> QED BY <1>1, <1>2, <1>3, MapExistingLoop
<1> QED BY <1>1, <1>4

\* Taking over no page.
LEMMA MapNoPages ==
  ASSUME NEW c, NEW s, NEW handles, Len(handles) = 0, NEW d, d = MapExistingPages(c, s, handles)
  PROVE  d = c
<1>1. PICK X : X = [n \in 0..0 |-> {c}]
  OBVIOUS
<1>2. c \in X[0] /\ X[0] = {c}
  BY <1>1
<1>3. 0 \in Nat /\ 0 = Len(handles)
  OBVIOUS
<1>4. \A n \in 1..0 : \A x \in X[n - 1] : MapExistingPage(x, s, n, handles[n]) \in X[n]
  OBVIOUS
<1>5. d \in X[0]
  BY <1>2, <1>3, <1>4, MapExistingLoop
<1> QED BY <1>2, <1>5

----------------------------------------------------------------------------
(***************************************************************************)
(* The tree: what matching, inserting and releasing do to the pages and    *)
(* the counts of its nodes.                                                *)
(***************************************************************************)
IsNode(x) ==
  /\ x = [token_chunk |-> x.token_chunk, page |-> x.page, ref_count |-> x.ref_count,
          last_accessed |-> x.last_accessed]
  /\ x.page \in Handles \cup {NoHandle}
  /\ x.ref_count \in Nat

PagedTree(t) ==
  /\ t = [nodes |-> t.nodes, current_tick |-> t.current_tick]
  /\ \A q \in Paths(t) : IsNode(t.nodes[q])

Refs(t, q) == t.nodes[q].ref_count

\* The first n pages of a prompt as a path.
LEMMA PathFacts ==
  ASSUME NEW prompt \in Seq(Chunks), NEW n \in 0..Len(prompt)
  PROVE  PathOf(prompt, n) \in Seq(Range(Hash)) /\ Len(PathOf(prompt, n)) = n
<1>1. n \in Nat /\ \A i \in 1..n : prompt[i] \in Chunks
  OBVIOUS
<1>2. \A i \in 1..n : Hash[prompt[i]] \in Range(Hash)
  BY <1>1, SchedulerAssumption DEF Range
<1>3. PathOf(prompt, n) \in [1..n -> Range(Hash)]
  BY <1>2 DEF PathOf
<1> QED BY <1>1, <1>3

\* The nodes matched are nodes of the tree, on the path of the prompt.
LEMMA MatchedNodes ==
  ASSUME NEW t, NEW prompt \in Seq(Chunks), NEW nodes, nodes = MatchedPaths(t, prompt)
  PROVE  /\ nodes \in Seq(Seq(Range(Hash))) /\ Len(nodes) \in 0..Len(prompt)
         /\ \A i \in 1..Len(nodes) : nodes[i] = PathOf(prompt, i) /\ nodes[i] \in Paths(t)
<1> DEFINE Rows == {n \in 0..Len(prompt) : \A i \in 1..n : MatchesPage(t, prompt, i)}
<1>1. Len(prompt) \in Nat /\ Rows \in SUBSET (0..Len(prompt)) /\ 0 \in Rows
  OBVIOUS
<1>2. PICK m : m = MatchedPages(t, prompt)
  OBVIOUS
<1>3. m = Max(Rows)
  BY <1>2 DEF MatchedPages
<1>4. m \in Rows
  <2> HIDE DEF Rows
  <2> QED BY <1>1, <1>3, LargestElement
<1>5. m \in 0..Len(prompt) /\ \A i \in 1..m : PathOf(prompt, i) \in Paths(t)
  BY <1>4 DEF MatchesPage
<1>6. nodes = [i \in 1..m |-> PathOf(prompt, i)]
  BY <1>2 DEF MatchedPaths
<1>7. \A i \in 1..m : PathOf(prompt, i) \in Seq(Range(Hash))
  BY <1>1, <1>5, PathFacts
<1>8. m \in Nat
  BY <1>1, <1>5
<1> HIDE DEF Rows
<1>9. nodes \in [1..m -> Seq(Range(Hash))]
  BY <1>6, <1>7
<1>10. nodes \in Seq(Seq(Range(Hash))) /\ Len(nodes) = m
  BY <1>8, <1>9
<1> QED BY <1>5, <1>6, <1>10

\* A node with another clock and count.
Changed(x, k, r) == [x EXCEPT !.last_accessed = k, !.ref_count = r]

\* Changing a field of one node.
LEMMA ChangedNode ==
  ASSUME NEW x, IsNode(x), NEW k, NEW r \in Nat, NEW y, y = Changed(x, k, r)
  PROVE  IsNode(y) /\ y.page = x.page /\ y.ref_count = r
<1>1. y = [token_chunk |-> x.token_chunk, page |-> x.page, ref_count |-> r, last_accessed |-> k]
  BY DEF IsNode, Changed
<1> QED BY <1>1 DEF IsNode

\* Nodes that are changed or added.
LEMMA NewNodes ==
  ASSUME NEW t, PagedTree(t), NEW S, NEW f, DOMAIN f = Paths(t) \cup S,
         \A q \in S : IsNode(f[q]), \A q \in Paths(t) \ S : f[q] = t.nodes[q],
         NEW k, NEW u, u = [nodes |-> f, current_tick |-> k]
  PROVE  PagedTree(u) /\ Paths(u) = Paths(t) \cup S
<1>1. u.nodes = f /\ Paths(u) = Paths(t) \cup S
  BY DEF Paths
<1>2. \A q \in Paths(u) : IsNode(u.nodes[q])
  BY <1>1 DEF PagedTree
<1> QED BY <1>1, <1>2 DEF PagedTree

\* Touching nodes.
LEMMA TouchEffect ==
  ASSUME NEW t, PagedTree(t), NEW paths, Elements(paths) \subseteq Paths(t), NEW refs \in Nat,
         NEW u, u = Touch(t, paths, refs)
  PROVE  /\ PagedTree(u) /\ Paths(u) = Paths(t)
         /\ \A q \in Paths(t) :
              Refs(u, q) = IF q \in Elements(paths) THEN Refs(t, q) + refs ELSE Refs(t, q)
<1> DEFINE S == Elements(paths)
           node(q) == [t.nodes[q] EXCEPT !.last_accessed = t.current_tick + Len(q),
                                         !.ref_count = @ + refs]
           f == [q \in Paths(t) \cup S |-> IF q \in S THEN node(q) ELSE t.nodes[q]]
           k == t.current_tick + Len(paths)
<1>1. t = [nodes |-> t.nodes, current_tick |-> t.current_tick] /\ DOMAIN t.nodes = Paths(t)
  BY DEF PagedTree, Paths
<1>2. u = [[t EXCEPT !.nodes = [q \in DOMAIN @ \cup S |-> IF q \in S THEN node(q) ELSE @[q]]]
              EXCEPT !.current_tick = @ + Len(paths)]
  BY DEF Touch, WithNodes, Elements
<1>3. u = [nodes |-> f, current_tick |-> k]
  <2> HIDE DEF S
  <2> QED BY <1>1, <1>2
<1>4. ASSUME NEW q \in S
      PROVE  q \in Paths(t) /\ IsNode(f[q]) /\ f[q].ref_count = t.nodes[q].ref_count + refs
  <2>1. q \in Paths(t) /\ IsNode(t.nodes[q])
    BY DEF PagedTree
  <2>2. t.nodes[q].ref_count + refs \in Nat
    BY <2>1 DEF IsNode
  <2>3. f[q] = [t.nodes[q] EXCEPT !.last_accessed = t.current_tick + Len(q),
                                  !.ref_count = t.nodes[q].ref_count + refs]
    <3> HIDE DEF S
    <3> QED OBVIOUS
  <2> HIDE DEF f, S
  <2>4. PICK x : x = t.nodes[q]
    OBVIOUS
  <2>5. PICK y : y = f[q]
    OBVIOUS
  <2>6. PICK r \in Nat : r = t.nodes[q].ref_count + refs
    BY <2>2
  <2>7. y = Changed(x, t.current_tick + Len(q), r)
    BY <2>3, <2>4, <2>5, <2>6 DEF Changed
  <2>8. IsNode(x)
    BY <2>1, <2>4
  <2>9. IsNode(y) /\ y.ref_count = r
    BY <2>6, <2>7, <2>8, ChangedNode
  <2> QED BY <2>1, <2>5, <2>6, <2>9
<1>5. DOMAIN f = Paths(t) \cup S /\ \A q \in Paths(t) \ S : f[q] = t.nodes[q]
  OBVIOUS
<1>6. u.nodes = f
  <2> HIDE DEF f, k
  <2> QED BY <1>3
<1> HIDE DEF f, k, S
<1>7. PagedTree(u) /\ Paths(u) = Paths(t) \cup S
  BY <1>3, <1>4, <1>5, NewNodes
<1>8. Paths(u) = Paths(t)
  BY <1>4, <1>7
<1> QED BY <1>4, <1>5, <1>6, <1>7, <1>8 DEF Refs, S

\* Releasing nodes.
LEMMA ReleaseNodesEffect ==
  ASSUME NEW t, PagedTree(t), NEW paths, NEW u, u = ReleaseNodes(t, paths)
  PROVE  /\ PagedTree(u) /\ Paths(u) = Paths(t)
         /\ \A q \in Paths(t) :
              Refs(u, q) = IF q \in Elements(paths) /\ Refs(t, q) > 0 THEN Refs(t, q) - 1
                           ELSE Refs(t, q)
<1> DEFINE S == Elements(paths) \cap Paths(t)
           node(q) == [t.nodes[q] EXCEPT !.ref_count = IF @ > 0 THEN @ - 1 ELSE 0]
           f == [q \in Paths(t) \cup S |-> IF q \in S THEN node(q) ELSE t.nodes[q]]
<1>1. t = [nodes |-> t.nodes, current_tick |-> t.current_tick] /\ DOMAIN t.nodes = Paths(t)
  BY DEF PagedTree, Paths
<1>2. u = [t EXCEPT !.nodes = [q \in DOMAIN @ \cup S |-> IF q \in S THEN node(q) ELSE @[q]]]
  BY DEF ReleaseNodes, WithNodes, Elements
<1>3. u = [nodes |-> f, current_tick |-> t.current_tick]
  <2> HIDE DEF S
  <2> QED BY <1>1, <1>2
<1>4. ASSUME NEW q \in S
      PROVE  /\ IsNode(f[q])
             /\ f[q].ref_count = IF Refs(t, q) > 0 THEN Refs(t, q) - 1 ELSE Refs(t, q)
  <2>1. q \in Paths(t) /\ IsNode(t.nodes[q])
    BY DEF PagedTree
  <2>2. PICK x : x = t.nodes[q]
    OBVIOUS
  <2>3. PICK r : r = IF x.ref_count > 0 THEN x.ref_count - 1 ELSE 0
    OBVIOUS
  <2>4. r \in Nat /\ r = IF Refs(t, q) > 0 THEN Refs(t, q) - 1 ELSE Refs(t, q)
    BY <2>1, <2>2, <2>3 DEF IsNode, Refs
  <2>5. f[q] = node(q)
    <3> HIDE DEF S
    <3> QED OBVIOUS
  <2>6. PICK y : y = f[q]
    OBVIOUS
  <2>7. y = [x EXCEPT !.ref_count = r]
    BY <2>2, <2>3, <2>5, <2>6
  <2>8. y = Changed(x, x.last_accessed, r)
    BY <2>1, <2>2, <2>7 DEF IsNode, Changed
  <2> HIDE DEF f, S
  <2>9. IsNode(x)
    BY <2>1, <2>2
  <2>10. IsNode(y) /\ y.ref_count = r
    BY <2>4, <2>8, <2>9, ChangedNode
  <2> QED BY <2>4, <2>6, <2>10
<1>5. DOMAIN f = Paths(t) \cup S /\ \A q \in Paths(t) \ S : f[q] = t.nodes[q]
  OBVIOUS
<1>6. u.nodes = f
  <2> HIDE DEF f
  <2> QED BY <1>3
<1>7. S \subseteq Paths(t) /\ \A q \in Paths(t) : q \in S <=> q \in Elements(paths)
  OBVIOUS
<1> HIDE DEF f, S
<1>8. PagedTree(u) /\ Paths(u) = Paths(t) \cup S
  BY <1>3, <1>4, <1>5, NewNodes
<1> QED BY <1>4, <1>5, <1>6, <1>7, <1>8 DEF Refs

\* Inserting a prompt behind its first a pages adds nodes without references.
LEMMA InsertEffect ==
  ASSUME NEW t, PagedTree(t), NEW prompt \in Seq(Chunks), NEW a \in 0..Len(prompt),
         NEW pages, Len(pages) = Len(prompt) - a,
         \A j \in 1..(Len(prompt) - a) : pages[j] \in Handles \cup {NoHandle},
         NEW u, u = InsertPrefix(t, prompt, a, pages)
  PROVE  /\ PagedTree(u) /\ Paths(t) \subseteq Paths(u)
         /\ \A q \in Paths(u) : Refs(u, q) = IF q \in Paths(t) THEN Refs(t, q) ELSE 0
<1> DEFINE n == Len(prompt)
           row == {PathOf(prompt, a + j) : j \in 1..(n - a)}
           node(q) == IF q \in Paths(t)
                      THEN [t.nodes[q] EXCEPT !.last_accessed = t.current_tick + Len(q) - a]
                      ELSE NewNode(prompt, a, pages, Len(q), t.current_tick + Len(q) - a)
           f == [q \in Paths(t) \cup row |-> IF q \in row THEN node(q) ELSE t.nodes[q]]
           k == t.current_tick + (n - a)
<1>1. /\ n \in Nat /\ a \in Nat /\ a <= n /\ n - a \in Nat
      /\ t = [nodes |-> t.nodes, current_tick |-> t.current_tick] /\ DOMAIN t.nodes = Paths(t)
  BY DEF PagedTree, Paths
<1>2. CASE u = t
  BY <1>2
<1>3. CASE u # t
  <2>1. Min({a + Len(pages), n}) = n
    <3>1. {a + Len(pages), n} = {n}
      BY <1>1
    <3>2. Min({n}) = n
      BY <1>1 DEF Min
    <3> HIDE DEF n
    <3> QED BY <3>1, <3>2
  <2>2. u = [nodes |-> f, current_tick |-> k]
    <3> DEFINE last == Min({a + Len(pages), n})
               added == [j \in 1..(last - a) |-> PathOf(prompt, a + j)]
               walked == {added[j] : j \in DOMAIN added}
    <3>1. u = [[t EXCEPT !.nodes = [q \in DOMAIN @ \cup walked |-> IF q \in walked THEN node(q) ELSE @[q]]]
                 EXCEPT !.current_tick = @ + Len(added)]
      BY <1>3 DEF InsertPrefix, WithNodes
    <3>2. added = [j \in 1..(n - a) |-> PathOf(prompt, a + j)]
      BY <2>1
    <3> HIDE DEF added, n
    <3>3. DOMAIN added = 1..(n - a) /\ Len(added) = n - a
          /\ \A j \in 1..(n - a) : added[j] = PathOf(prompt, a + j)
      BY <1>1, <3>2
    <3>4. walked = row
      BY <3>3
    <3> HIDE DEF walked, row
    <3>5. u = [[t EXCEPT !.nodes = [q \in DOMAIN @ \cup row |-> IF q \in row THEN node(q) ELSE @[q]]]
                 EXCEPT !.current_tick = @ + (n - a)]
      BY <3>1, <3>3, <3>4
    <3> QED BY <1>1, <3>5
  <2>3. ASSUME NEW q \in row
        PROVE  IsNode(f[q]) /\ f[q].ref_count = IF q \in Paths(t) THEN Refs(t, q) ELSE 0
    <3>1. PICK j \in 1..(n - a) : q = PathOf(prompt, a + j)
      OBVIOUS
    <3>2. a + j \in 0..n /\ a + j - a = j
      BY <1>1
    <3>3. Len(q) = a + j
      BY <3>1, <3>2, PathFacts
    <3>4. f[q] = node(q)
      <4> HIDE DEF row
      <4> QED OBVIOUS
    <3>5. PICK y : y = f[q]
      OBVIOUS
    <3> HIDE DEF f
    <3>6. CASE q \in Paths(t)
      <4>1. PICK x : x = t.nodes[q]
        OBVIOUS
      <4>2. IsNode(x) /\ x.ref_count \in Nat
        BY <3>6, <4>1 DEF PagedTree, IsNode
      <4>3. PICK c : c = t.current_tick + Len(q) - a
        OBVIOUS
      <4>4. y = [x EXCEPT !.last_accessed = c]
        BY <3>4, <3>5, <3>6, <4>1, <4>3
      <4>5. y = Changed(x, c, x.ref_count)
        BY <4>2, <4>4 DEF IsNode, Changed
      <4>6. IsNode(y) /\ y.ref_count = x.ref_count
        BY <4>2, <4>5, ChangedNode
      <4> QED BY <3>5, <3>6, <4>1, <4>6 DEF Refs
    <3>7. CASE q \notin Paths(t)
      <4>1. y = NewNode(prompt, a, pages, a + j, t.current_tick + Len(q) - a)
        BY <3>3, <3>4, <3>5, <3>7
      <4>2. pages[a + j - a] \in Handles \cup {NoHandle}
        BY <3>2
      <4>3. /\ y = [token_chunk |-> prompt[a + j], page |-> pages[a + j - a], ref_count |-> 0,
                    last_accessed |-> t.current_tick + Len(q) - a]
        BY <4>1 DEF NewNode
      <4>4. IsNode(y) /\ y.ref_count = 0
        BY <4>2, <4>3 DEF IsNode
      <4> QED BY <3>5, <3>7, <4>4
    <3> QED BY <3>6, <3>7
  <2>4. DOMAIN f = Paths(t) \cup row /\ \A q \in Paths(t) \ row : f[q] = t.nodes[q]
    <3> HIDE DEF row
    <3> QED OBVIOUS
  <2>5. u.nodes = f
    <3> HIDE DEF f, k
    <3> QED BY <2>2
  <2> HIDE DEF f, k, row
  <2>6. PagedTree(u) /\ Paths(u) = Paths(t) \cup row
    <3>1. \A q \in row : IsNode(f[q])
      BY <2>3
    <3>2. DOMAIN f = Paths(t) \cup row
      BY <2>4
    <3>3. \A q \in Paths(t) \ row : f[q] = t.nodes[q]
      BY <2>4
    <3>4. u.nodes = f /\ u = [nodes |-> u.nodes, current_tick |-> u.current_tick]
      BY <2>2
    <3>5. Paths(u) = Paths(t) \cup row
      BY <3>2, <3>4 DEF Paths
    <3>6. \A q \in Paths(u) : IsNode(u.nodes[q])
      BY <3>1, <3>3, <3>4, <3>5 DEF PagedTree
    <3> QED BY <3>4, <3>5, <3>6 DEF PagedTree
  <2> QED BY <2>3, <2>4, <2>5, <2>6 DEF Refs
<1> QED BY <1>2, <1>3

----------------------------------------------------------------------------
(***************************************************************************)
(* The nodes that requests hold.                                           *)
(***************************************************************************)
Held(id) == all_requests[id].matched_radix_nodes

Holders(q) == {id \in 1..Submitted : q \in Elements(Held(id))}

RunsInSlot(id) == \E s \in Active : active_slots[s] = id

\* Only running requests hold nodes, and these are in the tree.
NodesHeld ==
  \A id \in 1..Submitted :
    /\ Held(id) \in Seq(Seq(Range(Hash)))
    /\ Elements(Held(id)) \subseteq Paths(tree)
    /\ RunsInSlot(id) \/ Held(id) = <<>>

NodesCounted ==
  /\ PagedTree(tree)
  /\ \A q \in Paths(tree) : Refs(tree, q) = Cardinality(Holders(q))

\* Requests ask for what add_request accepts.
RequestsKnown ==
  \A id \in 1..Submitted : /\ all_requests[id].prompt \in Prompts
                           /\ all_requests[id].max_new_tokens \in MaxNewTokens

NodesInv == NodesHeld /\ NodesCounted /\ RequestsKnown

\* A request without nodes.
LEMMA NoElements == Elements(<<>>) = {}
BY DEF Elements

\* There are only finitely many requests.
LEMMA HoldersFinite ==
  ASSUME IInv, NEW q
  PROVE  IsFiniteSet(Holders(q)) /\ Cardinality(Holders(q)) \in Nat
<1>1. Submitted \in Nat
  BY DEF IInv, RequestList
<1>2. IsFiniteSet(1..Submitted)
  BY <1>1, FS_Interval
<1>3. Holders(q) \in SUBSET (1..Submitted)
  BY DEF Holders
<1> QED BY <1>2, <1>3, FS_Subset, FS_CardinalityType

\* At first there are neither requests nor nodes.
LEMMA NodesInit == Init => NodesInv
<1> SUFFICES ASSUME Init PROVE NodesInv
  OBVIOUS
<1>1. Submitted = 0
  BY DEF Init, Submitted
<1>2. NodesHeld /\ RequestsKnown
  BY <1>1 DEF NodesHeld, RequestsKnown
<1>3. tree.nodes = <<>> /\ tree = [nodes |-> <<>>, current_tick |-> 0]
  BY DEF Init, EmptyTree
<1>4. Paths(tree) = {}
  BY <1>3 DEF Paths
<1>5. NodesCounted
  BY <1>3, <1>4 DEF NodesCounted, PagedTree
<1> QED BY <1>2, <1>5 DEF NodesInv

\* Nothing changes for the nodes and the requests that hold them.
LEMMA OtherNodes ==
  ASSUME NodesInv, UNCHANGED <<all_requests, active_slots, tree>>
  PROVE  NodesInv'
BY DEF NodesInv, NodesHeld, NodesCounted, RequestsKnown, Held, Holders, RunsInSlot, Active,
       Submitted

\* A new request holds nothing.
LEMMA AddRequestNodes ==
  ASSUME IInv, NodesInv, NEW prompt \in Prompts, NEW max_new \in MaxNewTokens,
         AddRequest(prompt, max_new)
  PROVE  NodesInv'
<1>1. PICK n \in Nat : n = Submitted
  BY DEF IInv, RequestList
<1>0. PICK m : m = n + 1
  OBVIOUS
<1>2. /\ Submitted' = m
      /\ \A id \in 1..n : all_requests'[id] = all_requests[id]
      /\ active_slots' = active_slots
  BY <1>0, <1>1, AddRequestEffect
<1>3. all_requests'[m] =
        [prompt |-> prompt, max_new_tokens |-> max_new, generated |-> 0,
         finish_reason |-> "", matched_radix_nodes |-> <<>>]
  BY <1>0, <1>1, AddRequestEffect
<1>4. tree' = tree
  BY DEF AddRequest
<1>5. \A id \in 1..m : id \in 1..n \/ id = m
  BY <1>0, <1>1
<1>6. \A id \in 1..n : Held(id)' = Held(id)
  BY <1>2 DEF Held
<1>13. /\ all_requests'[m].matched_radix_nodes = <<>> /\ all_requests'[m].prompt = prompt
       /\ all_requests'[m].max_new_tokens = max_new
  <2>1. PICK x : x = all_requests'[m]
    OBVIOUS
  <2>2. x = [prompt |-> prompt, max_new_tokens |-> max_new, generated |-> 0,
             finish_reason |-> "", matched_radix_nodes |-> <<>>]
    BY <1>3, <2>1
  <2>3. x.matched_radix_nodes = <<>> /\ x.prompt = prompt /\ x.max_new_tokens = max_new
    BY <2>2
  <2> QED BY <2>1, <2>3
<1>7. Held(m)' = <<>>
  BY <1>13 DEF Held
<1>8. \A id : RunsInSlot(id)' <=> RunsInSlot(id)
  BY <1>2 DEF RunsInSlot, Active
<1>9. NodesHeld'
  <2>1. ASSUME NEW id \in 1..m
        PROVE  /\ Held(id)' \in Seq(Seq(Range(Hash)))
               /\ Elements(Held(id)') \subseteq Paths(tree)
               /\ RunsInSlot(id)' \/ Held(id)' = <<>>
    <3>1. CASE id \in 1..n
      BY <1>1, <1>6, <1>8, <3>1 DEF NodesInv, NodesHeld
    <3>2. CASE id = m
      BY <1>7, <3>2, NoElements, EmptySeq
    <3> QED BY <1>5, <3>1, <3>2
  <2> QED BY <1>2, <1>4, <2>1 DEF NodesHeld
<1>10. RequestsKnown'
  <2>1. ASSUME NEW id \in 1..m
        PROVE  all_requests'[id].prompt \in Prompts /\ all_requests'[id].max_new_tokens \in MaxNewTokens
    <3>1. CASE id \in 1..n
      BY <1>1, <1>2, <3>1 DEF NodesInv, RequestsKnown
    <3>2. CASE id = m
      BY <1>13, <3>2
    <3> QED BY <1>5, <3>1, <3>2
  <2> QED BY <1>2, <2>1 DEF RequestsKnown
<1>11. ASSUME NEW q PROVE Holders(q)' = Holders(q)
  <2>1. Holders(q) = {id \in 1..n : q \in Elements(Held(id))}
    BY <1>1 DEF Holders
  <2>2. Holders(q)' = {id \in 1..m : q \in Elements(Held(id)')}
    BY <1>2 DEF Holders
  <2>3. q \notin Elements(Held(m)')
    BY <1>7, NoElements
  <2>4. \A id \in 1..n : id \in 1..m
    BY <1>0, <1>1
  <2> QED BY <1>5, <1>6, <2>1, <2>2, <2>3, <2>4
<1>12. NodesCounted'
  BY <1>4, <1>11 DEF NodesInv, NodesCounted
<1> QED BY <1>9, <1>10, <1>12 DEF NodesInv

----------------------------------------------------------------------------
(***************************************************************************)
(* What the admission of a request does: it matches and retains nodes,     *)
(* backs the slot and inserts the prompt, and a request that ends with its *)
(* first token gives up its nodes and its slot.                            *)
(***************************************************************************)
HeadPrompt == all_requests[Head(pending_queue)].prompt

HeadNodes == IF prefix_caching_enabled THEN MatchedPaths(tree, HeadPrompt) ELSE <<>>

HeadHandles == [i \in DOMAIN HeadNodes |-> tree.nodes[HeadNodes[i]].page]

HeadMapped == MapExistingPages(AllocSlot(kv, AvailableSlot), AvailableSlot, HeadHandles)

HeadBacked == EnsureTokens(HeadMapped, AvailableSlot)

HeadPages == ExtractPageHandles(HeadBacked, AvailableSlot, Len(HeadNodes), Len(HeadPrompt))

HeadRetained == RetainNodes(MatchPrefix(tree, HeadPrompt), HeadNodes)

HeadIndexed ==
  IF prefix_caching_enabled
  THEN InsertPrefix(HeadRetained, HeadPrompt, Len(HeadNodes), HeadPages)
  ELSE tree

AdmitsCache(z) ==
  /\ z.matched_radix_nodes = IF Finished(z) THEN <<>> ELSE HeadNodes
  /\ kv' = IF Finished(z) THEN FreeSlot(HeadBacked, AvailableSlot) ELSE HeadBacked
  /\ tree' = IF Finished(z) THEN ReleaseNodes(HeadIndexed, HeadNodes) ELSE HeadIndexed

\* A token changes nothing about the nodes of a request.
LEMMA TokenNodes ==
  ASSUME NEW x, IsRequest(x), NEW eos
  PROVE  WithToken(x, eos).matched_radix_nodes = x.matched_radix_nodes
BY DEF IsRequest, WithToken

\* An iteration of the admission loop is such an admission.
LEMMA AdmitCacheEffect ==
  ASSUME IInv, Admit
  PROVE  \E z : AdmitsInto(z, AvailableSlot) /\ AdmitsCache(z)
<1>1. pending_queue # <<>>
  BY DEF Admit, CanAdmit
<1>2. PICK z : AdmitsInto(z, AvailableSlot)
  BY AdmitEffect
<1>3. PICK id : id = Head(pending_queue)
  OBVIOUS
<1>4. id = Admitted + 1 /\ IsRequest(all_requests[id]) /\ id \in DOMAIN all_requests
  <2>1. DOMAIN all_requests = 1..Submitted
    BY QueueFacts DEF IInv
  <2> QED BY <1>1, <1>3, <2>1, HeadFacts
<1> DEFINE Sampled(eos) ==
             WithToken([all_requests[id] EXCEPT !.matched_radix_nodes = HeadNodes], eos)
<1>5. PICK eos \in BOOLEAN :
        /\ all_requests' = [all_requests EXCEPT ![id] = Released(Sampled(eos))]
        /\ kv' = IF Finished(Sampled(eos)) THEN FreeSlot(HeadBacked, AvailableSlot) ELSE HeadBacked
        /\ tree' = IF Finished(Sampled(eos)) THEN ReleaseNodes(HeadIndexed, HeadNodes)
                   ELSE HeadIndexed
  BY <1>3 DEF Admit, HeadPrompt, HeadNodes, HeadHandles, HeadMapped, HeadBacked, HeadPages,
              HeadRetained, HeadIndexed
<1>6. z = Released(Sampled(eos))
  <2>1. all_requests' = [all_requests EXCEPT ![id] = z]
    BY <1>2, <1>4 DEF AdmitsInto
  <2> HIDE DEF Sampled
  <2> QED BY <1>4, <1>5, <2>1
<1>7. PICK x : x = [all_requests[id] EXCEPT !.matched_radix_nodes = HeadNodes]
  OBVIOUS
<1>8. PICK w : w = WithToken(x, eos)
  OBVIOUS
<1>9. w = Sampled(eos)
  BY <1>7, <1>8
<1> HIDE DEF Sampled
<1>10. IsRequest(x) /\ x.matched_radix_nodes = HeadNodes
  <2>1. IsRequest(x)
    BY <1>4, <1>7, NodesEffect
  <2> QED BY <1>4, <1>7, <2>1 DEF IsRequest
<1>11. IsRequest(w) /\ w.matched_radix_nodes = HeadNodes
  BY <1>8, <1>10, TokenEffect, TokenNodes
<1>12. z = Released(w)
  BY <1>6, <1>9
<1>13. Finished(z) <=> Finished(w)
  BY <1>11, <1>12, ReleasedEffect DEF Finished
<1>14. z.matched_radix_nodes = IF Finished(z) THEN <<>> ELSE HeadNodes
  BY <1>11, <1>12, <1>13 DEF Released, IsRequest
<1>15. AdmitsCache(z)
  BY <1>5, <1>9, <1>13, <1>14 DEF AdmitsCache
<1> QED BY <1>2, <1>15

\* The nodes that the first waiting request matches, and their pages.
LEMMA HeadNodesFacts ==
  ASSUME IInv, NodesInv, pending_queue # <<>>
  PROVE  /\ HeadPrompt \in Seq(Chunks) /\ Len(HeadPrompt) \in 0..SlotPages
         /\ HeadNodes \in Seq(Seq(Range(Hash))) /\ Len(HeadNodes) \in 0..Len(HeadPrompt)
         /\ Elements(HeadNodes) \subseteq Paths(tree)
         /\ Len(HeadHandles) = Len(HeadNodes)
         /\ \A i \in 1..Len(HeadNodes) : HeadHandles[i] \in Handles \cup {NoHandle}
         /\ ~prefix_caching_enabled => Len(HeadNodes) = 0
<1>1. PICK p : p = HeadPrompt
  OBVIOUS
<1>2. p \in Prompts
  BY <1>1, HeadFacts DEF HeadPrompt, NodesInv, RequestsKnown
<1>3. p \in Seq(Chunks) /\ Len(p) \in 0..SlotPages
  <2>1. p \in Seq(Chunks) /\ Len(p) <= SlotPages
    BY <1>2, SchedulerAssumption
  <2> QED BY <2>1, AddrFacts
<1>4. PICK nodes : nodes = HeadNodes
  OBVIOUS
<1>5. nodes \in Seq(Seq(Range(Hash))) /\ Len(nodes) \in 0..Len(p)
      /\ \A i \in 1..Len(nodes) : nodes[i] \in Paths(tree)
  <2>1. CASE prefix_caching_enabled
    <3>1. nodes = MatchedPaths(tree, p)
      BY <1>1, <1>4, <2>1 DEF HeadNodes
    <3> QED BY <1>3, <3>1, MatchedNodes
  <2>2. CASE ~prefix_caching_enabled
    <3>1. nodes = <<>> /\ Len(p) \in Nat
      BY <1>3, <1>4, <2>2 DEF HeadNodes
    <3> QED BY <3>1
  <2> QED BY <2>1, <2>2
<1>6. DOMAIN nodes = 1..Len(nodes) /\ Len(nodes) \in Nat
  BY <1>5
<1>7. Elements(nodes) \subseteq Paths(tree)
  BY <1>5, <1>6 DEF Elements
<1>8. PICK handles : handles = HeadHandles
  OBVIOUS
<1>9. handles = [i \in 1..Len(nodes) |-> tree.nodes[nodes[i]].page]
  BY <1>4, <1>6, <1>8 DEF HeadHandles
<1>10. \A i \in 1..Len(nodes) : handles[i] \in Handles \cup {NoHandle}
  BY <1>5, <1>9 DEF NodesInv, NodesCounted, PagedTree, IsNode
<1>11. Len(handles) = Len(nodes)
  <2>1. handles = [i \in 1..Len(nodes) |-> handles[i]]
    BY <1>9
  <2> QED BY <1>6, <2>1, ListLength
<1>12. ~prefix_caching_enabled => Len(nodes) = 0
  BY <1>4 DEF HeadNodes
<1> QED BY <1>1, <1>3, <1>4, <1>5, <1>7, <1>8, <1>10, <1>11, <1>12

----------------------------------------------------------------------------
(***************************************************************************)
(* The cache, for every set of states that the operations keep.            *)
(***************************************************************************)
CacheInv(K) ==
  /\ kv \in K
  /\ prefix_caching_enabled \in CachingSettings
  /\ ~destroyed /\ Active = {} => \A s \in Slots : ~kv.paged_slots[s].active
  /\ resets = 0 => \A s \in Active : Backed(kv, s)

\* Pages are taken over only when some are cached.
Suits(K) == Kept(K) /\ (NothingCached \/ TakesPages(K))

\* The slot of the admitted request is backed.
LEMMA HeadBackedEffect ==
  ASSUME NEW K, Suits(K), IInv, NodesInv, CacheInv(K), pending_queue # <<>>, Active # Slots
  PROVE  /\ HeadBacked \in K /\ Backed(HeadBacked, AvailableSlot)
         /\ OthersAlike(kv, HeadBacked, AvailableSlot)
         /\ AvailableSlot \in Slots /\ AvailableSlot \notin Active
<1>1. PICK slot \in Slots : slot = AvailableSlot /\ slot \notin Active
  BY SlotEffect
<1>2. Kept(K) /\ kv \in K
  BY DEF Suits, CacheInv
<1>3. PICK x : x = AllocSlot(kv, slot)
  OBVIOUS
<1>4. x \in K /\ x.paged_slots[slot].active /\ OthersAlike(kv, x, slot)
  <2>1. x \in K
    BY <1>2, <1>3 DEF Kept
  <2>2. kv \in KVState
    BY <1>2, SlotFacts
  <2>3. x.paged_slots[slot].active = TRUE /\ OthersAlike(kv, x, slot)
    BY <1>3, <2>2, AllocSlotEffect
  <2> QED BY <2>1, <2>3
<1>5. PICK handles : handles = HeadHandles
  OBVIOUS
<1>6. PICK y : y = MapExistingPages(x, slot, handles)
  OBVIOUS
<1>7. y \in K /\ y.paged_slots[slot].active /\ OthersAlike(x, y, slot)
  <2>1. PICK len : len = Len(handles)
    OBVIOUS
  <2>2. /\ len \in 0..SlotPages /\ (NothingCached => len = 0)
        /\ \A i \in 1..len : handles[i] \in Handles \cup {NoHandle}
    <3>1. /\ Len(HeadPrompt) \in 0..SlotPages /\ Len(HeadNodes) \in 0..Len(HeadPrompt)
          /\ len = Len(HeadNodes)
          /\ \A i \in 1..Len(HeadNodes) : HeadHandles[i] \in Handles \cup {NoHandle}
          /\ Elements(HeadNodes) \subseteq Paths(tree)
      BY <1>5, <2>1, HeadNodesFacts
    <3>2. ASSUME NothingCached PROVE len = 0
      <4>1. Elements(HeadNodes) = {}
        BY <3>1, <3>2 DEF NothingCached
      <4>2. HeadNodes \in Seq(Seq(Range(Hash)))
        BY HeadNodesFacts
      <4>3. Len(HeadNodes) # 0 => HeadNodes[1] \in Elements(HeadNodes)
        BY <4>2 DEF Elements
      <4> QED BY <3>1, <4>1, <4>3
    <3> QED BY <1>5, <3>1, <3>2, AddrFacts
  <2>3. CASE TakesPages(K)
    BY <1>2, <1>4, <1>6, <2>1, <2>2, <2>3, MapExistingPagesEffect
  <2>4. CASE NothingCached
    <3>1. Len(handles) = 0
      BY <2>1, <2>2, <2>4
    <3>2. y = x
      BY <1>6, <3>1, MapNoPages
    <3> QED BY <1>4, <3>2 DEF OthersAlike
  <2> QED BY <2>3, <2>4 DEF Suits
<1>8. PICK d : d = EnsureTokens(y, slot)
  OBVIOUS
<1>9. d \in K /\ Backed(d, slot) /\ OthersAlike(y, d, slot)
  BY <1>2, <1>7, <1>8, EnsureEffect
<1>10. d = HeadBacked
  BY <1>1, <1>3, <1>5, <1>6, <1>8 DEF HeadBacked, HeadMapped
<1>11. OthersAlike(kv, d, slot)
  BY <1>4, <1>7, <1>9 DEF OthersAlike
<1> QED BY <1>1, <1>9, <1>10, <1>11

\* The pages inserted into the tree.
LEMMA HeadPagesFacts ==
  ASSUME NEW K, Suits(K), IInv, NodesInv, CacheInv(K), pending_queue # <<>>, Active # Slots
  PROVE  /\ Len(HeadPages) = Len(HeadPrompt) - Len(HeadNodes)
         /\ \A j \in 1..(Len(HeadPrompt) - Len(HeadNodes)) :
              HeadPages[j] \in Handles \cup {NoHandle}
<1>1. PICK p : p = PagesOf(HeadBacked, AvailableSlot)
  OBVIOUS
<1>2. p \in Seq(Handles \cup {NoHandle}) /\ Len(p) = SlotPages
  <2>1. /\ HeadBacked \in K /\ Backed(HeadBacked, AvailableSlot) /\ AvailableSlot \in Slots
    BY HeadBackedEffect
  <2>2. p \in Seq(Handles \cup {NoHandle})
    BY <1>1, <2>1, SlotFacts DEF Suits
  <2> QED BY <1>1, <2>1, <2>2 DEF Backed
<1>3. PICK a : a = Len(HeadNodes)
  OBVIOUS
<1>4. PICK n : n = Len(HeadPrompt)
  OBVIOUS
<1>5. n \in 0..SlotPages /\ a \in 0..n /\ SlotPages \in Nat
  BY <1>3, <1>4, HeadNodesFacts, AddrFacts
<1>6. HeadPages = SubSeq(p, a + 1, n)
  BY <1>1, <1>3, <1>4 DEF HeadPages, ExtractPageHandles, PagesOf
<1>7. /\ a \in Nat /\ n \in Nat /\ a <= n /\ n <= Len(p) /\ n - a \in Nat
  BY <1>2, <1>5
<1>8. PICK q : q = SubSeq(p, a + 1, n)
  OBVIOUS
<1>9. q = [i \in 1..(n - a) |-> p[i + a]]
  <2>1. q = [i \in 1..(n - (a + 1) + 1) |-> p[i + (a + 1) - 1]]
    BY <1>2, <1>7, <1>8
  <2>2. n - (a + 1) + 1 = n - a /\ \A i \in 1..(n - a) : i + (a + 1) - 1 = i + a
    BY <1>7
  <2> QED BY <2>1, <2>2
<1>10. \A i \in 1..(n - a) : p[i + a] \in Handles \cup {NoHandle}
  <2>1. \A i \in 1..(n - a) : i + a \in 1..Len(p)
    BY <1>7
  <2> QED BY <1>2, <2>1
<1>11. Len(q) = n - a
  <2>1. q = [i \in 1..(n - a) |-> q[i]]
    BY <1>9
  <2> QED BY <1>7, <2>1, ListLength
<1>12. HeadPages = q
  BY <1>6, <1>8
<1>13. \A j \in 1..(n - a) : q[j] \in Handles \cup {NoHandle}
  BY <1>9, <1>10
<1> QED BY <1>3, <1>4, <1>11, <1>12, <1>13

\* An admission keeps the cache.
LEMMA AdmitCache ==
  ASSUME NEW K, Suits(K), IInv, NodesInv, CacheInv(K), Admit
  PROVE  CacheInv(K)'
<1>1. pending_queue # <<>> /\ Active # Slots
  BY DEF Admit, CanAdmit
<1>2. PICK slot : slot = AvailableSlot
  OBVIOUS
<1>3. PICK z : AdmitsInto(z, slot) /\ AdmitsCache(z)
  BY <1>2, AdmitCacheEffect
<1>4. PICK d : d = HeadBacked
  OBVIOUS
<1>5. /\ d \in K /\ Backed(d, slot) /\ OthersAlike(kv, d, slot) /\ slot \in Slots
      /\ slot \notin Active
  BY <1>1, <1>2, <1>4, HeadBackedEffect
<1>6. /\ \A s \in Active : active_slots'[s] = active_slots[s]
      /\ Active' = IF Finished(z) THEN Active ELSE Active \cup {slot}
  BY <1>1, <1>3, AdmitSlots
<1>7. kv' = IF Finished(z) THEN FreeSlot(d, slot) ELSE d
  BY <1>2, <1>3, <1>4 DEF AdmitsCache
<1>8. prefix_caching_enabled' = prefix_caching_enabled /\ destroyed' = destroyed /\ resets' = resets
  BY DEF Admit
<1>9. Active \subseteq Slots
  BY DEF Active
<1>10. kv' \in K /\ \A s \in Slots : s # slot => kv'.paged_slots[s] = kv.paged_slots[s]
  <2>1. CASE Finished(z)
    <3>1. kv' = FreeSlot(d, slot)
      BY <1>7, <2>1
    <3>2. kv' \in K /\ d \in KVState
      BY <1>5, <3>1, SlotFacts DEF Suits, Kept
    <3>3. kv'.paged_slots = [d.paged_slots EXCEPT ![slot] = FreeSlotRecord]
      BY <3>1, FreeSlotSlots
    <3>4. \A s \in Slots : s # slot => kv'.paged_slots[s] = d.paged_slots[s]
      BY <3>2, <3>3 DEF KVState
    <3> QED BY <1>5, <3>2, <3>4 DEF OthersAlike
  <2>2. CASE ~Finished(z)
    BY <1>5, <1>7, <2>2 DEF OthersAlike
  <2> QED BY <2>1, <2>2
<1>11. ASSUME ~destroyed', Active' = {}, NEW s \in Slots PROVE ~kv'.paged_slots[s].active
  <2>1. Finished(z) /\ Active = {} /\ ~destroyed
    BY <1>6, <1>8, <1>11
  <2>2. CASE s = slot
    <3>1. kv'.paged_slots = [d.paged_slots EXCEPT ![slot] = FreeSlotRecord]
      BY <1>7, <2>1, FreeSlotSlots
    <3>2. d \in KVState
      BY <1>5, SlotFacts DEF Suits
    <3>3. kv'.paged_slots[slot] = FreeSlotRecord
      BY <1>5, <3>1, <3>2 DEF KVState
    <3> QED BY <2>2, <3>3 DEF FreeSlotRecord
  <2>3. CASE s # slot
    <3>1. kv'.paged_slots[s] = kv.paged_slots[s]
      BY <1>10, <2>3
    <3> QED BY <2>1, <3>1 DEF CacheInv
  <2> QED BY <2>2, <2>3
<1>12. ASSUME resets' = 0, NEW s \in Active' PROVE Backed(kv', s)
  <2>1. resets = 0
    BY <1>8, <1>12
  <2>2. CASE s \in Active
    <3>1. Backed(kv, s) /\ s # slot /\ s \in Slots
      BY <1>5, <1>9, <2>1, <2>2 DEF CacheInv
    <3>2. kv'.paged_slots[s] = kv.paged_slots[s]
      BY <1>10, <3>1
    <3> QED BY <3>1, <3>2 DEF Backed, PagesOf
  <2>3. CASE s \notin Active
    <3>1. ~Finished(z) /\ s = slot
      BY <1>6, <1>12, <2>3
    <3> QED BY <1>5, <1>7, <3>1
  <2> QED BY <2>2, <2>3
<1> QED BY <1>8, <1>10, <1>11, <1>12 DEF CacheInv

\* What the admission does to the tree: it may add nodes that nobody holds, and
\* the request that starts to run holds the nodes it matched.
LEMMA HeadTreeEffect ==
  ASSUME NEW K, Suits(K), IInv, NodesInv, CacheInv(K), pending_queue # <<>>, Active # Slots
  PROVE  /\ PagedTree(HeadIndexed) /\ Paths(tree) \subseteq Paths(HeadIndexed)
         /\ \A q \in Paths(HeadIndexed) :
              Refs(HeadIndexed, q) = (IF q \in Paths(tree) THEN Refs(tree, q) ELSE 0)
                                     + (IF q \in Elements(HeadNodes) THEN 1 ELSE 0)
<1>1. PICK nodes : nodes = HeadNodes
  OBVIOUS
<1>2. PagedTree(tree) /\ Elements(nodes) \subseteq Paths(tree)
  BY <1>1, HeadNodesFacts DEF NodesInv, NodesCounted
<1>3. \A q \in Paths(tree) : Refs(tree, q) \in Nat
  BY <1>2 DEF PagedTree, IsNode, Refs
<1>4. CASE ~prefix_caching_enabled
  <2>1. HeadIndexed = tree /\ nodes = <<>>
    BY <1>1, <1>4 DEF HeadIndexed, HeadNodes
  <2>2. Elements(nodes) = {}
    BY <2>1, NoElements
  <2> QED BY <1>1, <1>2, <1>3, <2>1, <2>2
<1>5. CASE prefix_caching_enabled
  <2>1. PICK p \in Seq(Chunks) : p = HeadPrompt
    BY HeadNodesFacts
  <2>2. nodes = MatchedPaths(tree, p)
    BY <1>1, <1>5, <2>1 DEF HeadNodes
  <2>3. PICK m : m = MatchPrefix(tree, p)
    OBVIOUS
  <2>4. /\ PagedTree(m) /\ Paths(m) = Paths(tree)
        /\ \A q \in Paths(tree) : Refs(m, q) = Refs(tree, q)
    <3>1. m = Touch(tree, nodes, 0) /\ 0 \in Nat
      BY <2>2, <2>3 DEF MatchPrefix
    <3>2. /\ PagedTree(m) /\ Paths(m) = Paths(tree)
          /\ \A q \in Paths(tree) :
               Refs(m, q) = IF q \in Elements(nodes) THEN Refs(tree, q) + 0 ELSE Refs(tree, q)
      BY <1>2, <3>1, TouchEffect
    <3> QED BY <1>3, <3>2
  <2>5. PICK r : r = RetainNodes(m, nodes)
    OBVIOUS
  <2>6. /\ PagedTree(r) /\ Paths(r) = Paths(tree)
        /\ \A q \in Paths(tree) :
             Refs(r, q) = IF q \in Elements(nodes) THEN Refs(tree, q) + 1 ELSE Refs(tree, q)
    <3>1. r = Touch(m, nodes, 1) /\ 1 \in Nat /\ Elements(nodes) \subseteq Paths(m)
      BY <1>2, <2>4, <2>5 DEF RetainNodes
    <3>2. /\ PagedTree(r) /\ Paths(r) = Paths(m)
          /\ \A q \in Paths(m) :
               Refs(r, q) = IF q \in Elements(nodes) THEN Refs(m, q) + 1 ELSE Refs(m, q)
      BY <2>4, <3>1, TouchEffect
    <3> QED BY <2>4, <3>2
  <2>7. PICK a : a = Len(nodes)
    OBVIOUS
  <2>8. PICK pages : pages = HeadPages
    OBVIOUS
  <2>9. /\ a \in 0..Len(p) /\ Len(pages) = Len(p) - a
        /\ \A j \in 1..(Len(p) - a) : pages[j] \in Handles \cup {NoHandle}
    <3>1. a \in 0..Len(p)
      BY <1>1, <2>1, <2>7, HeadNodesFacts
    <3>2. /\ Len(HeadPages) = Len(HeadPrompt) - Len(HeadNodes)
          /\ \A j \in 1..(Len(HeadPrompt) - Len(HeadNodes)) : HeadPages[j] \in Handles \cup {NoHandle}
      BY HeadPagesFacts
    <3> QED BY <1>1, <2>1, <2>7, <2>8, <3>1, <3>2
  <2>10. PICK u : u = InsertPrefix(r, p, a, pages)
    OBVIOUS
  <2>11. /\ PagedTree(u) /\ Paths(r) \subseteq Paths(u)
         /\ \A q \in Paths(u) : Refs(u, q) = IF q \in Paths(r) THEN Refs(r, q) ELSE 0
    BY <2>6, <2>9, <2>10, InsertEffect
  <2>12. u = HeadIndexed
    BY <1>1, <1>5, <2>1, <2>3, <2>5, <2>7, <2>8, <2>10 DEF HeadIndexed, HeadRetained
  <2>13. \A q \in Paths(u) :
           Refs(u, q) = (IF q \in Paths(tree) THEN Refs(tree, q) ELSE 0)
                        + (IF q \in Elements(nodes) THEN 1 ELSE 0)
    <3>1. ASSUME NEW q \in Paths(u), q \in Paths(tree)
          PROVE  Refs(u, q) = Refs(tree, q) + (IF q \in Elements(nodes) THEN 1 ELSE 0)
      BY <1>3, <2>6, <2>11, <3>1
    <3>2. ASSUME NEW q \in Paths(u), q \notin Paths(tree)
          PROVE  Refs(u, q) = 0 /\ q \notin Elements(nodes)
      BY <1>2, <2>6, <2>11, <3>2
    <3> QED BY <1>3, <3>1, <3>2
  <2> QED BY <1>1, <2>6, <2>11, <2>12, <2>13
<1> QED BY <1>4, <1>5

\* The tree after the admission.
LEMMA AdmitTree ==
  ASSUME NEW K, Suits(K), IInv, NodesInv, CacheInv(K), pending_queue # <<>>, Active # Slots,
         NEW z, AdmitsCache(z)
  PROVE  /\ PagedTree(tree') /\ Paths(tree) \subseteq Paths(tree')
         /\ z.matched_radix_nodes \in Seq(Seq(Range(Hash)))
         /\ Elements(z.matched_radix_nodes) \subseteq Paths(tree)
         /\ Finished(z) => z.matched_radix_nodes = <<>>
         /\ \A q \in Paths(tree') :
              Refs(tree', q) = (IF q \in Paths(tree) THEN Refs(tree, q) ELSE 0)
                               + (IF q \in Elements(z.matched_radix_nodes) THEN 1 ELSE 0)
<1>1. PICK t : t = HeadIndexed
  OBVIOUS
<1>2. PICK nodes : nodes = HeadNodes
  OBVIOUS
<1>3. /\ PagedTree(t) /\ Paths(tree) \subseteq Paths(t)
      /\ \A q \in Paths(t) : Refs(t, q) = (IF q \in Paths(tree) THEN Refs(tree, q) ELSE 0)
                                          + (IF q \in Elements(nodes) THEN 1 ELSE 0)
  BY <1>1, <1>2, HeadTreeEffect
<1>4. nodes \in Seq(Seq(Range(Hash))) /\ Elements(nodes) \subseteq Paths(tree)
  BY <1>2, HeadNodesFacts
<1>5. \A q \in Paths(tree) : Refs(tree, q) \in Nat
  BY DEF NodesInv, NodesCounted, PagedTree, IsNode, Refs
<1>6. CASE ~Finished(z)
  <2>1. tree' = t /\ z.matched_radix_nodes = nodes
    BY <1>1, <1>2, <1>6 DEF AdmitsCache
  <2> QED BY <1>3, <1>4, <1>6, <2>1
<1>7. CASE Finished(z)
  <2>1. tree' = ReleaseNodes(t, nodes) /\ z.matched_radix_nodes = <<>>
    BY <1>1, <1>2, <1>7 DEF AdmitsCache
  <2>2. PICK u : u = tree'
    OBVIOUS
  <2>3. /\ PagedTree(u) /\ Paths(u) = Paths(t)
        /\ \A q \in Paths(t) : Refs(u, q) = IF q \in Elements(nodes) /\ Refs(t, q) > 0
                                            THEN Refs(t, q) - 1 ELSE Refs(t, q)
    <3>1. u = ReleaseNodes(t, nodes)
      BY <2>1, <2>2
    <3> QED BY <1>3, <3>1, ReleaseNodesEffect
  <2>4. \A q \in Paths(u) : Refs(u, q) = IF q \in Paths(tree) THEN Refs(tree, q) ELSE 0
    BY <1>3, <1>5, <2>3
  <2>5. Elements(z.matched_radix_nodes) = {} /\ z.matched_radix_nodes \in Seq(Seq(Range(Hash)))
    BY <2>1, NoElements, EmptySeq
  <2>6. \A q \in Paths(u) : Refs(u, q) = (IF q \in Paths(tree) THEN Refs(tree, q) ELSE 0)
                               + (IF q \in Elements(z.matched_radix_nodes) THEN 1 ELSE 0)
    BY <1>5, <2>4, <2>5
  <2> QED BY <1>3, <1>7, <2>1, <2>2, <2>3, <2>5, <2>6
<1> QED BY <1>6, <1>7

\* An admission keeps the nodes in order.
LEMMA AdmitNodes ==
  ASSUME NEW K, Suits(K), IInv, NodesInv, CacheInv(K), Admit
  PROVE  NodesInv'
<1>1. pending_queue # <<>> /\ Active # Slots
  BY DEF Admit, CanAdmit
<1>2. PICK slot : slot = AvailableSlot
  OBVIOUS
<1>3. PICK z : AdmitsInto(z, slot) /\ AdmitsCache(z)
  BY <1>2, AdmitCacheEffect
<1>4. PICK i : i = Admitted + 1
  OBVIOUS
<1>5. PICK n \in Nat : n = Submitted
  BY DEF IInv, RequestList
<1>6. /\ i \in 1..n /\ all_requests'[i] = z
      /\ \A id \in 1..n : id # i => all_requests'[id] = all_requests[id]
      /\ Submitted' = n
  BY <1>1, <1>3, <1>4, <1>5, AdmitRequests
<1>7. /\ slot \in Slots /\ slot \notin Active
      /\ \A s \in Active : active_slots'[s] = active_slots[s]
      /\ Active' = IF Finished(z) THEN Active ELSE Active \cup {slot}
      /\ ~Finished(z) => active_slots'[slot] = i
  BY <1>1, <1>3, <1>4, AdmitSlots
<1>8. PICK held : held = z.matched_radix_nodes
  OBVIOUS
<1>9. /\ PagedTree(tree') /\ Paths(tree) \subseteq Paths(tree')
      /\ held \in Seq(Seq(Range(Hash)))
      /\ Elements(held) \subseteq Paths(tree)
      /\ Finished(z) => held = <<>>
      /\ \A q \in Paths(tree') :
           Refs(tree', q) = (IF q \in Paths(tree) THEN Refs(tree, q) ELSE 0)
                            + (IF q \in Elements(held) THEN 1 ELSE 0)
  BY <1>1, <1>3, <1>8, AdmitTree
<1>10. Held(i)' = held /\ \A id \in 1..n : id # i => Held(id)' = Held(id)
  BY <1>6, <1>8 DEF Held
<1>11. Held(i) = <<>>
  <2>1. ~RunsInSlot(i)
    <3>1. \A s \in Active : active_slots[s] \in 1..Admitted
      BY DEF IInv, RunningUnfinished
    <3>2. Admitted \in Nat
      BY QueueFacts DEF IInv
    <3>3. i \notin 1..Admitted
      BY <1>4, <3>2
    <3> QED BY <3>1, <3>3 DEF RunsInSlot
  <2> QED BY <1>5, <1>6, <2>1 DEF NodesInv, NodesHeld
<1>12. \A id : RunsInSlot(id) => RunsInSlot(id)'
  BY <1>7 DEF RunsInSlot
<1>13. NodesHeld'
  <2>1. ASSUME NEW id \in 1..n
        PROVE  /\ Held(id)' \in Seq(Seq(Range(Hash)))
               /\ Elements(Held(id)') \subseteq Paths(tree')
               /\ RunsInSlot(id)' \/ Held(id)' = <<>>
    <3>1. CASE id = i
      <4>1. ~Finished(z) => RunsInSlot(i)'
        BY <1>7 DEF RunsInSlot
      <4> QED BY <1>9, <1>10, <3>1, <4>1
    <3>2. CASE id # i
      BY <1>5, <1>9, <1>10, <1>12, <3>2 DEF NodesInv, NodesHeld
    <3> QED BY <3>1, <3>2
  <2> QED BY <1>6, <2>1 DEF NodesHeld
<1>14. RequestsKnown'
  <2>1. z.prompt = all_requests[i].prompt /\ z.max_new_tokens = all_requests[i].max_new_tokens
    BY <1>3, <1>4 DEF AdmitsInto, SameRequest
  <2>2. ASSUME NEW id \in 1..n
        PROVE  /\ all_requests'[id].prompt \in Prompts
               /\ all_requests'[id].max_new_tokens \in MaxNewTokens
    <3>1. all_requests[id].prompt \in Prompts /\ all_requests[id].max_new_tokens \in MaxNewTokens
      BY <1>5 DEF NodesInv, RequestsKnown
    <3> QED BY <1>6, <2>1, <3>1
  <2> QED BY <1>6, <2>2 DEF RequestsKnown
<1>15. ASSUME NEW q
       PROVE  /\ i \notin Holders(q)
              /\ Holders(q)' = IF q \in Elements(held) THEN Holders(q) \cup {i} ELSE Holders(q)
  <2>1. Holders(q) = {id \in 1..n : q \in Elements(Held(id))}
    BY <1>5 DEF Holders
  <2>2. Holders(q)' = {id \in 1..n : q \in Elements(Held(id)')}
    BY <1>6 DEF Holders
  <2>3. q \notin Elements(Held(i))
    BY <1>11, NoElements
  <2>4. i \notin Holders(q)
    BY <2>1, <2>3
  <2>5. \A id \in 1..n : id # i => (id \in Holders(q)' <=> id \in Holders(q))
    BY <1>10, <2>1, <2>2
  <2>6. i \in Holders(q)' <=> q \in Elements(held)
    BY <1>6, <1>10, <2>2
  <2> QED BY <1>6, <2>1, <2>2, <2>4, <2>5, <2>6
<1>16. ASSUME NEW q \in Paths(tree') PROVE Refs(tree', q) = Cardinality(Holders(q)')
  <2>1. IsFiniteSet(Holders(q)) /\ Cardinality(Holders(q)) \in Nat
    BY HoldersFinite
  <2>2. Cardinality(Holders(q)) = IF q \in Paths(tree) THEN Refs(tree, q) ELSE 0
    <3>1. CASE q \in Paths(tree)
      BY <3>1 DEF NodesInv, NodesCounted
    <3>2. CASE q \notin Paths(tree)
      <4>1. Holders(q) = {}
        BY <3>2 DEF Holders, NodesInv, NodesHeld
      <4> QED BY <3>2, <4>1, FS_EmptySet
    <3> QED BY <3>1, <3>2
  <2>3. CASE q \in Elements(held)
    <3>1. Holders(q)' = Holders(q) \cup {i} /\ i \notin Holders(q)
      BY <1>15, <2>3
    <3>2. Cardinality(Holders(q)') = Cardinality(Holders(q)) + 1
      BY <2>1, <3>1, FS_AddElement
    <3> QED BY <1>9, <2>2, <2>3, <3>2
  <2>4. CASE q \notin Elements(held)
    BY <1>9, <1>15, <2>1, <2>2, <2>4
  <2> QED BY <2>3, <2>4
<1>17. NodesCounted'
  BY <1>9, <1>16 DEF NodesCounted
<1> QED BY <1>13, <1>14, <1>17 DEF NodesInv

----------------------------------------------------------------------------
(***************************************************************************)
(* Requests that leave their slots give up their nodes, one slot after the *)
(* other.                                                                  *)
(***************************************************************************)
LEMMA ReleaseAllLoop ==
  ASSUME NEW t, NEW reqs, NEW slots, NEW d, d = ReleaseAll(t, reqs, slots)
  PROVE  \E g : /\ g[0] = t /\ d = g[MaxBatch]
                /\ \A n \in 1..MaxBatch :
                     g[n] = IF n - 1 \in slots
                            THEN ReleaseNodes(g[n - 1],
                                              reqs[active_slots[n - 1]].matched_radix_nodes)
                            ELSE g[n - 1]
<1> DEFINE Turn(x, n) == IF n - 1 \in slots
                         THEN ReleaseNodes(x, reqs[active_slots[n - 1]].matched_radix_nodes)
                         ELSE x
           Loops(g, k) == g = [n \in 0..k |-> IF n = 0 THEN t ELSE Turn(g[n - 1], n)]
           S == {k \in Nat : \E g : Loops(g, k)}
<1>1. 0 \in S
  <2> DEFINE g == [n \in 0..0 |-> t]
  <2>1. Loops(g, 0)
    OBVIOUS
  <2> HIDE DEF g, Loops
  <2> QED BY <2>1
<1>2. ASSUME NEW k \in Nat, k < MaxBatch, k \in S PROVE k + 1 \in S
  <2>1. PICK g : Loops(g, k)
    BY <1>2
  <2> HIDE DEF Turn
  <2> DEFINE h == [n \in 0..(k + 1) |-> IF n = 0 THEN t ELSE Turn(g[n - 1], n)]
  <2>2. ASSUME NEW n \in 0..(k + 1), n # 0 PROVE g[n - 1] = h[n - 1]
    <3>1. n - 1 \in 0..k /\ n - 1 \in 0..(k + 1)
      BY <2>2
    <3>2. g[n - 1] = IF n - 1 = 0 THEN t ELSE Turn(g[(n - 1) - 1], n - 1)
      BY <2>1, <3>1
    <3>3. h[n - 1] = IF n - 1 = 0 THEN t ELSE Turn(g[(n - 1) - 1], n - 1)
      BY <3>1
    <3> QED BY <3>2, <3>3
  <2>3. Loops(h, k + 1)
    <3>1. \A n \in 0..(k + 1) : (IF n = 0 THEN t ELSE Turn(g[n - 1], n))
                                  = (IF n = 0 THEN t ELSE Turn(h[n - 1], n))
      BY <2>2
    <3> QED BY <3>1
  <2> HIDE DEF h, Loops
  <2> QED BY <2>3
<1>3. MaxBatch \in Nat
  BY PagedAssumption
<1>4. MaxBatch \in S
  <2>1. \A n \in Nat : n < MaxBatch /\ n \in S => n + 1 \in S
    BY <1>2
  <2>2. MaxBatch \in 0..MaxBatch
    BY <1>3
  <2> HIDE DEF S
  <2> QED BY <1>1, <1>3, <2>1, <2>2, UpTo
<1>5. \E g : Loops(g, MaxBatch)
  <2> HIDE DEF Loops
  <2> QED BY <1>4
<1> DEFINE after == CHOOSE g : Loops(g, MaxBatch)
<1>6. Loops(after, MaxBatch)
  <2> HIDE DEF Loops
  <2> QED BY <1>5
<1>7. d = after[MaxBatch]
  BY DEF ReleaseAll, Loop
<1> HIDE DEF after, Turn
<1>8. after[0] = t /\ \A n \in 1..MaxBatch : after[n] = Turn(after[n - 1], n)
  BY <1>3, <1>6, LoopNumbers
<1> QED BY <1>7, <1>8 DEF Turn

\* The requests that run in some of the slots.
RunIn(S) == {active_slots[s] : s \in S}

\* Every node loses exactly the requests that leave their slots.
LEMMA ReleaseAllEffect ==
  ASSUME IInv, NodesInv, NEW done \in SUBSET Active, NEW reqs,
         \A s \in done : reqs[active_slots[s]].matched_radix_nodes = Held(active_slots[s]),
         NEW d, d = ReleaseAll(tree, reqs, done)
  PROVE  /\ PagedTree(d) /\ Paths(d) = Paths(tree)
         /\ \A q \in Paths(tree) : Refs(d, q) = Cardinality(Holders(q) \ RunIn(done))
<1> DEFINE Before(n) == {s \in done : s < n}
           P(x, n) == /\ PagedTree(x) /\ Paths(x) = Paths(tree)
                      /\ \A q \in Paths(tree) :
                           Refs(x, q) = Cardinality(Holders(q) \ RunIn(Before(n)))
<1>1. PICK g : /\ g[0] = tree /\ d = g[MaxBatch]
               /\ \A n \in 1..MaxBatch :
                    g[n] = IF n - 1 \in done
                           THEN ReleaseNodes(g[n - 1],
                                             reqs[active_slots[n - 1]].matched_radix_nodes)
                           ELSE g[n - 1]
  BY ReleaseAllLoop
<1>2. MaxBatch \in Nat /\ done \subseteq 0..(MaxBatch - 1)
  BY PagedAssumption DEF Active, Slots
<1>0. \A s \in done : s \in Nat /\ s < MaxBatch
  BY <1>2
<1>3. \A q : IsFiniteSet(Holders(q))
  BY HoldersFinite
<1> DEFINE S == {n \in Nat : P(g[n], n)}
<1>4. 0 \in S
  <2>1. Before(0) = {}
    <3>1. \A s \in done : ~(s < 0)
      BY <1>0
    <3> QED BY <3>1
  <2>2. \A q : Holders(q) \ RunIn(Before(0)) = Holders(q)
    BY <2>1 DEF RunIn
  <2>3. P(tree, 0)
    BY <2>2 DEF NodesInv, NodesCounted
  <2> HIDE DEF P
  <2> QED BY <1>1, <2>3
<1>5. ASSUME NEW k \in Nat, k < MaxBatch, k \in S PROVE k + 1 \in S
  <2>1. k + 1 \in 1..MaxBatch /\ (k + 1) - 1 = k
    BY <1>2, <1>5
  <2>2. g[k + 1] = IF k \in done
                   THEN ReleaseNodes(g[k], reqs[active_slots[k]].matched_radix_nodes) ELSE g[k]
    BY <1>1, <2>1
  <2>3. P(g[k], k)
    BY <1>5
  <2>4. Before(k + 1) = Before(k) \cup ({k} \cap done)
    <3>1. \A s \in done : s < k + 1 <=> s < k \/ s = k
      BY <1>0
    <3> QED BY <3>1
  <2>5. CASE k \notin done
    <3>1. Before(k + 1) = Before(k) /\ g[k + 1] = g[k]
      BY <2>2, <2>4, <2>5
    <3>2. P(g[k + 1], k + 1)
      <4> HIDE DEF Before
      <4> QED BY <2>3, <3>1
    <3> HIDE DEF P
    <3> QED BY <3>2
  <2>6. CASE k \in done
    <3>1. PICK id : id = active_slots[k]
      OBVIOUS
    <3>2. PICK x : x = g[k]
      OBVIOUS
    <3>3. PICK y : y = g[k + 1]
      OBVIOUS
    <3>4. y = ReleaseNodes(x, Held(id))
      BY <2>2, <2>6, <3>1, <3>2, <3>3
    <3>5. P(x, k)
      BY <2>3, <3>2
    <3>6. /\ PagedTree(y) /\ Paths(y) = Paths(tree)
          /\ \A q \in Paths(tree) :
               Refs(y, q) = IF q \in Elements(Held(id)) /\ Refs(x, q) > 0 THEN Refs(x, q) - 1
                            ELSE Refs(x, q)
      BY <3>4, <3>5, ReleaseNodesEffect
    <3>7. id \in 1..Submitted
      <4>1. id \in 1..Admitted
        BY <2>6, <3>1 DEF IInv, RunningUnfinished
      <4>2. Admitted \in 0..Submitted /\ Submitted \in Nat
        BY QueueFacts DEF IInv
      <4> QED BY <4>1, <4>2
    <3>8. RunIn(Before(k + 1)) = RunIn(Before(k)) \cup {id}
      <4> HIDE DEF Before
      <4> QED BY <2>4, <2>6, <3>1 DEF RunIn
    <3>9. id \notin RunIn(Before(k))
      <4>1. SUFFICES ASSUME NEW s \in done, s < k, active_slots[s] = id PROVE FALSE
        BY DEF RunIn
      <4>2. s = k
        BY <2>6, <3>1, <4>1 DEF IInv, SlotsDistinct
      <4> QED BY <4>1, <4>2
    <3> HIDE DEF Before
    <3>10. ASSUME NEW q \in Paths(tree)
           PROVE  Refs(y, q) = Cardinality(Holders(q) \ RunIn(Before(k + 1)))
      <4>1. PICK H : H = Holders(q) \ RunIn(Before(k))
        OBVIOUS
      <4>2. IsFiniteSet(H) /\ Cardinality(H) \in Nat /\ Refs(x, q) = Cardinality(H)
        <5>1. IsFiniteSet(H)
          BY <1>3, <4>1, FS_Subset
        <5> QED BY <3>5, <4>1, <5>1, FS_CardinalityType
      <4>3. Holders(q) \ RunIn(Before(k + 1)) = H \ {id}
        BY <3>8, <4>1
      <4>4. id \in H <=> q \in Elements(Held(id))
        BY <3>7, <3>9, <4>1 DEF Holders
      <4>5. CASE id \in H
        <5>1. Cardinality(H \ {id}) = Cardinality(H) - 1 /\ Cardinality(H \ {id}) \in Nat
          <6>1. IsFiniteSet(H \ {id})
            BY <4>2, FS_RemoveElement
          <6> QED BY <4>2, <4>5, <6>1, FS_RemoveElement, FS_CardinalityType
        <5>2. Refs(x, q) > 0
          BY <4>2, <5>1
        <5> QED BY <3>6, <4>2, <4>3, <4>4, <4>5, <5>1, <5>2
      <4>6. CASE id \notin H
        <5>1. H \ {id} = H
          BY <4>6
        <5> QED BY <3>6, <4>2, <4>3, <4>4, <4>6, <5>1
      <4> QED BY <4>5, <4>6
    <3>11. P(y, k + 1)
      BY <3>6, <3>10
    <3> HIDE DEF P
    <3> QED BY <3>3, <3>11
  <2> QED BY <2>5, <2>6
<1>6. MaxBatch \in S
  <2>1. \A n \in Nat : n < MaxBatch /\ n \in S => n + 1 \in S
    BY <1>5
  <2>2. MaxBatch \in 0..MaxBatch
    BY <1>2
  <2> HIDE DEF S
  <2> QED BY <1>2, <1>4, <2>1, <2>2, UpTo
<1>7. P(d, MaxBatch)
  <2> HIDE DEF P
  <2> QED BY <1>1, <1>6
<1>8. Before(MaxBatch) = done
  BY <1>0
<1> HIDE DEF Before
<1> QED BY <1>7, <1>8

\* The requests of some slots give up their nodes, and those slots become empty.
GivesUp(done) ==
  /\ \A id \in 1..Submitted :
        all_requests'[id].matched_radix_nodes = IF id \in RunIn(done) THEN <<>> ELSE Held(id)
  /\ \E reqs :
        /\ \A s \in done : reqs[active_slots[s]].matched_radix_nodes = Held(active_slots[s])
        /\ tree' = ReleaseAll(tree, reqs, done)

\* The nodes stay counted when slots are emptied.
LEMMA EmptiedNodes ==
  ASSUME IInv, NodesInv, NEW done, Empties(done), GivesUp(done)
  PROVE  NodesInv'
<1>1. PICK n \in Nat : n = Submitted
  BY DEF IInv, RequestList
<1>2. /\ Submitted' = n /\ Active' = Active \ done
      /\ \A s \in Active \ done : active_slots'[s] = active_slots[s]
  BY <1>1, EmptiesFrame
<1>3. done \in SUBSET Active
  BY DEF Empties
<1>4. PICK t : t = tree'
  OBVIOUS
<1>5. /\ PagedTree(t) /\ Paths(t) = Paths(tree)
      /\ \A q \in Paths(tree) : Refs(t, q) = Cardinality(Holders(q) \ RunIn(done))
  <2>1. PICK reqs :
          /\ \A s \in done : reqs[active_slots[s]].matched_radix_nodes = Held(active_slots[s])
          /\ t = ReleaseAll(tree, reqs, done)
    BY <1>4 DEF GivesUp
  <2> QED BY <1>3, <2>1, ReleaseAllEffect
<1>6. \A id \in 1..n : Held(id)' = IF id \in RunIn(done) THEN <<>> ELSE Held(id)
  BY <1>1 DEF GivesUp, Held
<1>7. NodesHeld'
  <2>1. ASSUME NEW id \in 1..n
        PROVE  /\ Held(id)' \in Seq(Seq(Range(Hash)))
               /\ Elements(Held(id)') \subseteq Paths(tree')
               /\ RunsInSlot(id)' \/ Held(id)' = <<>>
    <3>1. CASE id \in RunIn(done)
      BY <1>6, <3>1, NoElements, EmptySeq
    <3>2. CASE id \notin RunIn(done)
      <4>1. Held(id)' = Held(id)
        BY <1>6, <3>2
      <4>2. RunsInSlot(id) => RunsInSlot(id)'
        BY <1>2, <3>2 DEF RunsInSlot, RunIn
      <4> QED BY <1>1, <1>4, <1>5, <4>1, <4>2 DEF NodesInv, NodesHeld
    <3> QED BY <3>1, <3>2
  <2> QED BY <1>2, <2>1 DEF NodesHeld
<1>8. RequestsKnown'
  BY <1>1, <1>2 DEF NodesInv, RequestsKnown, Empties, SameRequest
<1>9. ASSUME NEW q PROVE Holders(q)' = Holders(q) \ RunIn(done)
  <2>1. Holders(q) = {id \in 1..n : q \in Elements(Held(id))}
    BY <1>1 DEF Holders
  <2>2. Holders(q)' = {id \in 1..n : q \in Elements(Held(id)')}
    BY <1>2 DEF Holders
  <2> QED BY <1>6, <2>1, <2>2, NoElements
<1>10. NodesCounted'
  BY <1>4, <1>5, <1>9 DEF NodesCounted
<1> QED BY <1>7, <1>8, <1>10 DEF NodesInv

----------------------------------------------------------------------------
(***************************************************************************)
(* The number of slots that a decode step computes.                        *)
(***************************************************************************)
\* A finite set of numbers has a bound.
LEMMA FiniteBounded ==
  ASSUME NEW S \in SUBSET Nat, IsFiniteSet(S)
  PROVE  \E m \in Nat : \A x \in S : x <= m
<1>1. PICK n \in Nat : ExistsSurjection(1..n, S)
  BY FS_NatSurjection
<1>2. PICK f \in [1..n -> S] : \A x \in S : \E i \in 1..n : f[i] = x
  BY <1>1 DEF ExistsSurjection, Surjection
<1> DEFINE Bounded(k, m) == \A i \in 1..k : f[i] <= m
           B == {k \in Nat : k <= n => \E m \in Nat : Bounded(k, m)}
<1>3. 0 \in B
  <2>1. Bounded(0, 0)
    OBVIOUS
  <2> HIDE DEF Bounded
  <2> QED BY <2>1
<1>4. ASSUME NEW k \in Nat, k < n, k \in B PROVE k + 1 \in B
  <2>1. PICK m \in Nat : Bounded(k, m)
    <3> HIDE DEF Bounded
    <3> QED BY <1>4
  <2>2. PICK x \in Nat : x = f[k + 1]
    <3>1. k + 1 \in 1..n
      BY <1>4
    <3> QED BY <1>2, <3>1
  <2>3. PICK b \in Nat : b >= m /\ b >= x
    <3>1. m + x \in Nat /\ m + x >= m /\ m + x >= x
      OBVIOUS
    <3> QED BY <3>1
  <2>4. Bounded(k + 1, b)
    <3>1. ASSUME NEW i \in 1..(k + 1) PROVE f[i] <= b
      <4>1. CASE i = k + 1
        BY <2>2, <2>3, <4>1
      <4>2. CASE i # k + 1
        <5>1. i \in 1..k /\ i \in 1..n
          BY <1>4, <4>2
        <5>2. f[i] \in Nat /\ f[i] <= m
          BY <1>2, <2>1, <5>1
        <5> QED BY <2>3, <5>2
      <4> QED BY <4>1, <4>2
    <3> QED BY <3>1
  <2> HIDE DEF Bounded
  <2> QED BY <2>4
<1>5. n \in B
  <2>1. \A k \in Nat : k < n /\ k \in B => k + 1 \in B
    BY <1>4
  <2>2. n \in 0..n
    OBVIOUS
  <2> HIDE DEF B
  <2> QED BY <1>3, <2>1, <2>2, UpTo
<1>6. PICK m \in Nat : Bounded(n, m)
  <2> HIDE DEF Bounded
  <2> QED BY <1>5
<1>7. \A x \in S : x <= m
  BY <1>2, <1>6
<1> QED BY <1>7

\* The smaller of two numbers.
LEMMA SmallerOfTwo ==
  ASSUME NEW a \in Nat, NEW b \in Nat
  PROVE  Min({a, b}) \in 0..b
<1>1. PICK S : S = {a, b}
  OBVIOUS
<1>2. S \in SUBSET Nat /\ S # {}
  BY <1>1
<1>3. \E x \in S : \A y \in S : x <= y
  BY <1>2, LeastElement
<1>4. Min(S) \in S /\ \A y \in S : Min(S) <= y
  BY <1>3 DEF Min
<1>5. Min(S) \in Nat /\ Min(S) <= b
  BY <1>1, <1>2, <1>4
<1> QED BY <1>1, <1>5

\* The batch is never larger than the number of slots.
LEMMA BucketEffect ==
  ASSUME Active # {}
  PROVE  BatchBucket \in 0..MaxBatch
<1>1. MaxBatch \in Nat /\ MaxBatch # 0
  BY PagedAssumption
<1>2. PICK max_slot \in Nat : max_slot = Max(Active)
  <2>1. PICK n \in Nat : n = MaxBatch - 1
    BY <1>1
  <2>2. Active \in SUBSET (0..n)
    BY <2>1 DEF Active, Slots
  <2>3. Max(Active) \in Active
    BY <2>2, LargestElement
  <2>4. \A s \in Active : s \in Nat
    BY <2>2
  <2> QED BY <2>3, <2>4
<1> DEFINE larger == {b \in Buckets : b > max_slot}
           bucket == IF ~BucketsEnabled THEN max_slot + 1
                     ELSE IF larger # {} THEN Min(larger)
                     ELSE Max(Buckets)
<1>3. bucket \in Nat
  <2>1. CASE ~BucketsEnabled
    BY <2>1
  <2>2. CASE BucketsEnabled /\ larger # {}
    <3>1. larger \in SUBSET Nat
      BY SchedulerAssumption
    <3>2. \E x \in larger : \A y \in larger : x <= y
      <4> HIDE DEF larger
      <4> QED BY <2>2, <3>1, LeastElement
    <3>3. Min(larger) \in larger
      <4> HIDE DEF larger
      <4> QED BY <3>2 DEF Min
    <3>4. Min(larger) \in Nat
      <4> HIDE DEF larger
      <4> QED BY <3>1, <3>3
    <3> HIDE DEF larger
    <3> QED BY <2>2, <3>4
  <2>3. CASE BucketsEnabled /\ larger = {}
    <3>1. Buckets \in SUBSET Nat /\ Buckets # {} /\ IsFiniteSet(Buckets)
      BY SchedulerAssumption
    <3>2. PICK m \in Nat : \A b \in Buckets : b <= m
      BY <3>1, FiniteBounded
    <3>3. Buckets \in SUBSET (0..m)
      BY <3>1, <3>2
    <3>4. Max(Buckets) \in Buckets
      BY <3>1, <3>3, LargestElement
    <3>5. Max(Buckets) \in Nat
      BY <3>1, <3>4
    <3> HIDE DEF larger
    <3> QED BY <2>3, <3>5
  <2> HIDE DEF bucket, larger
  <2> QED BY <2>1, <2>2, <2>3
<1>4. BatchBucket = Min({bucket, MaxBatch})
  BY <1>2 DEF BatchBucket, SelectBatchBucket
<1> HIDE DEF bucket
<1> QED BY <1>1, <1>3, <1>4, SmallerOfTwo

----------------------------------------------------------------------------
(***************************************************************************)
(* What a decode step does to the cache, and whose nodes it releases.      *)
(***************************************************************************)
EmptiedCache(done) ==
  LET freed == FreeSlots(BackBatch(BatchBucket), done) IN
  kv' = IF done = Active THEN FreeSlots(freed, {s \in Slots : IsAllocated(freed, s)})
        ELSE freed

\* A decode step empties some slots, whose requests give up their nodes and pages.
LEMMA DecodeCacheEffect ==
  ASSUME IInv, NodesInv, Decode
  PROVE  \E done : Empties(done) /\ GivesUp(done) /\ EmptiedCache(done)
<1> DEFINE served == DecodeBatch \cap Active
<1>1. PICK done : Empties(done)
  BY DecodeEffect
<1>2. PICK eos \in SUBSET served :
        LET backed == BackBatch(BatchBucket)
            sampled == [id \in DOMAIN all_requests |->
                IF \E s \in served : active_slots[s] = id
                THEN WithToken(all_requests[id], \E s \in eos : active_slots[s] = id)
                ELSE all_requests[id]]
            ended == {s \in served : Finished(sampled[active_slots[s]])}
            freed == FreeSlots(backed, ended)
        IN  /\ all_requests' = [id \in DOMAIN sampled |-> Released(sampled[id])]
            /\ active_slots' = [s \in Slots |->
                 IF s \in ended THEN NoRequest ELSE active_slots[s]]
            /\ tree' = ReleaseAll(tree, sampled, ended)
            /\ kv' = IF ended = Active
                     THEN FreeSlots(freed, {s \in Slots : IsAllocated(freed, s)})
                     ELSE freed
  BY DEF Decode
<1> DEFINE sampled == [id \in DOMAIN all_requests |->
                IF \E s \in served : active_slots[s] = id
                THEN WithToken(all_requests[id], \E s \in eos : active_slots[s] = id)
                ELSE all_requests[id]]
           ended == {s \in served : Finished(sampled[active_slots[s]])}
<1>3. /\ all_requests' = [id \in DOMAIN sampled |-> Released(sampled[id])]
      /\ active_slots' = [s \in Slots |-> IF s \in ended THEN NoRequest ELSE active_slots[s]]
      /\ tree' = ReleaseAll(tree, sampled, ended)
      /\ EmptiedCache(ended)
  BY <1>2 DEF EmptiedCache
<1>4. DOMAIN sampled = 1..Submitted /\ DOMAIN all_requests = 1..Submitted
  BY QueueFacts DEF IInv
<1>5. ended \subseteq served /\ served \subseteq Active /\ Active \subseteq Slots
  BY DEF Active
<1>6. \A s \in served : s \in ended <=> Finished(sampled[active_slots[s]])
  OBVIOUS
<1>7. \A id \in 1..Submitted : (\E s \in served : active_slots[s] = id)
          => sampled[id] = WithToken(all_requests[id], \E s \in eos : active_slots[s] = id)
  BY <1>4
<1>8. \A id \in 1..Submitted : ~(\E s \in served : active_slots[s] = id)
          => sampled[id] = all_requests[id]
  BY <1>4
<1> HIDE DEF sampled, ended, served
<1>9. \A id \in 1..Submitted : all_requests'[id] = Released(sampled[id])
  BY <1>3, <1>4
<1>10. ended = done
  <2>1. \A s \in Slots : (IF s \in ended THEN NoRequest ELSE active_slots[s])
                          = (IF s \in done THEN NoRequest ELSE active_slots[s])
    BY <1>1, <1>3 DEF Empties
  <2>2. ended \subseteq Active /\ done \subseteq Active
    BY <1>1, <1>5 DEF Empties
  <2>3. \A s \in Active : active_slots[s] # NoRequest /\ s \in Slots
    BY DEF Active
  <2>4. \A s \in Active : s \in ended <=> s \in done
    BY <2>1, <2>3
  <2> QED BY <2>2, <2>4
<1>11. ASSUME NEW id \in 1..Submitted, \E s \in served : active_slots[s] = id
       PROVE  IsRequest(sampled[id]) /\ sampled[id].matched_radix_nodes = Held(id)
  <2>1. IsRequest(all_requests[id])
    BY DEF IInv, RequestList
  <2>2. PICK b \in BOOLEAN : b = (\E s \in eos : active_slots[s] = id)
    OBVIOUS
  <2>3. sampled[id] = WithToken(all_requests[id], b)
    BY <1>7, <1>11, <2>2
  <2>4. PICK x : x = all_requests[id]
    OBVIOUS
  <2>5. PICK y : y = sampled[id]
    OBVIOUS
  <2>6. y = WithToken(x, b) /\ IsRequest(x)
    BY <2>1, <2>3, <2>4, <2>5
  <2>7. IsRequest(y) /\ y.matched_radix_nodes = x.matched_radix_nodes
    BY <2>6, TokenEffect, TokenNodes
  <2> QED BY <2>4, <2>5, <2>7 DEF Held
<1>12. \A s \in Active : active_slots[s] \in 1..Submitted
  <2>1. ASSUME NEW s \in Active PROVE active_slots[s] \in 1..Submitted
    <3>1. active_slots[s] \in 1..Admitted
      BY DEF IInv, RunningUnfinished
    <3>2. Submitted \in Nat /\ Admitted \in 0..Submitted
      BY QueueFacts DEF IInv
    <3> QED BY <3>1, <3>2
  <2> QED BY <2>1
<1>13. ASSUME NEW id \in 1..Submitted
       PROVE  all_requests'[id].matched_radix_nodes = IF id \in RunIn(done) THEN <<>> ELSE Held(id)
  <2>1. PICK x : x = sampled[id]
    OBVIOUS
  <2>2. all_requests'[id] = Released(x)
    BY <1>9, <2>1
  <2>3. CASE \E s \in served : active_slots[s] = id
    <3>1. IsRequest(x) /\ x.matched_radix_nodes = Held(id)
      BY <1>11, <2>1, <2>3
    <3>2. PICK s \in served : active_slots[s] = id
      BY <2>3
    <3>3. Finished(x) <=> s \in done
      BY <1>6, <1>10, <2>1, <3>2
    <3>4. id \in RunIn(done) <=> s \in done
      <4>1. \A t \in done : active_slots[t] = id => t = s
        BY <1>1, <1>5, <3>2 DEF Empties, IInv, SlotsDistinct
      <4> QED BY <3>2, <4>1 DEF RunIn
    <3>5. Released(x).matched_radix_nodes = IF Finished(x) THEN <<>> ELSE Held(id)
      BY <3>1 DEF Released, IsRequest
    <3> QED BY <2>2, <3>3, <3>4, <3>5
  <2>4. CASE ~\E s \in served : active_slots[s] = id
    <3>1. x = all_requests[id] /\ IsRequest(x) /\ x.matched_radix_nodes = Held(id)
      BY <1>8, <2>1, <2>4 DEF IInv, RequestList, Held
    <3>2. id \notin RunIn(done)
      BY <1>5, <1>10, <2>4 DEF RunIn
    <3>3. CASE RunsInSlot(id)
      <4>1. ~Finished(x)
        BY <3>1, <3>3 DEF RunsInSlot, IInv, RunningUnfinished, Finished
      <4> QED BY <2>2, <3>1, <3>2, <4>1 DEF Released
    <3>4. CASE ~RunsInSlot(id)
      <4>1. Held(id) = <<>>
        BY <3>4 DEF NodesInv, NodesHeld
      <4>2. Released(x).matched_radix_nodes = <<>>
        BY <3>1, <4>1 DEF Released, IsRequest
      <4> QED BY <2>2, <3>2, <4>1, <4>2
    <3> QED BY <3>3, <3>4
  <2> QED BY <2>3, <2>4
<1>14. \A s \in done : sampled[active_slots[s]].matched_radix_nodes = Held(active_slots[s])
  <2>1. \A s \in done : s \in served /\ active_slots[s] \in 1..Submitted
    BY <1>5, <1>10, <1>12
  <2> QED BY <1>11, <2>1
<1>15. GivesUp(done)
  BY <1>3, <1>10, <1>13, <1>14 DEF GivesUp
<1>16. EmptiedCache(done)
  BY <1>3, <1>10
<1> QED BY <1>1, <1>15, <1>16

\* The destructor releases the nodes of all running requests.
LEMMA DestroyNodes ==
  ASSUME IInv, NodesInv, Destroy
  PROVE  NodesInv'
<1>1. Empties(Active)
  BY DestroyEffect
<1>2. DOMAIN all_requests = 1..Submitted
  BY QueueFacts DEF IInv
<1>3. /\ tree' = ReleaseAll(tree, all_requests, Active)
      /\ all_requests' = [id \in DOMAIN all_requests |->
            IF \E s \in Active : active_slots[s] = id
            THEN [all_requests[id] EXCEPT !.matched_radix_nodes = <<>>]
            ELSE all_requests[id]]
  BY DEF Destroy
<1>4. ASSUME NEW id \in 1..Submitted
      PROVE  all_requests'[id].matched_radix_nodes = IF id \in RunIn(Active) THEN <<>> ELSE Held(id)
  <2>1. IsRequest(all_requests[id])
    BY DEF IInv, RequestList
  <2>2. CASE \E s \in Active : active_slots[s] = id
    <3>1. all_requests'[id] = [all_requests[id] EXCEPT !.matched_radix_nodes = <<>>]
      BY <1>2, <1>3, <2>2
    <3>2. PICK x : x = all_requests[id]
      OBVIOUS
    <3>3. [x EXCEPT !.matched_radix_nodes = <<>>].matched_radix_nodes = <<>>
      BY <2>1, <3>2 DEF IsRequest
    <3> QED BY <2>2, <3>1, <3>2, <3>3 DEF RunIn
  <2>3. CASE ~\E s \in Active : active_slots[s] = id
    <3>1. all_requests'[id] = all_requests[id]
      BY <1>2, <1>3, <2>3
    <3> QED BY <2>3, <3>1 DEF RunIn, Held
  <2> QED BY <2>2, <2>3
<1>5. \A s \in Active : all_requests[active_slots[s]].matched_radix_nodes = Held(active_slots[s])
  BY DEF Held
<1>6. GivesUp(Active)
  BY <1>3, <1>4, <1>5 DEF GivesUp
<1> QED BY <1>1, <1>6, EmptiedNodes

----------------------------------------------------------------------------
(***************************************************************************)
(* The other steps keep the cache.                                         *)
(***************************************************************************)
\* A decode step.
LEMMA DecodeCache ==
  ASSUME NEW K, Suits(K), IInv, NodesInv, CacheInv(K), Decode
  PROVE  CacheInv(K)'
<1>1. Kept(K) /\ kv \in K
  BY DEF Suits, CacheInv
<1>2. /\ Active # {} /\ resets' = resets
      /\ prefix_caching_enabled' = prefix_caching_enabled
  BY DEF Decode
<1>3. PICK done : Empties(done) /\ EmptiedCache(done)
  BY DecodeCacheEffect
<1>4. Active' = Active \ done /\ Active \subseteq Slots /\ done \subseteq Active
  BY <1>3, EmptiesFrame DEF Empties, Active
<1>5. PICK b \in 0..MaxBatch : b = BatchBucket
  BY <1>2, BucketEffect
<1>6. PICK c : c = BackBatch(b)
  OBVIOUS
<1>7. /\ c \in K
      /\ \A s \in Slots : IF s < b THEN Backed(c, s) ELSE c.paged_slots[s] = kv.paged_slots[s]
  BY <1>1, <1>6, BackBatchEffect
<1>8. PICK d : d = FreeSlots(c, done)
  OBVIOUS
<1>9. /\ d \in K
      /\ \A s \in Slots : d.paged_slots[s] = IF s \in done THEN FreeSlotRecord ELSE c.paged_slots[s]
  BY <1>1, <1>7, <1>8, FreeSlotsEffect
<1>10. PICK S : S = {s \in Slots : IsAllocated(d, s)}
  OBVIOUS
<1>11. PICK e : e = FreeSlots(d, S)
  OBVIOUS
<1>12. /\ e \in K
       /\ \A s \in Slots : e.paged_slots[s] = IF s \in S THEN FreeSlotRecord ELSE d.paged_slots[s]
  BY <1>1, <1>9, <1>11, FreeSlotsEffect
<1>13. kv' = IF done = Active THEN e ELSE d
  BY <1>3, <1>5, <1>6, <1>8, <1>10, <1>11 DEF EmptiedCache
<1>14. kv' \in K
  BY <1>9, <1>12, <1>13
<1>15. ASSUME Active' = {}, NEW s \in Slots PROVE ~kv'.paged_slots[s].active
  <2>1. kv' = e
    BY <1>4, <1>13, <1>15
  <2>2. CASE s \in S
    BY <1>12, <2>1, <2>2 DEF FreeSlotRecord
  <2>3. CASE s \notin S
    <3>1. ~d.paged_slots[s].active
      BY <1>10, <2>3 DEF IsAllocated
    <3> QED BY <1>12, <2>1, <2>3, <3>1
  <2> QED BY <2>2, <2>3
<1>16. ASSUME resets' = 0, NEW s \in Active' PROVE Backed(kv', s)
  <2>1. s \in Active /\ s \in Slots /\ s \notin done /\ resets = 0
    BY <1>2, <1>4, <1>16
  <2>2. kv' = d /\ d.paged_slots[s] = c.paged_slots[s]
    BY <1>9, <1>13, <2>1
  <2>3. Backed(kv, s)
    BY <2>1 DEF CacheInv
  <2>4. Backed(c, s)
    BY <1>7, <2>1, <2>3 DEF Backed, PagesOf
  <2> QED BY <2>2, <2>4 DEF Backed, PagesOf
<1>17. prefix_caching_enabled' \in CachingSettings
  BY <1>2 DEF CacheInv
<1> QED BY <1>14, <1>15, <1>16, <1>17 DEF CacheInv

\* The destructor.
LEMMA DestroyCache ==
  ASSUME NEW K, Suits(K), IInv, CacheInv(K), Destroy
  PROVE  CacheInv(K)'
<1>1. Kept(K) /\ kv \in K
  BY DEF Suits, CacheInv
<1>2. /\ kv' = FreeSlots(kv, Active) /\ destroyed' = TRUE
      /\ prefix_caching_enabled' = prefix_caching_enabled
      /\ active_slots' = [s \in Slots |-> NoRequest]
  BY DEF Destroy
<1>3. kv' \in K
  BY <1>1, <1>2, FreeSlotsEffect
<1>4. Active' = {}
  BY <1>2 DEF Active
<1> QED BY <1>2, <1>3, <1>4 DEF CacheInv

\* A reset frees every slot; from then on running requests have no pages.
LEMMA ResetCache ==
  ASSUME NEW K, Suits(K), CacheInv(K), resets \in Nat, ResetKVCache
  PROVE  CacheInv(K)'
<1>1. Kept(K) /\ kv \in K
  BY DEF Suits, CacheInv
<1>2. /\ kv' = FreeSlots(kv, Slots) /\ resets' = resets + 1
      /\ prefix_caching_enabled' = prefix_caching_enabled
  BY DEF ResetKVCache
<1>3. /\ kv' \in K
      /\ \A s \in Slots : kv'.paged_slots[s] = FreeSlotRecord
  BY <1>1, <1>2, FreeSlotsEffect
<1>4. \A s \in Slots : ~kv'.paged_slots[s].active
  BY <1>3 DEF FreeSlotRecord
<1>5. resets' # 0
  BY <1>2
<1> QED BY <1>2, <1>3, <1>4, <1>5 DEF CacheInv

\* A step that concerns requests that wait, or flags.
LEMMA OtherCache ==
  ASSUME NEW K, CacheInv(K), UNCHANGED <<kv, active_slots, destroyed, resets>>,
         prefix_caching_enabled' \in CachingSettings
  PROVE  CacheInv(K)'
BY DEF CacheInv, Active

----------------------------------------------------------------------------
(***************************************************************************)
(* The requests, the nodes they hold and the cache together.  A set K of   *)
(* states of the cache is never left if it has the first one and the       *)
(* operations that the caching settings allow keep it.                     *)
(***************************************************************************)
Consistent(K) ==
  /\ IInv
  /\ NodesInv
  /\ CacheInv(K)
  /\ active_slots = [s \in Slots |-> active_slots[s]]
  /\ admitted_any \in BOOLEAN
  /\ resets \in Nat

\* The invariant holds at first.
LEMMA ConsistentInit ==
  ASSUME NEW K, InitialKV(WarmPages) \in K, Init
  PROVE  Consistent(K)
<1>1. /\ kv = InitialKV(WarmPages) /\ prefix_caching_enabled \in CachingSettings
      /\ active_slots = [s \in Slots |-> NoRequest]
      /\ admitted_any = FALSE /\ resets = 0
  BY DEF Init
<1>2. \A s \in Slots : ~kv.paged_slots[s].active
  BY <1>1, InitialAccounted
<1>3. Active = {}
  BY <1>1 DEF Active
<1>4. CacheInv(K)
  BY <1>1, <1>2, <1>3 DEF CacheInv
<1>5. IInv /\ NodesInv
  BY InitStep, NodesInit
<1> QED BY <1>1, <1>4, <1>5 DEF Consistent

\* Every step keeps the nodes of the requests counted.
LEMMA NextNodes ==
  ASSUME NEW K, Suits(K), Consistent(K), [Next]_vars
  PROVE  NodesInv'
<1>1. IInv /\ NodesInv /\ CacheInv(K)
  BY DEF Consistent
<1>2. CASE Admit
  BY <1>1, <1>2, AdmitNodes
<1>3. CASE ReturnFromStep
  BY <1>1, <1>3, OtherNodes DEF ReturnFromStep
<1>4. CASE Decode
  BY <1>1, <1>4, DecodeCacheEffect, EmptiedNodes
<1>5. ASSUME NEW prompt \in Prompts, NEW max_new \in MaxNewTokens, AddRequest(prompt, max_new)
      PROVE  NodesInv'
  BY <1>1, <1>5, AddRequestNodes
<1>6. CASE \E enable \in CachingSettings : EnablePrefixCaching(enable)
  BY <1>1, <1>6, OtherNodes DEF EnablePrefixCaching
<1>7. CASE ResetKVCache
  BY <1>1, <1>7, OtherNodes DEF ResetKVCache
<1>8. CASE Destroy
  BY <1>1, <1>8, DestroyNodes
<1>9. CASE UNCHANGED vars
  BY <1>1, <1>9, OtherNodes DEF vars
<1> QED BY <1>2, <1>3, <1>4, <1>5, <1>6, <1>7, <1>8, <1>9 DEF Next, Step

\* Every step keeps the cache in the set K.
LEMMA NextCache ==
  ASSUME NEW K, Suits(K), Consistent(K), [Next]_vars
  PROVE  CacheInv(K)'
<1>1. IInv /\ NodesInv /\ CacheInv(K) /\ resets \in Nat
  BY DEF Consistent
<1>2. prefix_caching_enabled \in CachingSettings
  BY <1>1 DEF CacheInv
<1>3. CASE Admit
  BY <1>1, <1>3, AdmitCache
<1>4. CASE ReturnFromStep
  BY <1>1, <1>2, <1>4, OtherCache DEF ReturnFromStep
<1>5. CASE Decode
  BY <1>1, <1>5, DecodeCache
<1>6. CASE \E prompt \in Prompts, max_new \in MaxNewTokens : AddRequest(prompt, max_new)
  BY <1>1, <1>2, <1>6, OtherCache DEF AddRequest
<1>7. CASE \E enable \in CachingSettings : EnablePrefixCaching(enable)
  BY <1>1, <1>7, OtherCache DEF EnablePrefixCaching
<1>8. CASE ResetKVCache
  BY <1>1, <1>8, ResetCache
<1>9. CASE Destroy
  BY <1>1, <1>9, DestroyCache
<1>10. CASE UNCHANGED vars
  BY <1>1, <1>2, <1>10, OtherCache DEF vars
<1> QED BY <1>3, <1>4, <1>5, <1>6, <1>7, <1>8, <1>9, <1>10 DEF Next, Step

\* The slots stay a function, and the flag and the counter keep their types.
LEMMA NextFlags ==
  ASSUME NEW K, Consistent(K), [Next]_vars
  PROVE  /\ active_slots' = [s \in Slots |-> active_slots'[s]]
         /\ admitted_any' \in BOOLEAN
         /\ resets' \in Nat
<1>1. /\ active_slots = [s \in Slots |-> active_slots[s]]
      /\ admitted_any \in BOOLEAN /\ resets \in Nat
  BY DEF Consistent
<1>2. CASE Admit
  <2>1. admitted_any' = TRUE /\ resets' = resets
    BY <1>2 DEF Admit
  <2>2. Active # Slots
    BY <1>2 DEF Admit, CanAdmit
  <2>3. \E v, s : active_slots' = [active_slots EXCEPT ![s] = v]
    BY <1>2 DEF Admit
  <2>4. active_slots' = [s \in Slots |-> active_slots'[s]]
    BY <1>1, <2>3
  <2> QED BY <1>1, <2>1, <2>4
<1>3. CASE ReturnFromStep
  BY <1>1, <1>3 DEF ReturnFromStep
<1>4. CASE Decode
  <2>1. admitted_any' = admitted_any /\ resets' = resets
    BY <1>4 DEF Decode
  <2>2. PICK done : Empties(done)
    BY <1>4, DecodeEffect DEF Consistent
  <2> QED BY <1>1, <2>1, <2>2 DEF Empties
<1>5. CASE \E prompt \in Prompts, max_new \in MaxNewTokens : AddRequest(prompt, max_new)
  BY <1>1, <1>5 DEF AddRequest
<1>6. CASE \E enable \in CachingSettings : EnablePrefixCaching(enable)
  BY <1>1, <1>6 DEF EnablePrefixCaching
<1>7. CASE ResetKVCache
  BY <1>1, <1>7 DEF ResetKVCache
<1>8. CASE Destroy
  BY <1>1, <1>8 DEF Destroy
<1>9. CASE UNCHANGED vars
  BY <1>1, <1>9 DEF vars
<1> QED BY <1>2, <1>3, <1>4, <1>5, <1>6, <1>7, <1>8, <1>9 DEF Next, Step

\* Every step keeps it.
LEMMA ConsistentStep ==
  ASSUME NEW K, Suits(K), Consistent(K), [Next]_vars
  PROVE  Consistent(K)'
<1>1. IInv'
  BY NextStep DEF Consistent
<1>2. NodesInv'
  BY NextNodes
<1>3. CacheInv(K)'
  BY NextCache
<1>4. /\ active_slots' = [s \in Slots |-> active_slots'[s]]
      /\ admitted_any' \in BOOLEAN /\ resets' \in Nat
  BY NextFlags
<1> QED BY <1>1, <1>2, <1>3, <1>4 DEF Consistent

\* With any settings, the cache is accounted for.
LEMMA AccountedSuits == Suits(Accounted) /\ InitialKV(WarmPages) \in Accounted
BY AccountedKept, AccountedTakesPages, InitialAccounted DEF Suits

\* As long as nothing is cached, no page is mapped twice.
LEMMA ExclusiveSuits ==
  /\ NothingCached => Suits(Exclusive)
  /\ InitialKV(WarmPages) \in Exclusive
BY ExclusiveKept, InitialExclusive DEF Suits

\* No step takes a node out of the tree.
LEMMA CachedStays ==
  ASSUME Consistent(Accounted), [Next]_vars
  PROVE  Paths(tree) \subseteq Paths(tree')
<1>1. IInv /\ NodesInv /\ CacheInv(Accounted) /\ Suits(Accounted)
  BY AccountedSuits DEF Consistent
<1>2. CASE Admit
  <2>1. pending_queue # <<>> /\ Active # Slots
    BY <1>2 DEF Admit, CanAdmit
  <2>2. PICK z : AdmitsCache(z)
    BY <1>1, <1>2, AdmitCacheEffect
  <2> QED BY <1>1, <2>1, <2>2, AdmitTree
<1>3. CASE Decode
  <2>1. PICK done : Empties(done) /\ GivesUp(done)
    BY <1>1, <1>3, DecodeCacheEffect
  <2>2. PICK reqs :
          /\ \A s \in done : reqs[active_slots[s]].matched_radix_nodes = Held(active_slots[s])
          /\ tree' = ReleaseAll(tree, reqs, done)
    BY <2>1 DEF GivesUp
  <2>3. PICK t : t = tree'
    OBVIOUS
  <2>4. Paths(t) = Paths(tree)
    BY <1>1, <2>1, <2>2, <2>3, ReleaseAllEffect DEF Empties
  <2> QED BY <2>3, <2>4
<1>4. CASE Destroy
  <2>1. PICK t : t = tree'
    OBVIOUS
  <2>2. t = ReleaseAll(tree, all_requests, Active)
    BY <1>4, <2>1 DEF Destroy
  <2>3. \A s \in Active : all_requests[active_slots[s]].matched_radix_nodes = Held(active_slots[s])
    BY DEF Held
  <2>4. Paths(t) = Paths(tree)
    BY <1>1, <2>2, <2>3, ReleaseAllEffect
  <2> QED BY <2>1, <2>4
<1>5. ASSUME tree' = tree PROVE Paths(tree) \subseteq Paths(tree')
  BY <1>5
<1>6. CASE ReturnFromStep
  BY <1>5, <1>6 DEF ReturnFromStep
<1>7. CASE \E prompt \in Prompts, max_new \in MaxNewTokens : AddRequest(prompt, max_new)
  BY <1>5, <1>7 DEF AddRequest
<1>8. CASE \E enable \in CachingSettings : EnablePrefixCaching(enable)
  BY <1>5, <1>8 DEF EnablePrefixCaching
<1>9. CASE ResetKVCache
  BY <1>5, <1>9 DEF ResetKVCache
<1>10. CASE UNCHANGED vars
  BY <1>5, <1>10 DEF vars
<1> QED BY <1>2, <1>3, <1>4, <1>6, <1>7, <1>8, <1>9, <1>10 DEF Next, Step

(***************************************************************************)
(* The inductive invariant of the scheduler together with the cache and    *)
(* the tree, with any caching settings.                                    *)
(***************************************************************************)
THEOREM SchedulerConsistent == Spec => []Consistent(Accounted)
<1>1. Init => Consistent(Accounted)
  BY AccountedSuits, ConsistentInit
<1>2. Consistent(Accounted) /\ [Next]_vars => Consistent(Accounted)'
  BY AccountedSuits, ConsistentStep
<1> QED BY <1>1, <1>2, PTL DEF Spec

(***************************************************************************)
(* The stronger one, as long as nothing is cached.                         *)
(***************************************************************************)
THEOREM SchedulerExclusive == Spec => [](NothingCached => Consistent(Exclusive))
<1>1. Init => (NothingCached => Consistent(Exclusive))
  BY ExclusiveSuits, ConsistentInit
<1>2. Consistent(Accounted) /\ (NothingCached => Consistent(Exclusive)) /\ [Next]_vars
        => (NothingCached => Consistent(Exclusive))'
  <2> SUFFICES ASSUME Consistent(Accounted), NothingCached => Consistent(Exclusive),
                      [Next]_vars, NothingCached'
               PROVE  Consistent(Exclusive)'
    OBVIOUS
  <2>1. Paths(tree') = {}
    BY DEF NothingCached, Paths
  <2>2. NothingCached
    BY <2>1, CachedStays DEF NothingCached
  <2> QED BY <2>2, ExclusiveSuits, ConsistentStep
<1> QED BY <1>1, <1>2, SchedulerConsistent, PTL DEF Spec

----------------------------------------------------------------------------
\* The requests that ran out of the queue are among the submitted ones.
LEMMA RunningSubmitted ==
  ASSUME IInv
  PROVE  \A s \in Active : active_slots[s] \in 1..Submitted
<1> SUFFICES ASSUME NEW s \in Active PROVE active_slots[s] \in 1..Submitted
  OBVIOUS
<1>1. active_slots[s] \in 1..Admitted
  BY DEF IInv, RunningUnfinished
<1>2. Submitted \in Nat /\ Admitted \in 0..Submitted
  BY QueueFacts DEF IInv
<1> QED BY <1>1, <1>2

\* The invariant types every variable.
LEMMA TypesFromInvariant == Consistent(Accounted) => TypeOK
<1> SUFFICES ASSUME Consistent(Accounted) PROVE TypeOK
  OBVIOUS
<1>1. IInv /\ NodesInv /\ CacheInv(Accounted)
  BY DEF Consistent
<1>2. PICK n \in Nat : n = Submitted
  BY <1>1 DEF IInv, RequestList
<1>3. Ids = 1..n
  BY <1>1, <1>2, QueueFacts DEF IInv, Ids
<1>4. ASSUME NEW id \in 1..n PROVE all_requests[id] \in RequestType
  <2>1. PICK x : x = all_requests[id]
    OBVIOUS
  <2>2. IsRequest(x)
    BY <1>1, <1>2, <2>1 DEF IInv, RequestList
  <2>3. x.prompt \in Prompts /\ x.max_new_tokens \in MaxNewTokens
    BY <1>1, <1>2, <2>1 DEF NodesInv, RequestsKnown
  <2>4. x.matched_radix_nodes \in Seq(Seq(Range(Hash)))
    BY <1>1, <1>2, <2>1 DEF NodesInv, NodesHeld, Held
  <2>5. x \in RequestType
    BY <2>2, <2>3, <2>4 DEF IsRequest, RequestType
  <2> QED BY <2>1, <2>5
<1>5. all_requests \in Seq(RequestType)
  <2>1. all_requests = [id \in 1..n |-> all_requests[id]]
    BY <1>1, <1>2 DEF IInv, RequestList
  <2>2. all_requests \in [1..n -> RequestType]
    BY <1>4, <2>1
  <2> QED BY <2>2
<1>6. pending_queue \in Seq(Ids)
  <2>1. PICK k : k = Len(pending_queue)
    OBVIOUS
  <2>2. /\ k \in Nat /\ Admitted \in 0..n /\ n = Admitted + k
        /\ pending_queue \in Seq(Nat) /\ \A i \in 1..k : pending_queue[i] = Admitted + i
    BY <1>1, <1>2, <2>1, QueueFacts DEF IInv, QueueIsTail
  <2>3. \A i \in 1..k : pending_queue[i] \in 1..n
    BY <2>2
  <2>4. pending_queue \in [1..k -> 1..n]
    BY <2>1, <2>2, <2>3
  <2> QED BY <1>3, <2>2, <2>4
<1>7. active_slots \in [Slots -> Ids \cup {NoRequest}]
  <2>1. \A s \in Slots : active_slots[s] \in Ids \cup {NoRequest}
    BY <1>1, <1>2, <1>3, RunningSubmitted DEF Active
  <2> QED BY <2>1 DEF Consistent
<1>8. kv \in KVState
  BY <1>1 DEF CacheInv, Accounted
<1>9. prefix_caching_enabled \in BOOLEAN
  BY <1>1, SchedulerAssumption DEF CacheInv
<1>10. admitted_any \in BOOLEAN /\ destroyed \in BOOLEAN /\ resets \in Nat
  BY DEF Consistent, IInv
<1> QED BY <1>5, <1>6, <1>7, <1>8, <1>9, <1>10 DEF TypeOK, KVState, SlotType

(***************************************************************************)
(* Every variable keeps its type; of the page manager and its pool this    *)
(* takes that total_mapped never gets below zero, so that every page that  *)
(* is unmapped was counted.                                                *)
(***************************************************************************)
THEOREM TypesOK == Spec => []TypeOK
BY SchedulerConsistent, TypesFromInvariant, PTL

\* The invariant counts the requests that hold a node.
LEMMA RefsFromInvariant == Consistent(Accounted) => NodeRefsAreRequests
<1> SUFFICES ASSUME Consistent(Accounted) PROVE NodeRefsAreRequests
  OBVIOUS
<1>1. IInv /\ NodesInv
  BY DEF Consistent
<1>2. Ids = 1..Submitted
  BY <1>1, QueueFacts DEF IInv, Ids
<1>3. ASSUME NEW q PROVE HoldersOf(q) = Holders(q)
  BY <1>2 DEF HoldersOf, Holders, Held, Elements
<1>4. ASSUME NEW q \in Paths(tree)
      PROVE  tree.nodes[q].ref_count = Cardinality(HoldersOf(q)) /\ HoldersOf(q) \subseteq Running
  <2>1. tree.nodes[q].ref_count = Cardinality(HoldersOf(q))
    BY <1>1, <1>3 DEF NodesInv, NodesCounted, Refs
  <2>2. ASSUME NEW id \in Holders(q) PROVE id \in Running
    <3>1. id \in 1..Submitted /\ Held(id) # <<>>
      BY NoElements DEF Holders
    <3>2. RunsInSlot(id)
      BY <1>1, <3>1 DEF NodesInv, NodesHeld
    <3> QED BY <3>2 DEF RunsInSlot, Running
  <2> QED BY <1>3, <2>1, <2>2
<1>5. ASSUME NEW id \in Ids, NEW i \in DOMAIN all_requests[id].matched_radix_nodes
      PROVE  all_requests[id].matched_radix_nodes[i] \in Paths(tree)
  <2>1. Elements(Held(id)) \subseteq Paths(tree)
    BY <1>1, <1>2 DEF NodesInv, NodesHeld
  <2> QED BY <2>1 DEF Held, Elements
<1> QED BY <1>4, <1>5 DEF NodeRefsAreRequests

(***************************************************************************)
(* The ref_count of every radix node is the number of running requests     *)
(* that matched it, however requests end and whatever the settings.        *)
(***************************************************************************)
THEOREM RefsAreRequests == Spec => []NodeRefsAreRequests
BY SchedulerConsistent, RefsFromInvariant, PTL

\* The invariant leaves nothing mapped when there is no work.
LEMMA UnmappedFromInvariant == Consistent(Accounted) => NothingMappedWithoutWork
<1> SUFFICES ASSUME Consistent(Accounted), Idle, ~HasWork
             PROVE  /\ kv.vmm.total_mapped = 0
                    /\ \A a \in Addrs : kv.vmm.mapped_pages[a] = NoHandle
  BY DEF NothingMappedWithoutWork
<1>1. CacheInv(Accounted) /\ ~destroyed /\ Active = {}
  BY DEF Consistent, Idle, HasWork
<1>2. kv \in Accounted /\ \A s \in Slots : ~kv.paged_slots[s].active
  BY <1>1 DEF CacheInv
<1>3. ASSUME NEW a \in Addrs PROVE kv.vmm.mapped_pages[a] = NoHandle
  <2>1. PICK s \in Slots, i \in 0..(SlotPages - 1) : a = <<s, i>>
    BY AddrFacts
  <2>2. PagesOf(kv, s) = <<>>
    BY <1>2, AccountedFacts
  <2>3. kv.vmm.mapped_pages[<<s, i>>] # NoHandle => i < Len(PagesOf(kv, s))
    BY <1>2, AccountedFacts
  <2>4. ~(i < 0) /\ Len(<<>>) = 0
    BY AddrFacts
  <2> QED BY <2>1, <2>2, <2>3, <2>4
<1>4. MappedAddrs(kv.vmm) = {}
  BY <1>3 DEF MappedAddrs
<1>5. Counts(kv.vmm)
  BY <1>2 DEF Accounted
<1>6. kv.vmm.total_mapped = 0
  BY <1>4, <1>5, FS_EmptySet DEF Counts
<1> QED BY <1>3, <1>6

(***************************************************************************)
(* When nothing is left to do, nothing is mapped: whatever was admitted,   *)
(* shared, backed to fill a batch and reset before.                        *)
(***************************************************************************)
THEOREM UnmappedWithoutWork == Spec => []NothingMappedWithoutWork
BY SchedulerConsistent, UnmappedFromInvariant, PTL

----------------------------------------------------------------------------
\* The facts of a state in which no page is mapped twice.
LEMMA ExclusiveFacts ==
  ASSUME Consistent(Exclusive)
  PROVE  /\ kv \in Accounted /\ kv \in Exclusive /\ kv.vmm \in PoolState
         /\ Bookkept(kv) /\ SoleOwner(kv.vmm)
BY DEF Consistent, CacheInv, Exclusive, Accounted, KVState

\* The invariant relates the bookkeeping to the mappings.
LEMMA BookkeepingFromInvariant == (NothingCached => Consistent(Exclusive)) => BookkeepingIsMapping
<1> SUFFICES ASSUME NothingCached => Consistent(Exclusive), NothingCached, NEW a \in Addrs
             PROVE  LET pages == kv.paged_slots[a[1]].pages IN
                    kv.vmm.mapped_pages[a] =
                      IF a[2] < Len(pages) THEN pages[a[2] + 1] ELSE NoHandle
  BY DEF BookkeepingIsMapping
<1>1. Bookkept(kv)
  BY ExclusiveFacts
<1>2. PICK s \in Slots, i \in 0..(SlotPages - 1) : a = <<s, i>>
  BY AddrFacts
<1>3. a[1] = s /\ a[2] = i
  BY <1>2
<1> QED BY <1>1, <1>2, <1>3 DEF Bookkept, PagesOf

(***************************************************************************)
(* As long as nothing is cached, the bookkeeping of every slot lists       *)
(* exactly what is mapped in its window, so free_slot releases what it     *)
(* unmaps.                                                                 *)
(***************************************************************************)
THEOREM BookkeepingRight == Spec => []BookkeepingIsMapping
BY SchedulerExclusive, BookkeepingFromInvariant, PTL

\* The invariant counts the addresses of a page.
LEMMA ExclusiveFromInvariant == (NothingCached => Consistent(Exclusive)) => PagesExclusive
<1> SUFFICES ASSUME NothingCached => Consistent(Exclusive), NothingCached, NEW h \in Handles
             PROVE  /\ kv.vmm.handle_refcounts[h]
                         = Cardinality({a \in Addrs : kv.vmm.mapped_pages[a] = h})
                    /\ kv.vmm.handle_refcounts[h] <= 1
  BY DEF PagesExclusive
<1>1. PICK v \in PoolState : v = kv.vmm
  BY ExclusiveFacts
<1>2. SoleOwner(v)
  BY <1>1, ExclusiveFacts
<1>3. PICK A : A = {a \in Addrs : v.mapped_pages[a] = h}
  OBVIOUS
<1>4. h # NoHandle
  BY NoHandleAssumption
<1>5. CASE Mapped(v, h)
  <2>1. PICK a \in Addrs : v.mapped_pages[a] = h
    BY <1>5 DEF Mapped
  <2>2. \A b \in A : b = a
    BY <1>2, <1>3, <1>4, <2>1 DEF SoleOwner, MappedOnce, MappedAddrs
  <2>3. A = {a}
    BY <1>3, <2>1, <2>2
  <2>4. Cardinality(A) = 1
    BY <2>3, FS_Singleton
  <2>5. v.handle_refcounts[h] = 1
    BY <1>2, <1>5 DEF SoleOwner
  <2> QED BY <1>1, <1>3, <2>4, <2>5
<1>6. CASE ~Mapped(v, h)
  <2>1. A = {}
    BY <1>3, <1>6 DEF Mapped
  <2>2. Cardinality(A) = 0
    BY <2>1, FS_EmptySet
  <2>3. v.handle_refcounts[h] = 0
    BY <1>2, <1>6 DEF SoleOwner
  <2> QED BY <1>1, <1>3, <2>2, <2>3
<1> QED BY <1>5, <1>6

(***************************************************************************)
(* As long as nothing is cached, a page belongs to one address of one      *)
(* slot: no request can read or overwrite what another one computed.       *)
(***************************************************************************)
THEOREM PagesBelongToOne == Spec => []PagesExclusive
BY SchedulerExclusive, ExclusiveFromInvariant, PTL

\* The invariant backs the slots of running requests.
LEMMA BackedFromInvariant ==
  ASSUME Enough
  PROVE  (NothingCached => Consistent(Exclusive)) => RunningRequestsBacked
<1> SUFFICES ASSUME NothingCached => Consistent(Exclusive), NothingCached, resets = 0,
                    NEW s \in Active, NEW i \in 0..(SlotPages - 1)
             PROVE  kv.vmm.mapped_pages[<<s, i>>] # NoHandle
  BY DEF RunningRequestsBacked
<1>1. s \in Slots
  BY DEF Active
<1>2. Backed(kv, s)
  BY DEF Consistent, CacheInv
<1>3. PICK p : p = PagesOf(kv, s)
  OBVIOUS
<1>4. p \in Seq(Handles \cup {NoHandle}) /\ Len(p) = SlotPages /\ NoHandle \notin Elements(p)
  <2>1. p \in Seq(Handles \cup {NoHandle})
    BY <1>1, <1>3, ExclusiveFacts, AccountedFacts
  <2>2. NoHandle \notin Elements(p)
    BY <1>1, <1>3, ExclusiveFacts DEF Exclusive
  <2> QED BY <1>2, <1>3, <2>1, <2>2 DEF Backed
<1>5. i < Len(p) /\ i + 1 \in DOMAIN p
  BY <1>4, AddrFacts
<1>6. kv.vmm.mapped_pages[<<s, i>>] = p[i + 1]
  BY <1>1, <1>3, <1>5, ExclusiveFacts DEF Bookkept
<1>7. p[i + 1] \in Elements(p)
  BY <1>5 DEF Elements
<1> QED BY <1>4, <1>6, <1>7

(***************************************************************************)
(* With a page for every address and as long as nothing is cached, the     *)
(* whole window of every running request stays mapped until the cache is   *)
(* reset.                                                                  *)
(***************************************************************************)
THEOREM RunningBacked ==
  ASSUME Enough
  PROVE  Spec => []RunningRequestsBacked
BY SchedulerExclusive, BackedFromInvariant, PTL

================================================================================
