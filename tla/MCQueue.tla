------------------------------ MODULE MCQueue -------------------------------
(***************************************************************************)
(* The queue of one producer and the list of producers for TLC.  A         *)
(* behaviour is one of one part and the other stays as it is at first, so  *)
(* that the run has the sum of their states and not the product: what the  *)
(* list relies on of a producer, that dequeue takes what there is unless   *)
(* another consumer is busy, is what the other part shows.                 *)
(***************************************************************************)
EXTENDS ImplicitProducer, ConcurrentQueue, TLC

CONSTANTS k1, k2

\* Ways to dequeue.
MCUses == {(k1 :> {"scored", "walk", "token"}) @@ (k2 :> {"from"}),
           (k1 :> {"walk", "bulk"}) @@ (k2 :> {"from"}),
           (k1 :> {"token"}) @@ (k2 :> {"scored"}),
           (k1 :> {"token", "bulk"}) @@ (k2 :> {})}

VARIABLE part

partVars == <<part, implicitVars, queueVars>>

MCInit ==
  /\ part \in {"producer", "calls"}
  /\ ImplicitInit /\ QueueInit
  /\ part = "producer" => token[k1].initial = 0 /\ uses[k2] = {}

OfProducer(A) == part = "producer" /\ A /\ UNCHANGED <<part, queueVars>>
OfCalls(A) == part = "calls" /\ A /\ UNCHANGED <<part, implicitVars>>

MCNext == OfProducer(ImplicitNext) \/ OfCalls(QueueNext)

\* The fairness of ImplicitFairSpec and of QueueSpec.
MCSpec ==
  /\ MCInit /\ [][MCNext]_partVars
  /\ \A c \in Consumers : WF_partVars(OfProducer(Consuming(c)))
  /\ \A c \in Takers : WF_partVars(OfCalls(CallGoesOn(c)))
=============================================================================
