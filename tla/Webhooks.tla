------------------------------ MODULE Webhooks ------------------------------
(***************************************************************************)
(* Change events to a subscriber (server/webhooks.py): requests put them   *)
(* in a bounded queue, one worker thread per dispatcher delivers them.     *)
(* The process-wide dispatcher is made by the first request that needs it, *)
(* without a lock.  A process that ends takes its queue with it, and only  *)
(* tests close a dispatcher; neither is modelled.                          *)
(***************************************************************************)
EXTENDS Integers, Sequences, FiniteSets

CONSTANTS
    Events,      \* one for each request that changes memory
    Dispatchers,
    None,
    MaxQueue     \* max_queue

WebhookAssumption == None \notin Events \cup Dispatchers /\ MaxQueue \in Nat \ {0}

VARIABLES
    global,     \* _DISPATCHER
    made,       \* dispatchers that exist, each with its worker
    queue,
    hand,       \* the event a worker is delivering
    counts,     \* _counts
    at,         \* how far the request of an event is
    accepted,   \* history: events put in a dispatcher's queue, in order
    tried       \* history: events a worker took up, in order

vars == <<global, made, queue, hand, counts, at, accepted, tried>>

NoCounts == [delivered |-> 0, failed |-> 0, dropped |-> 0]
Counted(d, what) == counts' = [counts EXCEPT ![d][what] = @ + 1]
Goto(e, step) == at' = [at EXCEPT ![e] = step]

-----------------------------------------------------------------------------
Init ==
    /\ global = None
    /\ made = {}
    /\ queue = [d \in Dispatchers |-> <<>>]
    /\ hand = [d \in Dispatchers |-> None]
    /\ counts = [d \in Dispatchers |-> NoCounts]
    /\ at = [e \in Events |-> "changed"]
    /\ accepted = [d \in Dispatchers |-> <<>>]
    /\ tried = [d \in Dispatchers |-> <<>>]

(***************************************************************************)
(* _emit, after the change it announces: get_webhook_dispatcher, dispatch. *)
(***************************************************************************)
Look(e) ==
    /\ at[e] = "changed"
    /\ Goto(e, IF global = None THEN "make" ELSE "dispatch")
    /\ UNCHANGED <<global, made, queue, hand, counts, accepted, tried>>

Make(e) ==
    /\ at[e] = "make"
    /\ \E d \in Dispatchers \ made :
          /\ made' = made \cup {d}
          /\ global' = d
    /\ Goto(e, "dispatch")
    /\ UNCHANGED <<queue, hand, counts, accepted, tried>>

MutNeverFull(d) == Len(queue[d]) > MaxQueue
Full(d) == Len(queue[d]) >= MaxQueue
Enqueued(d, e) == [queue EXCEPT ![d] = Append(@, e)]

(* The dispatcher is read again when the accessor returns it.              *)
Dispatch(e) ==
    /\ at[e] = "dispatch"
    /\ LET d == global IN
       \/ /\ ~Full(d)
          /\ queue' = Enqueued(d, e)
          /\ accepted' = [accepted EXCEPT ![d] = Append(@, e)]
          /\ UNCHANGED counts
       \/ Full(d) /\ Counted(d, "dropped") /\ UNCHANGED <<queue, accepted>>
    /\ Goto(e, "answered")
    /\ UNCHANGED <<global, made, hand, tried>>

(***************************************************************************)
(* The worker of a dispatcher.                                             *)
(***************************************************************************)
Take(d) ==
    /\ d \in made /\ hand[d] = None /\ queue[d] # <<>>
    /\ hand' = [hand EXCEPT ![d] = Head(queue[d])]
    /\ queue' = [queue EXCEPT ![d] = Tail(@)]
    /\ tried' = [tried EXCEPT ![d] = Append(@, Head(queue[d]))]
    /\ UNCHANGED <<global, made, counts, at, accepted>>

Deliver(d) ==
    /\ d \in made /\ hand[d] # None
    /\ hand' = [hand EXCEPT ![d] = None]
    /\ Counted(d, "delivered") \/ Counted(d, "failed")
    /\ UNCHANGED <<global, made, queue, at, accepted, tried>>

-----------------------------------------------------------------------------
Next ==
    \/ \E e \in Events : Look(e) \/ Make(e) \/ Dispatch(e)
    \/ \E d \in Dispatchers : Take(d) \/ Deliver(d)

Spec == Init /\ [][Next]_vars

-----------------------------------------------------------------------------
Answered == {e \in Events : at[e] = "answered"}

TypeOK ==
    /\ global \in Dispatchers \cup {None}
    /\ made \subseteq Dispatchers
    /\ queue \in [Dispatchers -> Seq(Events)]
    /\ hand \in [Dispatchers -> Events \cup {None}]
    /\ \A d \in Dispatchers : counts[d] \in [{"delivered", "failed", "dropped"} -> 0..Cardinality(Answered)]
    /\ at \in [Events -> {"changed", "make", "dispatch", "answered"}]
    /\ accepted \in [Dispatchers -> Seq(Events)]
    /\ tried \in [Dispatchers -> Seq(Events)]

(* An event that was accepted is told once, in the order of acceptance,    *)
(* and stats() accounts for it: it was taken up, or waits in a queue no    *)
(* longer than its bound; what was taken up was delivered, failed, or is   *)
(* in the worker's hand.  All this of each dispatcher there is.            *)
EveryEventAccounted ==
    \A d \in made :
        /\ Len(queue[d]) <= MaxQueue
        /\ accepted[d] = tried[d] \o queue[d]
        /\ Len(tried[d]) = counts[d].delivered + counts[d].failed
                            + (IF hand[d] = None THEN 0 ELSE 1)

=============================================================================
