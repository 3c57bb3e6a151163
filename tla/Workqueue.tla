------------------------------ MODULE Workqueue ------------------------------
(***************************************************************************)
(* The client-go rate-limiting work queue, which every controller of the   *)
(* repository uses (external code, modelled from how src/ calls it).       *)
(*                                                                         *)
(* A queue is a record of three sets.  "dirty" holds the items that need   *)
(* processing, "processing" the items a worker has taken and not yet given *)
(* back, "delayed" the items waiting for their back-off to elapse.  An     *)
(* item added while it is being processed stays dirty and can be taken     *)
(* again only after Done.  The FIFO order among the items that can be      *)
(* taken and the length of the back-off (which Forget resets) are          *)
(* abstracted: any item that can be taken may be taken next, and a delayed *)
(* item may come back at any time.                                         *)
(***************************************************************************)

Queues(Items) ==
    [dirty : SUBSET Items, processing : SUBSET Items, delayed : SUBSET Items]

Queue(dirty, processing, delayed) ==
    [dirty |-> dirty, processing |-> processing, delayed |-> delayed]

EmptyQueue == Queue({}, {}, {})

\* Mutant of Add: an item added while a worker has it is forgotten.
AddUnlessProcessing(q, item) ==
    IF item \in q.processing
    THEN q
    ELSE Queue(q.dirty \cup {item}, q.processing, q.delayed)

\* queue.Add(item)
Add(q, item) == Queue(q.dirty \cup {item}, q.processing, q.delayed)

\* queue.Get() may return item.
CanGet(q, item) == item \in q.dirty \ q.processing

\* queue.Get() returns item.
Get(q, item) == Queue(q.dirty \ {item}, q.processing \cup {item}, q.delayed)

\* queue.Done(item)
Done(q, item) == Queue(q.dirty, q.processing \ {item}, q.delayed)

\* queue.AddRateLimited(item): the item comes back after its back-off.
AddRateLimited(q, item) == Queue(q.dirty, q.processing, q.delayed \cup {item})

\* The back-off of item has elapsed: the delaying queue adds it.
BackoffOver(q, item) ==
    Queue(q.dirty \cup {item}, q.processing, q.delayed \ {item})

\* No worker has item, and none will be given it unless it is added again.
Idle(q, item) == item \notin q.dirty \cup q.processing \cup q.delayed
==============================================================================
