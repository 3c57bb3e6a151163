------------------------------- MODULE Informer -------------------------------
(***************************************************************************)
(* The client-go shared informer (external code, modelled from how src/    *)
(* uses it).  A reflector lists and watches the API server; every watch    *)
(* event changes the indexer (the cache) and is then handed, in order, to  *)
(* the event handler, which runs in a goroutine of its own.  The cache may *)
(* therefore be ahead of the handler, and both are behind the server.      *)
(*                                                                         *)
(* Events.  "modified" and "deleted" come from the watch; "initial" and    *)
(* "replaced" from a list; "gone" is what a re-list makes of an object     *)
(* that disappeared while the watch was broken: the handler then gets a    *)
(* cache.DeletedFinalStateUnknown tombstone instead of the object.         *)
(***************************************************************************)
EXTENDS Naturals, Sequences

CONSTANT Absent    \* the value of a key that holds no object

EventTypes == {"modified", "deleted", "initial", "replaced", "gone"}
Events(Objects) == [type : EventTypes, obj : Objects]

\* What the cache holds for the key once the event has been applied to it.
CacheAfter(event) ==
    IF event.type \in {"deleted", "gone"} THEN Absent ELSE event.obj

NotificationTypes == {"add", "update", "delete", "tombstone"}
Notifications(Objects) ==
    [type : NotificationTypes, old : Objects, new : Objects]

\* What the handler is told of an event that finds the object old in the
\* cache: OnAdd(new), OnUpdate(old, new), OnDelete(old) or OnDelete(tombstone).
NotificationOf(event, old) ==
    IF event.type = "deleted"
    THEN [type |-> "delete", old |-> event.obj, new |-> Absent]
    ELSE IF event.type = "gone"
    THEN [type |-> "tombstone", old |-> old, new |-> Absent]
    ELSE [type |-> IF old = Absent THEN "add" ELSE "update",
          old |-> old, new |-> event.obj]

\* The events a first list of an object produces.
FirstList(obj) ==
    IF obj = Absent THEN <<>> ELSE <<[type |-> "initial", obj |-> obj]>>

\* The events a re-list produces: it replaces what was still to be delivered.
ReList(obj, cached) ==
    IF obj # Absent
    THEN <<[type |-> "replaced", obj |-> obj]>>
    ELSE IF cached # Absent
    THEN <<[type |-> "gone", obj |-> cached]>>
    ELSE <<>>

\* The contents the cache has and will have, unless the watch breaks.  What it
\* has before the first list is in it counts for nothing.
Upcoming(cached, events) ==
    LET later == [i \in 1..Len(events) |-> CacheAfter(events[i])]
    IN  IF events # <<>> /\ Head(events).type = "initial"
        THEN later
        ELSE <<cached>> \o later

\* informer.HasSynced(): everything of the first list is in the cache.
HasSynced(stream) ==
    \A k \in DOMAIN stream : \A i \in 1..Len(stream[k]) :
        stream[k][i].type # "initial"
===============================================================================
