------------------------------ MODULE Federation ------------------------------
(***************************************************************************)
(* The whole system: the global hub with its policy controller, and the    *)
(* regional hubs, each with its spec syncer and its status syncer.         *)
(*                                                                         *)
(* The components are those of PolicyController, SpecSyncer and            *)
(* StatusSyncer without their insides, which those modules check: an event *)
(* is handled when it happens, an item is processed in one step, on what   *)
(* its source then holds, and no request fails.  What is left is how the   *)
(* components feed each other.                                             *)
(*                                                                         *)
(* One policy name is modelled.  On the global hub it may exist in the     *)
(* namespace Global, where users write it, and in one namespace per hub,   *)
(* where the status syncer of the hub writes its copy.  On a regional hub  *)
(* it may exist in the same namespaces, where the spec syncer writes what  *)
(* the global hub releases, and in the namespace Local, where the users of *)
(* the hub write a policy of their own that has the same name.             *)
(***************************************************************************)
EXTENDS Naturals

CONSTANTS
    Hubs,        \* the regional hubs, and the namespaces of their syncers
    Global,      \* the namespace of the policy on the global hub
    Local,       \* a namespace of a regional hub
    NoLabel,     \* the label of a policy that has none
    States,      \* what a hub may find of a policy
    NoState,     \* and what it says of a policy that it has not looked at
    MaxChanges   \* bound: what users and hubs do

Namespaces == Hubs \cup {Global}
Places == Namespaces \cup {Local}

ASSUME FederationAssumption ==
    /\ {Global, Local} \cap Hubs = {} /\ Global # Local
    /\ NoLabel \notin Namespaces
    /\ NoState \notin States
    /\ MaxChanges \in Nat

VARIABLES
    global,      \* the policies on the global hub
    regional,    \* the policies on every regional hub
    policyQueue, \* the queue of the policy controller
    specQueue,   \* the queues of the spec syncers
    statusQueue, \* the queues of the status syncers
    writes, deletes, locals, reports

stores == <<global, regional>>
queues == <<policyQueue, specQueue, statusQueue>>
counters == <<writes, deletes, locals, reports>>
vars == <<global, regional, policyQueue, specQueue, statusQueue, writes, deletes,
          locals, reports>>

\* A content is known by who wrote it and when.
Contents == [by : Namespaces, version : Nat]
NoContent == [by |-> Global, version |-> 0]

\* summary says what the policy controller last folded in of every hub.
Policies == [content : Contents, label : Namespaces \cup {NoLabel},
             status : States \cup {NoState}, summary : [Hubs -> States \cup {NoState}]]
Absent == [content |-> NoContent, label |-> NoLabel, status |-> NoState,
           summary |-> [h \in Hubs |-> NoState]]

TypeOK ==
    /\ global \in [Namespaces -> Policies]
    /\ regional \in [Hubs -> [Places -> Policies]]
    /\ policyQueue \subseteq Namespaces
    /\ specQueue \in [Hubs -> SUBSET Namespaces]
    /\ statusQueue \in [Hubs -> SUBSET Places]
    /\ {writes, deletes, locals, reports} \subseteq 0..MaxChanges

Init ==
    /\ global = [n \in Namespaces |-> Absent]
    /\ regional = [h \in Hubs |-> [n \in Places |-> Absent]]
    /\ policyQueue = {}
    /\ specQueue = [h \in Hubs |-> {}]
    /\ statusQueue = [h \in Hubs |-> {}]
    /\ writes = 0
    /\ deletes = 0
    /\ locals = 0
    /\ reports = 0

-------------------------------------------------------------------------------
(* Writes and the events they cause.                                       *)

\* Mutant: every policy is released.
ReleasesAll(n, old, new) ==
    [content |-> old.content, label |-> old.label] #
        [content |-> new.content, label |-> new.label]

\* The handlers of the spec syncers, for old becoming new in n: the label has to
\* be that of the namespace (of the old policy, if that is deleted), and more
\* than the status has to change.
Released(n, old, new) ==
    /\ (IF new = Absent THEN old ELSE new).label = n
    /\ [content |-> old.content, label |-> old.label] #
           [content |-> new.content, label |-> new.label]

\* Mutant: a change of the status is no event.
AddsOnly(old, new) == old.content = NoContent

\* The handlers of the status syncers.
Reported(old, new) ==
    \/ NoContent \in {old.content, new.content}
    \/ old.status # new.status

\* The policy in n of the global hub becomes p; items leave the queue of the
\* policy controller.
WriteGlobal(n, p, processed) ==
    /\ global' = [global EXCEPT ![n] = p]
    /\ policyQueue' = (policyQueue \ processed)
                         \cup (IF p \in {Absent, global[n]} THEN {} ELSE {n})

\* What spec syncers have to do after p was written to n.
QueueSpec(n, p) ==
    IF Released(n, global[n], p)
    THEN [h \in Hubs |-> specQueue[h] \cup {n}]
    ELSE specQueue

\* The policy in n of hub h becomes p.
WriteRegional(h, n, p) ==
    /\ regional' = [regional EXCEPT ![h][n] = p]
    /\ statusQueue' = IF Reported(regional[h][n], p) /\ p # regional[h][n]
                      THEN [statusQueue EXCEPT ![h] = @ \cup {n}]
                      ELSE statusQueue

-------------------------------------------------------------------------------
(* Users and hubs.                                                         *)

MayChange == writes + deletes + locals + reports < MaxChanges

\* A policy is created, or changed (its label stays).
UserWrite ==
    /\ MayChange
    /\ writes' = writes + 1
    /\ LET p == [global[Global] EXCEPT
                    !.content = [by |-> Global, version |-> writes + 1]]
       IN  /\ WriteGlobal(Global, p, {})
           /\ specQueue' = QueueSpec(Global, p)
    /\ UNCHANGED <<regional, statusQueue, deletes, locals, reports>>

UserDelete ==
    /\ MayChange
    /\ global[Global] # Absent
    /\ deletes' = deletes + 1
    /\ WriteGlobal(Global, Absent, {})
    /\ specQueue' = QueueSpec(Global, Absent)
    /\ UNCHANGED <<regional, statusQueue, writes, locals, reports>>

\* The users of hub h write a policy of the same name.
LocalWrite(h) ==
    /\ MayChange
    /\ locals' = locals + 1
    /\ WriteRegional(h, Local, [regional[h][Local] EXCEPT
           !.content = [by |-> h, version |-> locals + 1]])
    /\ UNCHANGED <<global, policyQueue, specQueue, writes, deletes, reports>>

\* The hub looks at a policy.
Evaluate(h, n, state) ==
    /\ MayChange
    /\ regional[h][n] # Absent
    /\ regional[h][n].status # state
    /\ reports' = reports + 1
    /\ WriteRegional(h, n, [regional[h][n] EXCEPT !.status = state])
    /\ UNCHANGED <<global, policyQueue, specQueue, writes, deletes, locals>>

-------------------------------------------------------------------------------
(* The controllers.                                                        *)

\* The policy controller labels a policy without a label, and folds the status of
\* a hub's copy into the policy that its label names.
Reconcile(n) ==
    LET p == global[n]
        labelled == [p EXCEPT !.label = n]
        folded == [global[p.label] EXCEPT !.summary[n] = p.status]
    IN  /\ n \in policyQueue
        /\ IF p # Absent /\ p.label = NoLabel
           THEN /\ WriteGlobal(n, labelled, {n})
                /\ specQueue' = QueueSpec(n, labelled)
           ELSE IF /\ p # Absent /\ p.label # n /\ p.status # NoState
                   /\ global[p.label] # Absent
           THEN /\ WriteGlobal(p.label, folded, {n})
                /\ specQueue' = QueueSpec(p.label, folded)
           ELSE /\ policyQueue' = policyQueue \ {n}
                /\ UNCHANGED <<global, specQueue>>
        /\ UNCHANGED <<regional, statusQueue, counters>>

\* Mutant: a deletion is not carried out.
NeverDeletes(h, n) ==
    /\ n \in specQueue[h]
    /\ global[n] # Absent
    /\ WriteRegional(h, n, [regional[h][n] EXCEPT !.content = global[n].content,
                                                  !.label = global[n].label])
    /\ specQueue' = [specQueue EXCEPT ![h] = @ \ {n}]
    /\ UNCHANGED <<global, policyQueue, counters>>

\* The spec syncer of h applies what the global hub has in n, whether it is still
\* released or not, or deletes it.  (Deleting what is not there is an error, and
\* the item stays in the queue.)
SyncSpec(h, n) ==
    /\ n \in specQueue[h]
    /\ global[n] # Absent \/ regional[h][n] # Absent
    /\ WriteRegional(h, n,
          IF global[n] = Absent THEN Absent
          ELSE [regional[h][n] EXCEPT !.content = global[n].content,
                                      !.label = global[n].label])
    /\ specQueue' = [specQueue EXCEPT ![h] = @ \ {n}]
    /\ UNCHANGED <<global, policyQueue, counters>>

\* Mutant: the copy is labelled with the namespace it comes from.
LabelsWithSource(h, n) ==
    /\ n \in statusQueue[h]
    /\ regional[h][n] # Absent
    /\ WriteGlobal(h, [regional[h][n] EXCEPT !.label = n], {})
    /\ specQueue' = specQueue
    /\ statusQueue' = [statusQueue EXCEPT ![h] = @ \ {n}]
    /\ UNCHANGED <<regional, counters>>

\* The status syncer of h copies the policy in n to the namespace of h, whatever
\* n is: it creates the copy, or replaces the whole status that it has, with the
\* summary in it.  (A policy that is gone is an error, and the item stays.)
SyncStatus(h, n) ==
    LET p == regional[h][n]
        copy == IF global[h] = Absent THEN p
                ELSE [global[h] EXCEPT !.status = p.status, !.summary = p.summary]
    IN  /\ n \in statusQueue[h]
        /\ p # Absent
        /\ WriteGlobal(h, copy, {})
        /\ specQueue' = QueueSpec(h, copy)
        /\ statusQueue' = [statusQueue EXCEPT ![h] = @ \ {n}]
        /\ UNCHANGED <<regional, counters>>

-------------------------------------------------------------------------------
Next ==
    \/ UserWrite
    \/ UserDelete
    \/ \E h \in Hubs :
          \/ LocalWrite(h)
          \/ \E n \in Places : SyncStatus(h, n)
          \/ \E n \in Places, state \in States : Evaluate(h, n, state)
          \/ \E n \in Namespaces : SyncSpec(h, n)
    \/ \E n \in Namespaces : Reconcile(n)

Spec == Init /\ [][Next]_vars

\* The controllers and syncers keep working on their queues, which hand out the
\* items in turn.
Fairness ==
    /\ \A n \in Namespaces : WF_vars(Reconcile(n))
    /\ \A h \in Hubs :
          /\ \A n \in Namespaces : WF_vars(SyncSpec(h, n))
          /\ \A n \in Places : WF_vars(SyncStatus(h, n))

FairSpec == Spec /\ Fairness

-------------------------------------------------------------------------------
(* Properties.                                                             *)

\* Nothing is left to do but what fails for ever.
Quiet ==
    /\ policyQueue = {}
    /\ \A h \in Hubs :
          /\ \A n \in specQueue[h] : global[n] = Absent /\ regional[h][n] = Absent
          /\ \A n \in statusQueue[h] : regional[h][n] = Absent

\* A policy in a namespace of a regional hub was written by those whose namespace
\* it is: users of the global hub, or of the one hub.  The copies that hubs send
\* up for their status are not sent down again, and no hub changes what others
\* are given (syncer.go:150, statussyncer.go:91, policy_controller.go:76).
\* Deleting a policy and writing it again can break this: see the README.
Origin ==
    deletes = 0 =>
        \A h \in Hubs, n \in Namespaces :
            regional[h][n] # Absent => regional[h][n].content.by = n

\* Once everything is done the summary of the policy on the global hub says for
\* every hub what the hub found, as long as no policy was deleted and no hub has
\* a policy of its own of the same name, which would share the copy
\* (statussyncer.go:91, policy_controller.go:110).
SummaryComplete ==
    Quiet /\ deletes = 0 /\ locals = 0 =>
        \A h \in Hubs :
            LET found == regional[h][Global].status
            IN  found # NoState => global[Global].summary[h] = found

\* In the end the system comes to rest, what the syncers and controllers write
\* does not keep them busy for ever, and every hub has the policy as the users of
\* the global hub left it, or does not have it if they deleted it.  A policy that
\* is deleted for a second time may stay (syncer.go:148, 212): see the README.
HubsFollow ==
    <>[](/\ Quiet
         /\ deletes < 2 =>
               \A h \in Hubs : regional[h][Global].content = global[Global].content)
===============================================================================
