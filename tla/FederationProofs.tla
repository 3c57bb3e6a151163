--------------------------- MODULE FederationProofs ---------------------------
(***************************************************************************)
(* Theorems about Federation, for any number of hubs and of changes: its   *)
(* types, that policies reach the regional hubs only from those whose      *)
(* namespace they are in, and that what the hubs find gets into the        *)
(* summary.                                                                *)
(***************************************************************************)
EXTENDS Federation, TLAPS

-------------------------------------------------------------------------------
(* Types.                                                                  *)

\* A policy that is not there is a policy record like any other.
LEMMA AbsentType == Absent \in Policies
BY FederationAssumption DEF Absent, Policies, NoContent, Contents, Namespaces

\* What may be changed of a policy keeps it a policy.
LEMMA ChangedPolicy ==
    ASSUME NEW p \in Policies, NEW c \in Contents,
           NEW l \in Namespaces \cup {NoLabel}, NEW st \in States \cup {NoState},
           NEW sm \in [Hubs -> States \cup {NoState}]
    PROVE  /\ [p EXCEPT !.content = c] \in Policies
           /\ [p EXCEPT !.content = c, !.label = l] \in Policies
           /\ [p EXCEPT !.label = l] \in Policies
           /\ [p EXCEPT !.status = st] \in Policies
           /\ [p EXCEPT !.status = st, !.summary = sm] \in Policies
BY DEF Policies

\* A policy whose summary is told of one more hub is a policy.
LEMMA FoldedPolicy ==
    ASSUME NEW p \in Policies, NEW n \in Namespaces, NEW st \in States \cup {NoState}
    PROVE  [p EXCEPT !.summary[n] = st] \in Policies
BY DEF Policies

\* The fields of a policy.
LEMMA Fields ==
    ASSUME NEW p \in Policies
    PROVE  /\ p.content \in Contents
           /\ p.label \in Namespaces \cup {NoLabel}
           /\ p.status \in States \cup {NoState}
           /\ p.summary \in [Hubs -> States \cup {NoState}]
BY DEF Policies

\* A write to the global hub keeps the types of what it changes.
LEMMA WriteGlobalType ==
    ASSUME TypeOK, NEW n \in Namespaces, NEW p \in Policies, NEW done,
           WriteGlobal(n, p, done)
    PROVE  /\ global' \in [Namespaces -> Policies]
           /\ policyQueue' \subseteq Namespaces
BY DEF TypeOK, WriteGlobal

\* The spec syncers are given namespaces.
LEMMA QueueSpecType ==
    ASSUME TypeOK, NEW n \in Namespaces, NEW p
    PROVE  QueueSpec(n, p) \in [Hubs -> SUBSET Namespaces]
BY DEF TypeOK, QueueSpec

\* A write to a regional hub keeps the types of what it changes.
LEMMA WriteRegionalType ==
    ASSUME TypeOK, NEW h \in Hubs, NEW n \in Places, NEW p \in Policies,
           WriteRegional(h, n, p)
    PROVE  /\ regional' \in [Hubs -> [Places -> Policies]]
           /\ statusQueue' \in [Hubs -> SUBSET Places]
BY DEF TypeOK, WriteRegional

\* The bound on the changes bounds each kind of them.
LEMMA CountersType ==
    ASSUME TypeOK, MayChange
    PROVE  /\ writes + 1 \in 0..MaxChanges /\ deletes + 1 \in 0..MaxChanges
           /\ locals + 1 \in 0..MaxChanges /\ reports + 1 \in 0..MaxChanges
<1>1. writes \in Nat /\ deletes \in Nat /\ locals \in Nat /\ reports \in Nat
  BY FederationAssumption DEF TypeOK
<1> QED  BY <1>1, FederationAssumption DEF MayChange

\* Every step keeps the types.
LEMMA TypeStep ==
    ASSUME TypeOK, [Next]_vars
    PROVE  TypeOK'
<1> USE FederationAssumption
<1>1. CASE UserWrite
  <2> DEFINE p == [global[Global] EXCEPT
                     !.content = [by |-> Global, version |-> writes + 1]]
  <2>1. Global \in Namespaces /\ global[Global] \in Policies
    BY DEF Namespaces, TypeOK
  <2>2. [by |-> Global, version |-> writes + 1] \in Contents
    BY <2>1 DEF Contents, TypeOK
  <2>3. p \in Policies
    BY <2>1, <2>2, ChangedPolicy DEF Policies
  <2>4. WriteGlobal(Global, p, {}) /\ specQueue' = QueueSpec(Global, p)
    BY <1>1 DEF UserWrite
  <2> HIDE DEF p
  <2>5. global' \in [Namespaces -> Policies] /\ policyQueue' \subseteq Namespaces
    BY <2>1, <2>3, <2>4, WriteGlobalType
  <2>6. specQueue' \in [Hubs -> SUBSET Namespaces]
    BY <2>1, <2>4, QueueSpecType
  <2>7. writes' \in 0..MaxChanges
    BY <1>1, CountersType DEF UserWrite
  <2> QED  BY <1>1, <2>5, <2>6, <2>7 DEF UserWrite, TypeOK
<1>2. CASE UserDelete
  <2>1. Global \in Namespaces
    BY DEF Namespaces
  <2>2. WriteGlobal(Global, Absent, {}) /\ specQueue' = QueueSpec(Global, Absent)
    BY <1>2 DEF UserDelete
  <2>3. global' \in [Namespaces -> Policies] /\ policyQueue' \subseteq Namespaces
    BY <2>1, <2>2, AbsentType, WriteGlobalType
  <2>4. specQueue' \in [Hubs -> SUBSET Namespaces]
    BY <2>1, <2>2, QueueSpecType
  <2>5. deletes' \in 0..MaxChanges
    BY <1>2, CountersType DEF UserDelete
  <2> QED  BY <1>2, <2>3, <2>4, <2>5 DEF UserDelete, TypeOK
<1>3. ASSUME NEW h \in Hubs, LocalWrite(h)
      PROVE  TypeOK'
  <2> DEFINE p == [regional[h][Local] EXCEPT
                     !.content = [by |-> h, version |-> locals + 1]]
  <2>1. Local \in Places /\ regional[h][Local] \in Policies
    BY DEF Places, TypeOK
  <2>2. [by |-> h, version |-> locals + 1] \in Contents
    BY DEF Contents, Namespaces, TypeOK
  <2>3. p \in Policies
    BY <2>1, <2>2, ChangedPolicy DEF Policies
  <2>4. WriteRegional(h, Local, p)
    BY <1>3 DEF LocalWrite
  <2> HIDE DEF p
  <2>5. /\ regional' \in [Hubs -> [Places -> Policies]]
        /\ statusQueue' \in [Hubs -> SUBSET Places]
    BY <2>1, <2>3, <2>4, WriteRegionalType
  <2>6. locals' \in 0..MaxChanges
    BY <1>3, CountersType DEF LocalWrite
  <2> QED  BY <1>3, <2>5, <2>6 DEF LocalWrite, TypeOK
<1>4. ASSUME NEW h \in Hubs, NEW n \in Places, SyncStatus(h, n)
      PROVE  TypeOK'
  <2> DEFINE p == regional[h][n]
             copy == IF global[h] = Absent THEN p
                     ELSE [global[h] EXCEPT !.status = p.status, !.summary = p.summary]
  <2>1. h \in Namespaces /\ global[h] \in Policies /\ p \in Policies
    BY DEF Namespaces, TypeOK
  <2>2. copy \in Policies
    BY <2>1, Fields DEF Policies
  <2>3. WriteGlobal(h, copy, {}) /\ specQueue' = QueueSpec(h, copy)
    BY <1>4 DEF SyncStatus
  <2>4. statusQueue' \in [Hubs -> SUBSET Places]
    BY <1>4 DEF SyncStatus, TypeOK
  <2> HIDE DEF copy
  <2>5. global' \in [Namespaces -> Policies] /\ policyQueue' \subseteq Namespaces
    BY <2>1, <2>2, <2>3, WriteGlobalType
  <2>6. specQueue' \in [Hubs -> SUBSET Namespaces]
    BY <2>1, <2>3, QueueSpecType
  <2> QED  BY <1>4, <2>4, <2>5, <2>6 DEF SyncStatus, TypeOK, counters
<1>5. ASSUME NEW h \in Hubs, NEW n \in Places, NEW state \in States,
             Evaluate(h, n, state)
      PROVE  TypeOK'
  <2> DEFINE p == [regional[h][n] EXCEPT !.status = state]
  <2>0. regional[h][n] \in Policies
    BY DEF TypeOK
  <2>1. p \in Policies
    BY <2>0 DEF Policies
  <2>2. WriteRegional(h, n, p)
    BY <1>5 DEF Evaluate
  <2> HIDE DEF p
  <2>3. /\ regional' \in [Hubs -> [Places -> Policies]]
        /\ statusQueue' \in [Hubs -> SUBSET Places]
    BY <2>1, <2>2, WriteRegionalType
  <2>4. reports' \in 0..MaxChanges
    BY <1>5, CountersType DEF Evaluate
  <2> QED  BY <1>5, <2>3, <2>4 DEF Evaluate, TypeOK
<1>6. ASSUME NEW h \in Hubs, NEW n \in Namespaces, SyncSpec(h, n)
      PROVE  TypeOK'
  <2> DEFINE p == IF global[n] = Absent THEN Absent
                  ELSE [regional[h][n] EXCEPT !.content = global[n].content,
                                              !.label = global[n].label]
  <2>1. n \in Places /\ global[n] \in Policies /\ regional[h][n] \in Policies
    BY DEF Places, TypeOK
  <2>2. p \in Policies
    BY <2>1, AbsentType, Fields DEF Policies
  <2>3. WriteRegional(h, n, p)
    BY <1>6 DEF SyncSpec
  <2>4. specQueue' \in [Hubs -> SUBSET Namespaces]
    BY <1>6 DEF SyncSpec, TypeOK
  <2> HIDE DEF p
  <2>5. /\ regional' \in [Hubs -> [Places -> Policies]]
        /\ statusQueue' \in [Hubs -> SUBSET Places]
    BY <2>1, <2>2, <2>3, WriteRegionalType
  <2> QED  BY <1>6, <2>4, <2>5 DEF SyncSpec, TypeOK, counters
<1>7. ASSUME NEW n \in Namespaces, Reconcile(n)
      PROVE  TypeOK'
  <2> DEFINE p == global[n]
             labelled == [p EXCEPT !.label = n]
             folded == [global[p.label] EXCEPT !.summary[n] = p.status]
  <2>1. p \in Policies
    BY DEF TypeOK
  <2>2. CASE WriteGlobal(n, labelled, {n}) /\ specQueue' = QueueSpec(n, labelled)
    <3>1. labelled \in Policies
      BY <2>1 DEF Policies
    <3> HIDE DEF labelled
    <3>2. global' \in [Namespaces -> Policies] /\ policyQueue' \subseteq Namespaces
      BY <2>2, <3>1, WriteGlobalType
    <3>3. specQueue' \in [Hubs -> SUBSET Namespaces]
      BY <2>2, QueueSpecType
    <3> QED  BY <1>7, <3>2, <3>3 DEF Reconcile, TypeOK, counters
  <2>3. CASE /\ p.label \in Namespaces
             /\ WriteGlobal(p.label, folded, {n})
             /\ specQueue' = QueueSpec(p.label, folded)
    <3>1. global[p.label] \in Policies /\ p.status \in States \cup {NoState}
      BY <2>1, <2>3, Fields DEF TypeOK
    <3>2. folded \in Policies
      BY <3>1, FoldedPolicy
    <3> HIDE DEF folded
    <3>3. global' \in [Namespaces -> Policies] /\ policyQueue' \subseteq Namespaces
      BY <2>3, <3>2, WriteGlobalType
    <3>4. specQueue' \in [Hubs -> SUBSET Namespaces]
      BY <2>3, QueueSpecType
    <3> QED  BY <1>7, <3>3, <3>4 DEF Reconcile, TypeOK, counters
  <2>4. CASE policyQueue' = policyQueue \ {n} /\ UNCHANGED <<global, specQueue>>
    BY <1>7, <2>4 DEF Reconcile, TypeOK, counters
  <2>5. p.label = NoLabel \/ p.label \in Namespaces
    BY <2>1, Fields
  <2> QED  BY <1>7, <2>2, <2>3, <2>4, <2>5 DEF Reconcile
<1>8. CASE UNCHANGED vars
  BY <1>8 DEF vars, TypeOK
<1> QED  BY <1>1, <1>2, <1>3, <1>4, <1>5, <1>6, <1>7, <1>8 DEF Next

\* Every behaviour of the federation keeps the types, whatever the hubs are and
\* however many changes there are (TypeOK).
THEOREM TypeCorrect == Spec => []TypeOK
<1>1. Init => TypeOK
  BY AbsentType, FederationAssumption DEF Init, TypeOK
<1>2. TypeOK /\ [Next]_vars => TypeOK'
  BY TypeStep
<1> QED  BY <1>1, <1>2, PTL DEF Spec

-------------------------------------------------------------------------------
(* Origin.                                                                 *)

\* A policy of the global hub that is released, or will be once it is labelled, was
\* written by those whose namespace it is in.  The copies of policies from other
\* namespaces have the label of those.
OwnContent ==
    \A n \in Namespaces :
        global[n] # Absent /\ global[n].label \in {NoLabel, n} =>
            global[n].content.by = n

\* What a spec syncer has to do is about released policies.
QueuedIsReleased ==
    \A h \in Hubs : \A n \in specQueue[h] : global[n].label = n

\* What is on a regional hub in a namespace of the global hub has the label and
\* the content of that namespace.
AppliedIsReleased ==
    \A h \in Hubs, n \in Namespaces :
        regional[h][n] # Absent =>
            regional[h][n].label = n /\ regional[h][n].content.by = n

\* What a hub has of its own has no label.
LocalIsUnlabelled ==
    \A h \in Hubs :
        regional[h][Local] # Absent =>
            regional[h][Local].label = NoLabel /\ regional[h][Local].content.by = h

OriginInv ==
    deletes = 0 =>
        OwnContent /\ QueuedIsReleased /\ AppliedIsReleased /\ LocalIsUnlabelled

\* A write to the global hub that takes no label away and gives none to a content
\* of somebody else keeps what is known of the policies and the queues.
LEMMA GlobalWrite ==
    ASSUME TypeOK, OwnContent, QueuedIsReleased,
           NEW n \in Namespaces, NEW p, NEW done,
           WriteGlobal(n, p, done), specQueue' = QueueSpec(n, p),
           p # Absent /\ p.label \in {NoLabel, n} => p.content.by = n,
           global[n].label = n => p.label = n
    PROVE  OwnContent' /\ QueuedIsReleased'
<1>1. global' = [global EXCEPT ![n] = p] /\ global \in [Namespaces -> Policies]
  BY DEF WriteGlobal, TypeOK
<1>2. OwnContent'
  BY <1>1 DEF OwnContent, Absent, NoContent
<1>3. specQueue \in [Hubs -> SUBSET Namespaces]
  BY DEF TypeOK
<1>4. ASSUME NEW h \in Hubs, NEW m \in specQueue'[h]
      PROVE  global'[m].label = m
  <2>1. CASE m \in specQueue[h]
    <3>1. global[m].label = m /\ m \in Namespaces
      BY <1>3, <2>1 DEF QueuedIsReleased
    <3> QED  BY <1>1, <3>1
  <2>2. CASE m \notin specQueue[h]
    <3>1. Released(n, global[n], p) /\ m = n
      BY <1>3, <1>4, <2>2 DEF QueueSpec
    <3>2. p.label = n
      BY <3>1 DEF Released
    <3> QED  BY <1>1, <3>1, <3>2
  <2> QED  BY <2>1, <2>2
<1> QED  BY <1>2, <1>4 DEF QueuedIsReleased

\* A write to a regional hub keeps what is known of the hubs if it is about a
\* policy with the label and the content that its namespace asks for.
LEMMA RegionalWrite ==
    ASSUME TypeOK, AppliedIsReleased, LocalIsUnlabelled,
           NEW h \in Hubs, NEW n \in Places, NEW p,
           WriteRegional(h, n, p),
           n = Local => p.label = NoLabel /\ p.content.by = h,
           n # Local => p.label = n /\ p.content.by = n
    PROVE  AppliedIsReleased' /\ LocalIsUnlabelled'
<1>1. /\ regional' = [regional EXCEPT ![h][n] = p]
      /\ regional \in [Hubs -> [Places -> Policies]]
  BY DEF WriteRegional, TypeOK
<1>2. ASSUME NEW g \in Hubs, NEW m \in Places
      PROVE  regional'[g][m] = IF g = h /\ m = n THEN p ELSE regional[g][m]
  BY <1>1
<1>3. Local \in Places /\ Namespaces \subseteq Places /\ Local \notin Namespaces
  BY FederationAssumption DEF Places, Namespaces
<1>4. AppliedIsReleased'
  BY <1>2, <1>3 DEF AppliedIsReleased, Absent
<1>5. LocalIsUnlabelled'
  BY <1>2, <1>3 DEF LocalIsUnlabelled, Absent
<1> QED  BY <1>4, <1>5

\* Every step keeps what is known while nothing was deleted.
LEMMA OriginStep ==
    ASSUME TypeOK, OriginInv, [Next]_vars
    PROVE  OriginInv'
<1> SUFFICES ASSUME deletes' = 0
             PROVE  /\ OwnContent' /\ QueuedIsReleased'
                    /\ AppliedIsReleased' /\ LocalIsUnlabelled'
  BY DEF OriginInv
<1>1. CASE UserWrite
  <2> DEFINE p == [global[Global] EXCEPT
                     !.content = [by |-> Global, version |-> writes + 1]]
  <2>1. Global \in Namespaces /\ global[Global] \in Policies
    BY DEF Namespaces, TypeOK
  <2>2. p.content.by = Global /\ p.label = global[Global].label
    BY <2>1 DEF Policies
  <2>3. /\ WriteGlobal(Global, p, {}) /\ specQueue' = QueueSpec(Global, p)
        /\ deletes = 0 /\ regional' = regional
    BY <1>1 DEF UserWrite
  <2> HIDE DEF p
  <2>4. OwnContent' /\ QueuedIsReleased'
    BY <2>1, <2>2, <2>3, GlobalWrite DEF OriginInv
  <2> QED  BY <2>3, <2>4 DEF OriginInv, AppliedIsReleased, LocalIsUnlabelled
<1>2. CASE UserDelete
  <2>1. deletes' = deletes + 1 /\ deletes \in Nat
    BY <1>2, FederationAssumption DEF UserDelete, TypeOK
  <2> QED  BY <2>1
<1>3. ASSUME NEW h \in Hubs, LocalWrite(h)
      PROVE  /\ OwnContent' /\ QueuedIsReleased'
             /\ AppliedIsReleased' /\ LocalIsUnlabelled'
  <2> DEFINE p == [regional[h][Local] EXCEPT
                     !.content = [by |-> h, version |-> locals + 1]]
  <2>1. Local \in Places /\ regional[h][Local] \in Policies
    BY DEF Places, TypeOK
  <2>2. /\ WriteRegional(h, Local, p) /\ deletes = 0
        /\ global' = global /\ specQueue' = specQueue
    BY <1>3 DEF LocalWrite
  <2>3. regional[h][Local].label = NoLabel
    BY <2>2 DEF OriginInv, LocalIsUnlabelled, Absent
  <2>4. p.label = NoLabel /\ p.content.by = h
    BY <2>1, <2>3 DEF Policies
  <2> HIDE DEF p
  <2>5. AppliedIsReleased' /\ LocalIsUnlabelled'
    BY <2>1, <2>2, <2>4, RegionalWrite DEF OriginInv
  <2> QED  BY <2>2, <2>5 DEF OriginInv, OwnContent, QueuedIsReleased
<1>4. ASSUME NEW h \in Hubs, NEW n \in Places, SyncStatus(h, n)
      PROVE  /\ OwnContent' /\ QueuedIsReleased'
             /\ AppliedIsReleased' /\ LocalIsUnlabelled'
  <2> DEFINE p == regional[h][n]
             copy == IF global[h] = Absent THEN p
                     ELSE [global[h] EXCEPT !.status = p.status, !.summary = p.summary]
  <2>1. h \in Namespaces /\ global[h] \in Policies
    BY DEF Namespaces, TypeOK
  <2>2. /\ WriteGlobal(h, copy, {}) /\ specQueue' = QueueSpec(h, copy)
        /\ deletes = 0 /\ regional' = regional /\ p # Absent
    BY <1>4 DEF SyncStatus, counters
  <2>3. CASE global[h] = Absent
    <3>1. global[h].label # h
      BY <2>1, <2>3, FederationAssumption DEF Absent
    <3>2. n = Local => p.content.by = h
      BY <2>2 DEF OriginInv, LocalIsUnlabelled
    <3>3. n # Local => n \in Namespaces /\ p.label = n /\ p.content.by = n
      BY <2>2 DEF OriginInv, AppliedIsReleased, Places
    <3>4. copy.label \in {NoLabel, h} => copy.content.by = h
      BY <2>3, <3>2, <3>3, FederationAssumption
    <3> HIDE DEF copy
    <3> QED  BY <2>1, <2>2, <3>1, <3>4, GlobalWrite
             DEF OriginInv, AppliedIsReleased, LocalIsUnlabelled
  <2>4. CASE global[h] # Absent
    <3>1. copy.label = global[h].label /\ copy.content = global[h].content
      BY <2>1, <2>4 DEF Policies
    <3>2. global[h].label \in {NoLabel, h} => global[h].content.by = h
      BY <2>1, <2>2, <2>4 DEF OriginInv, OwnContent
    <3> HIDE DEF copy
    <3> QED  BY <2>1, <2>2, <3>1, <3>2, GlobalWrite
             DEF OriginInv, AppliedIsReleased, LocalIsUnlabelled
  <2> QED  BY <2>3, <2>4
<1>5. ASSUME NEW h \in Hubs, NEW n \in Places, NEW state \in States,
             Evaluate(h, n, state)
      PROVE  /\ OwnContent' /\ QueuedIsReleased'
             /\ AppliedIsReleased' /\ LocalIsUnlabelled'
  <2> DEFINE p == [regional[h][n] EXCEPT !.status = state]
  <2>1. regional[h][n] \in Policies
    BY DEF TypeOK
  <2>2. /\ WriteRegional(h, n, p) /\ deletes = 0 /\ regional[h][n] # Absent
        /\ global' = global /\ specQueue' = specQueue
    BY <1>5 DEF Evaluate
  <2>3. p.label = regional[h][n].label /\ p.content = regional[h][n].content
    BY <2>1 DEF Policies
  <2>4. n = Local => p.label = NoLabel /\ p.content.by = h
    BY <2>2, <2>3 DEF OriginInv, LocalIsUnlabelled
  <2>5. n # Local => p.label = n /\ p.content.by = n
    BY <2>2, <2>3 DEF OriginInv, AppliedIsReleased, Places
  <2> HIDE DEF p
  <2>6. AppliedIsReleased' /\ LocalIsUnlabelled'
    BY <2>2, <2>4, <2>5, RegionalWrite DEF OriginInv
  <2> QED  BY <2>2, <2>6 DEF OriginInv, OwnContent, QueuedIsReleased
<1>6. ASSUME NEW h \in Hubs, NEW n \in Namespaces, SyncSpec(h, n)
      PROVE  /\ OwnContent' /\ QueuedIsReleased'
             /\ AppliedIsReleased' /\ LocalIsUnlabelled'
  <2> DEFINE p == [regional[h][n] EXCEPT !.content = global[n].content,
                                         !.label = global[n].label]
  <2>1. /\ n \in Places /\ n # Local /\ regional[h][n] \in Policies
        /\ specQueue \in [Hubs -> SUBSET Namespaces]
    BY FederationAssumption DEF Places, Namespaces, TypeOK
  <2>2. /\ n \in specQueue[h] /\ deletes = 0 /\ global' = global
        /\ specQueue' = [specQueue EXCEPT ![h] = @ \ {n}]
    BY <1>6 DEF SyncSpec, counters
  <2>3. global[n].label = n
    BY <2>2 DEF OriginInv, QueuedIsReleased
  <2>4. global[n] # Absent
    BY <2>3, FederationAssumption DEF Absent
  <2>5. global[n].content.by = n
    BY <2>2, <2>3, <2>4 DEF OriginInv, OwnContent
  <2>6. WriteRegional(h, n, p)
    BY <1>6, <2>4 DEF SyncSpec
  <2>7. p.label = n /\ p.content.by = n
    BY <2>1, <2>3, <2>5 DEF Policies
  <2> HIDE DEF p
  <2>8. AppliedIsReleased' /\ LocalIsUnlabelled'
    BY <2>1, <2>2, <2>6, <2>7, RegionalWrite DEF OriginInv
  <2>9. QueuedIsReleased'
    BY <2>1, <2>2 DEF OriginInv, QueuedIsReleased
  <2> QED  BY <2>2, <2>8, <2>9 DEF OriginInv, OwnContent
<1>7. ASSUME NEW n \in Namespaces, Reconcile(n)
      PROVE  /\ OwnContent' /\ QueuedIsReleased'
             /\ AppliedIsReleased' /\ LocalIsUnlabelled'
  <2> DEFINE p == global[n]
             labelled == [p EXCEPT !.label = n]
             folded == [global[p.label] EXCEPT !.summary[n] = p.status]
  <2>1. p \in Policies
    BY DEF TypeOK
  <2>2. deletes = 0 /\ regional' = regional
    BY <1>7 DEF Reconcile, counters
  <2>3. CASE /\ p # Absent /\ p.label = NoLabel
             /\ WriteGlobal(n, labelled, {n}) /\ specQueue' = QueueSpec(n, labelled)
    <3>1. labelled.label = n /\ labelled.content = p.content
      BY <2>1 DEF Policies
    <3>2. p.content.by = n
      BY <2>2, <2>3 DEF OriginInv, OwnContent
    <3> HIDE DEF labelled
    <3> QED  BY <2>2, <2>3, <3>1, <3>2, GlobalWrite
             DEF OriginInv, AppliedIsReleased, LocalIsUnlabelled
  <2>4. CASE /\ p.label \in Namespaces /\ global[p.label] # Absent
             /\ WriteGlobal(p.label, folded, {n})
             /\ specQueue' = QueueSpec(p.label, folded)
    <3>1. global[p.label] \in Policies
      BY <2>4 DEF TypeOK
    <3>2. /\ folded.label = global[p.label].label
          /\ folded.content = global[p.label].content
      BY <3>1 DEF Policies
    <3>3. global[p.label].label \in {NoLabel, p.label} =>
              global[p.label].content.by = p.label
      BY <2>2, <2>4 DEF OriginInv, OwnContent
    <3> HIDE DEF folded
    <3> QED  BY <2>2, <2>4, <3>2, <3>3, GlobalWrite
             DEF OriginInv, AppliedIsReleased, LocalIsUnlabelled
  <2>5. CASE UNCHANGED <<global, specQueue>>
    BY <2>2, <2>5
    DEF OriginInv, OwnContent, QueuedIsReleased, AppliedIsReleased, LocalIsUnlabelled
  <2>6. p.label = NoLabel \/ p.label \in Namespaces
    BY <2>1, Fields
  <2> QED  BY <1>7, <2>3, <2>4, <2>5, <2>6 DEF Reconcile
<1>8. CASE UNCHANGED vars
  BY <1>8
  DEF vars, OriginInv, OwnContent, QueuedIsReleased, AppliedIsReleased, LocalIsUnlabelled
<1> QED  BY <1>1, <1>2, <1>3, <1>4, <1>5, <1>6, <1>7, <1>8 DEF Next

\* As long as no policy is deleted, a policy that a regional hub has in a namespace
\* was written by those whose namespace it is, for any number of hubs and changes
\* (Origin: what the spec syncers release and the policy controller labels).
THEOREM PoliciesKeepTheirOrigin == Spec => []Origin
<1>1. Init => OriginInv
  BY DEF Init, OriginInv, OwnContent, QueuedIsReleased, AppliedIsReleased,
         LocalIsUnlabelled, Places
<1>2. TypeOK /\ OriginInv /\ [Next]_vars => OriginInv'
  BY OriginStep
<1>3. OriginInv => Origin
  BY DEF OriginInv, AppliedIsReleased, Origin
<1> QED  BY <1>1, <1>2, <1>3, TypeCorrect, PTL DEF Spec

-------------------------------------------------------------------------------
(* SummaryComplete.                                                        *)

\* While nothing was deleted and no hub has a policy of its own, the policy in
\* Global is the only one that is released, and keeps its label once it has it ...
OnlyGlobalReleased ==
    /\ global[Global].label \in {NoLabel, Global}
    /\ global[Global] # Absent => global[Global].content # NoContent
    /\ \A h \in Hubs : /\ specQueue[h] \subseteq {Global}
                       /\ Global \in specQueue[h] => global[Global].label = Global

\* ... so it is all that the regional hubs have ...
OnlyGlobalApplied ==
    \A h \in Hubs :
        /\ \A n \in Places \ {Global} : regional[h][n] = Absent
        /\ statusQueue[h] \subseteq {Global}
        /\ regional[h][Global] # Absent =>
              /\ regional[h][Global].label = Global
              /\ regional[h][Global].content # NoContent
              /\ global[Global] # Absent

\* ... and what they send up are copies of it.
CopiesOfGlobal ==
    \A h \in Hubs : global[h] # Absent =>
        /\ global[h].label = Global
        /\ global[h].content # NoContent
        /\ global[Global] # Absent

\* What a hub found is in its copy, or its status syncer has still to send it.
FoundSentUp ==
    \A h \in Hubs : regional[h][Global].status # NoState =>
        \/ Global \in statusQueue[h]
        \/ global[h] # Absent /\ global[h].status = regional[h][Global].status

\* What a copy says is in the summary, or the controller has still to fold it.
SentUpFolded ==
    \A h \in Hubs : global[h] # Absent /\ global[h].status # NoState =>
        h \in policyQueue \/ global[Global].summary[h] = global[h].status

CompleteInv ==
    deletes = 0 /\ locals = 0 =>
        /\ OnlyGlobalReleased /\ OnlyGlobalApplied /\ CopiesOfGlobal
        /\ FoundSentUp /\ SentUpFolded

\* The namespaces are different places.
LEMMA Spaces ==
    /\ Global \in Namespaces /\ Global \in Places /\ Hubs \subseteq Namespaces
    /\ Namespaces \subseteq Places /\ Global \notin Hubs
    /\ NoLabel # Global /\ NoLabel \notin Hubs
    /\ Absent.label = NoLabel /\ Absent.content = NoContent /\ Absent.status = NoState
BY FederationAssumption DEF Namespaces, Places, Absent

\* The policy in Global is written: by a user, or by the controller, which labels
\* it or folds in the status of the copies in done.
LEMMA GlobalPolicyWrite ==
    ASSUME TypeOK, OnlyGlobalReleased, OnlyGlobalApplied, CopiesOfGlobal, FoundSentUp,
           SentUpFolded,
           NEW p \in Policies, NEW done, WriteGlobal(Global, p, done),
           specQueue' = QueueSpec(Global, p), UNCHANGED <<regional, statusQueue>>,
           p.label \in {NoLabel, Global}, p.content # NoContent,
           global[Global].label = Global => p.label = Global,
           \A h \in Hubs : \/ h \notin done /\ p.summary[h] = global[Global].summary[h]
                           \/ p.summary[h] = global[h].status
    PROVE  /\ OnlyGlobalReleased' /\ OnlyGlobalApplied' /\ CopiesOfGlobal'
           /\ FoundSentUp' /\ SentUpFolded'
<1>1. /\ global' = [global EXCEPT ![Global] = p] /\ global \in [Namespaces -> Policies]
      /\ policyQueue \ done \subseteq policyQueue'
  BY DEF WriteGlobal, TypeOK
<1>2. /\ global'[Global] = p /\ p # Absent
      /\ \A h \in Hubs : global'[h] = global[h]
  BY <1>1, Spaces
<1>3. \A h \in Hubs : /\ specQueue'[h] \subseteq specQueue[h] \cup {Global}
                      /\ Global \in specQueue'[h] => Global \in specQueue[h] \/ p.label = Global
  BY <1>2 DEF QueueSpec, Released, TypeOK
<1>4. OnlyGlobalReleased'
  BY <1>2, <1>3 DEF OnlyGlobalReleased
<1>5. OnlyGlobalApplied'
  BY <1>2 DEF OnlyGlobalApplied
<1>6. CopiesOfGlobal'
  BY <1>2 DEF CopiesOfGlobal
<1>7. FoundSentUp'
  BY <1>2 DEF FoundSentUp
<1>8. SentUpFolded'
  BY <1>1, <1>2 DEF SentUpFolded
<1> QED BY <1>4, <1>5, <1>6, <1>7, <1>8

\* The policy in Global is written on hub h: by its spec syncer, which keeps the
\* status, or by the hub, whose new status is reported.
LEMMA AppliedPolicyWrite ==
    ASSUME TypeOK, OnlyGlobalReleased, OnlyGlobalApplied, CopiesOfGlobal, FoundSentUp,
           SentUpFolded,
           NEW h \in Hubs, NEW p \in Policies, WriteRegional(h, Global, p),
           UNCHANGED <<global, policyQueue>>,
           \A g \in Hubs : specQueue'[g] \subseteq specQueue[g],
           p.label = Global, p.content # NoContent, global[Global] # Absent
    PROVE  /\ OnlyGlobalReleased' /\ OnlyGlobalApplied' /\ CopiesOfGlobal'
           /\ FoundSentUp' /\ SentUpFolded'
<1>1. /\ regional \in [Hubs -> [Places -> Policies]] /\ statusQueue \in [Hubs -> SUBSET Places]
      /\ regional' = [regional EXCEPT ![h][Global] = p]
  BY DEF WriteRegional, TypeOK
<1>2. /\ regional'[h][Global] = p
      /\ \A n \in Places \ {Global} : regional'[h][n] = regional[h][n]
      /\ \A g \in Hubs \ {h} : regional'[g] = regional[g]
  BY <1>1, Spaces
<1>3. /\ \A g \in Hubs : statusQueue[g] \subseteq statusQueue'[g]
      /\ \A g \in Hubs : statusQueue'[g] \subseteq statusQueue[g] \cup {Global}
      /\ p.status # regional[h][Global].status => Global \in statusQueue'[h]
  BY <1>1 DEF WriteRegional, Reported
<1>4. OnlyGlobalReleased'
  BY DEF OnlyGlobalReleased
<1>5. OnlyGlobalApplied'
  BY <1>2, <1>3 DEF OnlyGlobalApplied
<1>6. CopiesOfGlobal' /\ SentUpFolded'
  BY DEF CopiesOfGlobal, SentUpFolded
<1>7. FoundSentUp'
  BY <1>2, <1>3 DEF FoundSentUp
<1> QED BY <1>4, <1>5, <1>6, <1>7

\* The copy of hub h is written with the status that the hub has.
LEMMA CopyWrite ==
    ASSUME TypeOK, OnlyGlobalReleased, OnlyGlobalApplied, CopiesOfGlobal, FoundSentUp,
           SentUpFolded,
           NEW h \in Hubs, NEW p \in Policies, WriteGlobal(h, p, {}),
           specQueue' = QueueSpec(h, p), regional' = regional,
           statusQueue' = [statusQueue EXCEPT ![h] = @ \ {Global}],
           p.label = Global, p.content # NoContent, global[Global] # Absent,
           p.status = regional[h][Global].status
    PROVE  /\ OnlyGlobalReleased' /\ OnlyGlobalApplied' /\ CopiesOfGlobal'
           /\ FoundSentUp' /\ SentUpFolded'
<1>1. /\ global' = [global EXCEPT ![h] = p] /\ global \in [Namespaces -> Policies]
      /\ statusQueue \in [Hubs -> SUBSET Places]
      /\ policyQueue \subseteq policyQueue'
      /\ p \notin {Absent, global[h]} => h \in policyQueue'
  BY DEF WriteGlobal, TypeOK
<1>2. /\ p # Absent /\ global'[h] = p /\ global'[Global] = global[Global]
      /\ \A g \in Hubs \ {h} : global'[g] = global[g]
  BY <1>1, Spaces
<1>3. specQueue' = specQueue
  BY <1>2, Spaces DEF QueueSpec, Released
<1>4. OnlyGlobalReleased'
  BY <1>2, <1>3 DEF OnlyGlobalReleased
<1>5. \A g \in Hubs : /\ statusQueue'[g] \subseteq statusQueue[g]
                      /\ g # h => statusQueue'[g] = statusQueue[g]
  BY <1>1
<1>6. OnlyGlobalApplied'
  BY <1>2, <1>5 DEF OnlyGlobalApplied
<1>7. CopiesOfGlobal'
  BY <1>2 DEF CopiesOfGlobal
<1>8. FoundSentUp'
  BY <1>2, <1>5 DEF FoundSentUp
<1>9. SentUpFolded'
  BY <1>1, <1>2 DEF SentUpFolded
<1> QED BY <1>4, <1>6, <1>7, <1>8, <1>9

\* Every step keeps the invariant.
LEMMA CompleteStep ==
    ASSUME TypeOK, CompleteInv, [Next]_vars
    PROVE  CompleteInv'
<1> SUFFICES ASSUME deletes' = 0, locals' = 0
             PROVE  /\ OnlyGlobalReleased' /\ OnlyGlobalApplied' /\ CopiesOfGlobal'
                    /\ FoundSentUp' /\ SentUpFolded'
  BY DEF CompleteInv
<1> DEFINE Goal == /\ OnlyGlobalReleased' /\ OnlyGlobalApplied' /\ CopiesOfGlobal'
                   /\ FoundSentUp' /\ SentUpFolded'
<1>0. writes \in Nat /\ deletes \in Nat /\ locals \in Nat
  BY FederationAssumption DEF TypeOK
<1>t. /\ global \in [Namespaces -> Policies] /\ regional \in [Hubs -> [Places -> Policies]]
      /\ specQueue \in [Hubs -> SUBSET Namespaces] /\ statusQueue \in [Hubs -> SUBSET Places]
  BY DEF TypeOK
<1>i. ASSUME deletes = 0, locals = 0
      PROVE  /\ OnlyGlobalReleased /\ OnlyGlobalApplied /\ CopiesOfGlobal
             /\ FoundSentUp /\ SentUpFolded
  BY <1>i DEF CompleteInv
<1>1. CASE UserWrite
  <2> DEFINE c == [by |-> Global, version |-> writes + 1]
             p == [global[Global] EXCEPT !.content = c]
  <2>1. /\ WriteGlobal(Global, p, {}) /\ specQueue' = QueueSpec(Global, p)
        /\ UNCHANGED <<regional, statusQueue>> /\ deletes = 0 /\ locals = 0
    BY <1>1 DEF UserWrite
  <2>2. c \in Contents /\ c # NoContent
    BY <1>0, Spaces DEF Contents, NoContent
  <2>3. global[Global] \in Policies
    BY <1>t, Spaces
  <2> HIDE DEF c
  <2>4. /\ p \in Policies /\ p.content = c /\ p.label = global[Global].label
        /\ p.summary = global[Global].summary
    BY <2>2, <2>3 DEF Policies
  <2>5. global[Global].label \in {NoLabel, Global}
    BY <2>1, <1>i DEF OnlyGlobalReleased
  <2> HIDE DEF p
  <2> QED BY <2>1, <2>2, <2>4, <2>5, <1>i, GlobalPolicyWrite
<1>2. CASE UserDelete
  BY <1>0, <1>2 DEF UserDelete
<1>3. ASSUME NEW h \in Hubs, LocalWrite(h)
      PROVE  Goal
  BY <1>0, <1>3 DEF LocalWrite
<1>4. ASSUME NEW h \in Hubs, NEW n \in Places, NEW state \in States, Evaluate(h, n, state)
      PROVE  Goal
  <2> DEFINE p == [regional[h][n] EXCEPT !.status = state]
  <2>1. /\ WriteRegional(h, n, p) /\ regional[h][n] # Absent /\ deletes = 0 /\ locals = 0
        /\ UNCHANGED <<global, policyQueue>> /\ specQueue' = specQueue
    BY <1>4 DEF Evaluate
  <2>2. /\ n = Global /\ regional[h][n].label = Global /\ regional[h][n].content # NoContent
        /\ global[Global] # Absent
    BY <2>1, <1>i DEF OnlyGlobalApplied
  <2>3. regional[h][n] \in Policies
    BY <1>t
  <2>4. p \in Policies /\ p.label = regional[h][n].label /\ p.content = regional[h][n].content
    BY <2>3 DEF Policies
  <2> HIDE DEF p
  <2> QED BY <2>1, <2>2, <2>4, <1>i, AppliedPolicyWrite
<1>5. ASSUME NEW n \in Namespaces, Reconcile(n)
      PROVE  Goal
  <2> DEFINE p == global[n]
             labelled == [p EXCEPT !.label = n]
             folded == [global[p.label] EXCEPT !.summary[n] = p.status]
  <2>1. /\ UNCHANGED <<regional, statusQueue>> /\ deletes = 0 /\ locals = 0
    BY <1>5 DEF Reconcile, counters
  <2>2. p \in Policies /\ global[Global] \in Policies
    BY <1>t, Spaces
  <2>3. CASE p # Absent /\ p.label = NoLabel
    <3>1. n = Global
      BY <2>1, <2>3, <1>i, Spaces DEF CopiesOfGlobal, Namespaces
    <3>2. /\ WriteGlobal(Global, labelled, {n}) /\ specQueue' = QueueSpec(Global, labelled)
      BY <1>5, <2>3, <3>1 DEF Reconcile
    <3>3. /\ labelled \in Policies /\ labelled.label = Global
          /\ labelled.content = global[Global].content
          /\ labelled.summary = global[Global].summary
      BY <2>2, <3>1 DEF Policies
    <3>4. global[Global].content # NoContent
      BY <2>1, <2>3, <3>1, <1>i DEF OnlyGlobalReleased
    <3>5. \A h \in Hubs : h \notin {n}
      BY <3>1, Spaces
    <3> HIDE DEF labelled
    <3> QED BY <2>1, <3>2, <3>3, <3>4, <3>5, <1>i, GlobalPolicyWrite
  <2>4. CASE /\ p # Absent /\ p.label # NoLabel /\ p.label # n /\ p.status # NoState
             /\ global[p.label] # Absent
    <3>1. n \in Hubs /\ p.label = Global
      BY <2>1, <2>4, <1>i DEF CopiesOfGlobal, OnlyGlobalReleased, Namespaces
    <3>2. WriteGlobal(Global, folded, {n}) /\ specQueue' = QueueSpec(Global, folded)
      BY <1>5, <2>4, <3>1 DEF Reconcile
    <3>3. /\ folded.label = global[Global].label /\ folded.content = global[Global].content
          /\ folded.summary = [global[Global].summary EXCEPT ![n] = p.status]
      BY <2>2, <3>1 DEF Policies
    <3>4. folded \in Policies
      <4>1. p.status \in States \cup {NoState}
        BY <2>2, Fields
      <4> QED BY <2>2, <3>1, <4>1, FoldedPolicy
    <3>5. \A h \in Hubs : \/ h \notin {n} /\ folded.summary[h] = global[Global].summary[h]
                          \/ folded.summary[h] = global[h].status
      <4>1. global[Global].summary \in [Hubs -> States \cup {NoState}]
        BY <2>2, Fields
      <4> HIDE DEF folded
      <4> QED BY <3>1, <3>3, <4>1
    <3>6. global[Global].content # NoContent /\ global[Global].label \in {NoLabel, Global}
      BY <2>1, <2>4, <3>1, <1>i DEF OnlyGlobalReleased
    <3> HIDE DEF folded
    <3> QED BY <2>1, <3>2, <3>3, <3>4, <3>5, <3>6, <1>i, GlobalPolicyWrite
  <2>5. CASE /\ ~(p # Absent /\ p.label = NoLabel)
             /\ ~(p # Absent /\ p.label # n /\ p.status # NoState /\ global[p.label] # Absent)
    <3>1. policyQueue' = policyQueue \ {n} /\ UNCHANGED <<global, specQueue>>
      BY <1>5, <2>5 DEF Reconcile
    <3>2. ASSUME n \in Hubs, p # Absent, p.status # NoState
          PROVE  FALSE
      BY <2>1, <2>5, <3>2, <1>i, Spaces DEF CopiesOfGlobal
    <3>3. SentUpFolded'
      BY <2>1, <3>1, <3>2, <1>i DEF SentUpFolded
    <3> QED BY <2>1, <3>1, <3>3, <1>i
            DEF OnlyGlobalReleased, OnlyGlobalApplied, CopiesOfGlobal, FoundSentUp
  <2> QED BY <2>3, <2>4, <2>5
<1>6. ASSUME NEW h \in Hubs, NEW n \in Namespaces, SyncSpec(h, n)
      PROVE  Goal
  <2> DEFINE p == [regional[h][n] EXCEPT !.content = global[n].content,
                                         !.label = global[n].label]
  <2>1. n \in specQueue[h] /\ deletes = 0 /\ locals = 0 /\ UNCHANGED <<global, policyQueue>>
    BY <1>6 DEF SyncSpec, counters
  <2>2. n = Global /\ global[n].label = Global /\ global[n] # Absent
    BY <2>1, <1>i, Spaces DEF OnlyGlobalReleased
  <2>3. /\ WriteRegional(h, Global, p) /\ specQueue' = [specQueue EXCEPT ![h] = @ \ {n}]
    BY <1>6, <2>2 DEF SyncSpec
  <2>4. regional[h][n] \in Policies /\ global[n] \in Policies
    BY <1>t, <2>2, Spaces
  <2>5. p \in Policies
    BY <2>4, Fields, ChangedPolicy
  <2>6. p.label = global[n].label /\ p.content = global[n].content
    BY <2>4 DEF Policies
  <2>7. global[n].content # NoContent
    BY <2>1, <2>2, <1>i DEF OnlyGlobalReleased
  <2>8. \A g \in Hubs : specQueue'[g] \subseteq specQueue[g]
    BY <1>t, <2>3
  <2> HIDE DEF p
  <2> QED BY <2>1, <2>2, <2>3, <2>5, <2>6, <2>7, <2>8, <1>i, AppliedPolicyWrite
<1>7. ASSUME NEW h \in Hubs, NEW n \in Places, SyncStatus(h, n)
      PROVE  Goal
  <2> DEFINE p == regional[h][n]
             copy == IF global[h] = Absent THEN p
                     ELSE [global[h] EXCEPT !.status = p.status, !.summary = p.summary]
  <2>1. /\ n \in statusQueue[h] /\ p # Absent /\ deletes = 0 /\ locals = 0
        /\ WriteGlobal(h, copy, {}) /\ specQueue' = QueueSpec(h, copy)
        /\ statusQueue' = [statusQueue EXCEPT ![h] = @ \ {n}] /\ regional' = regional
    BY <1>7 DEF SyncStatus, counters
  <2>2. /\ n = Global /\ p.label = Global /\ p.content # NoContent /\ global[Global] # Absent
    BY <2>1, <1>i DEF OnlyGlobalApplied
  <2>3. p \in Policies /\ global[h] \in Policies
    BY <1>t, Spaces
  <2>4. copy \in Policies
    BY <2>3, Fields, ChangedPolicy
  <2>5. copy.label = Global /\ copy.content # NoContent /\ copy.status = p.status
    <3>1. CASE global[h] = Absent
      BY <2>2, <3>1
    <3>2. CASE global[h] # Absent
      <4>1. global[h].label = Global /\ global[h].content # NoContent
        BY <2>1, <3>2, <1>i DEF CopiesOfGlobal
      <4> QED BY <2>3, <3>2, <4>1 DEF Policies
    <3> QED BY <3>1, <3>2
  <2> HIDE DEF copy
  <2> QED BY <2>1, <2>2, <2>4, <2>5, <1>i, CopyWrite
<1>8. CASE UNCHANGED vars
  BY <1>8, <1>i DEF vars, OnlyGlobalReleased, OnlyGlobalApplied, CopiesOfGlobal,
                    FoundSentUp, SentUpFolded
<1> QED BY <1>1, <1>2, <1>3, <1>4, <1>5, <1>6, <1>7, <1>8 DEF Next

\* As long as no policy is deleted and no hub has one of its own, the summary on the
\* global hub says what every hub found once everything is done, for any number of
\* hubs and changes (SummaryComplete: what the status syncers send up and the policy
\* controller folds).
THEOREM FindingsReachSummary == Spec => []SummaryComplete
<1>1. Init => CompleteInv
  BY Spaces DEF Init, CompleteInv, OnlyGlobalReleased, OnlyGlobalApplied, CopiesOfGlobal,
                FoundSentUp, SentUpFolded, Places, Namespaces
<1>2. TypeOK /\ CompleteInv /\ [Next]_vars => CompleteInv'
  BY CompleteStep
<1>3. TypeOK /\ CompleteInv => SummaryComplete
  <2> SUFFICES ASSUME TypeOK, CompleteInv, Quiet, deletes = 0, locals = 0, NEW h \in Hubs,
                      regional[h][Global].status # NoState
               PROVE  global[Global].summary[h] = regional[h][Global].status
    BY DEF SummaryComplete
  <2>1. policyQueue = {} /\ Global \notin statusQueue[h]
    BY Spaces DEF Quiet
  <2> QED BY <2>1 DEF CompleteInv, FoundSentUp, SentUpFolded
<1> QED BY <1>1, <1>2, <1>3, TypeCorrect, PTL DEF Spec
===============================================================================
