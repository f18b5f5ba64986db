---------------------------- MODULE AttributeProofs ----------------------------
(***************************************************************************)
(* Proofs about Attribute, for any number of users and of changes.         *)
(***************************************************************************)
EXTENDS Attribute, TLAPS

\* What the phases of a construction say about the subscription, and that
\* nobody uses an attribute before it is constructed.
Phases ==
    /\ ctor \in {"new", "subscribe", "attach"} => callback = "idle" /\ ~answered /\ ~subscribed
    /\ ~subscribed => events = <<>>
    /\ subscribed => (Follows \/ Collects) /\ Alive
    /\ ctor \in {"subscribe", "join", "fetch", "store", "unwind"} => Follows
    /\ kind = "only" => ctor \notin {"fetch", "store", "unwind"}
    /\ ctor \in {"join", "fetch", "store", "unwind"} => subscribed
    /\ kind = "only" /\ ctor = "ready" => subscribed /\ answered
    /\ \A u \in Users : pc[u] # "idle" => ctor = "ready"
    /\ \A u \in Users : pc[u] = "refreshed" => kind \in Refreshed

\* The same for the classes that collect events, whose base class subscribes.
EventPhases ==
    /\ ctor \in {"attach", "base", "leave"} => Collects
    /\ Collects /\ ctor \in {"base", "ready", "leave"} => subscribed
    /\ callback # "idle" => (callback = "process" <=> Collects)
    /\ \A u \in Users : pc[u] \in {"change", "changed"} => ~Collects
    /\ ~proxy => Collects
    /\ ctor \in {"new", "attach"} => value = None /\ collected = {}

\* The newest value that is known here: the last event on its way, or else
\* the one in the callback, or else the stored one.
Newest ==
    IF events # <<>> THEN events[Len(events)]
    ELSE IF callback # "idle" THEN event ELSE value

\* Once the first event was sent, the newest known value is the remote one.
NewestIsRemote ==
    Listener /\ subscribed /\ (answered \/ events # <<>> \/ callback # "idle")
        => Newest = remote

\* A user that stores the answer of the service has an event behind it: the
\* callback cannot get past the lock the user holds.
EventFollows ==
    Listener => \A u \in Users : pc[u] = "changed" => events # <<>> \/ callback # "idle"

\* The last event that was processed.
Processed == remote - Len(events) - (IF callback = "idle" THEN 0 ELSE 1)

\* Of each topic the last event after those that were missed, up to n.
LastUpTo(n) == {v \in missed + 1 .. n : \A w \in v + 1 .. n : Topic(w) # Topic(v)}

\* Every event after the subscription is on its way, in the callback, or in
\* what was collected.
Complete ==
    /\ missed <= Processed
    /\ \A i \in 1 .. Len(events) : events[i] = remote - Len(events) + i
    /\ callback # "idle" => event = Processed + 1
    /\ kind = "broadcast" => value = IF Processed = missed THEN None ELSE Processed
    /\ kind = "accumulative" => collected = LastUpTo(Processed)

EventsInv == Collects /\ subscribed /\ proxy => Complete

\* The inductive invariant.
AttributeInv == TypeOK /\ Phases /\ EventPhases /\ NewestIsRemote /\ EventFollows /\ EventsInv

-----------------------------------------------------------------------------
\* An attribute that nobody has constructed yet.
LEMMA AttributeInvInit == Init => AttributeInv
<1> SUFFICES ASSUME Init PROVE AttributeInv
  OBVIOUS
<1>1. 0 \in Versions
  BY AttributeAssumption DEF Versions
<1>2. Flags
  BY DEF Init, Flags
<1>3. TypeOK
  BY <1>1, <1>2, AttributeAssumption DEF Init, TypeOK
<1>4. Phases /\ EventPhases
  BY DEF Init, Phases, EventPhases, Follows, Alive
<1>5. NewestIsRemote /\ EventFollows /\ EventsInv
  BY DEF Init, NewestIsRemote, EventFollows, Listener, EventsInv
<1> QED
  BY <1>3, <1>4, <1>5 DEF AttributeInv

\* A change of the service keeps the types.
LEMMA ChangeTypes ==
    ASSUME TypeOK, Change
    PROVE  remote' \in Versions /\ events' \in Seq(Versions)
<1>1. remote + 1 \in Versions
  BY AttributeAssumption DEF TypeOK, Change, Versions
<1> QED
  BY <1>1 DEF TypeOK, Change

\* Every step keeps the types of the flags.
LEMMA FlagsStep == Flags /\ [Next]_vars => Flags'
<1> SUFFICES ASSUME Flags, [Next]_vars PROVE Flags'
  OBVIOUS
<1>1. \/ UNCHANGED <<subscribed, answered, proxy>>
      \/ subscribed' \in BOOLEAN /\ UNCHANGED <<answered, proxy>>
      \/ answered' \in BOOLEAN /\ UNCHANGED <<subscribed, proxy>>
      \/ proxy' \in BOOLEAN /\ UNCHANGED <<subscribed, answered>>
  <2>1. CASE UNCHANGED vars
    BY <2>1, Zenon DEF vars, attributeVars, eventVars
  <2>2. CASE RemoteChange \/ ProxyCollected
    BY <2>2, Zenon DEF RemoteChange, ProxyCollected, attributeVars, eventVars
  <2>3. CASE CtorStep
    BY <2>3, Zenon DEF CtorStep, Construct, Subscribe, Join, CtorFetch, CtorStore, CtorUnwind,
           Destructor, UnsubscribeChanges, Attach, Derive, attributeVars, eventVars
  <2>4. CASE DestructorStep \/ HelperStep
    BY <2>4, Zenon DEF DestructorStep, Destroy, DestroyDerived, DestroyBase, Destructor,
           UnsubscribeChanges, HelperStep, HelperWaits, HelperTimesOut, attributeVars, eventVars
  <2>5. CASE CallbackStep
    BY <2>5, Zenon DEF CallbackStep, Dispatch, CallbackTest, CallbackNotify, CallbackSet, SetValue,
           ProcessEvent, ProcessPureVirtual, UnsubscribeChanges, CallbackOnFreed, attributeVars,
           eventVars
  <2>6. ASSUME NEW u \in Users, UserStep(u) PROVE UNCHANGED <<subscribed, answered, proxy>>
    BY <2>6, Zenon DEF UserStep, RefreshFetch, RefreshStore, SetValue, MutateLock, MutateChange,
           MutateFails, MutateStore, MutateUncached, ReadLock, ReadEnd, attributeVars, eventVars
  <2> QED
    BY <2>1, <2>2, <2>3, <2>4, <2>5, <2>6, Zenon DEF Next
<1> QED
  BY <1>1 DEF Flags

\* Every step keeps the types.
LEMMA TypeStep == TypeOK /\ Phases /\ [Next]_vars => TypeOK'
<1> SUFFICES ASSUME TypeOK, Phases, [Next]_vars PROVE TypeOK'
  OBVIOUS
<1>0. Flags'
  BY FlagsStep DEF TypeOK
<1> USE <1>0 DEF TypeOK, attributeVars, eventVars
<1>1. CASE UNCHANGED vars
  BY <1>1 DEF vars, remoteVars, callbackVars, ctorVars, userVars
<1>2. CASE RemoteChange
  BY <1>2, ChangeTypes DEF RemoteChange, callbackVars, ctorVars, userVars
<1>3. CASE CtorStep
  <2>1. CASE Construct
    <3>1. ctor' \in {"subscribe", "attach", "ready"}
      BY <2>1 DEF Construct
    <3> QED
      BY <2>1, <3>1 DEF Construct, remoteVars, callbackVars, userVars
  <2>2. CASE Subscribe
    <3>1. <<>> \in Seq(Versions) /\ <<remote>> \in Seq(Versions)
      OBVIOUS
    <3> QED
      BY <2>2, <3>1 DEF Subscribe, callbackVars, userVars
  <2>3. CASE CtorStore
    BY <2>3 DEF CtorStore, remoteVars, callbackVars, userVars
  <2>4. CASE Join \/ CtorUnwind
    <3>1. events' = <<>> \/ events' = events
      BY <2>4 DEF Join, CtorUnwind, Destructor, UnsubscribeChanges
    <3>2. events' \in Seq(Versions)
      <4>1. events \in Seq(Versions) /\ <<>> \in Seq(Versions)
        OBVIOUS
      <4> HIDE DEF TypeOK
      <4> QED
        BY <3>1, <4>1
    <3> QED
      BY <2>4, <3>2 DEF Join, CtorUnwind, Destructor, callbackVars, userVars
  <2>5. CASE CtorFetch
    BY <2>5 DEF CtorFetch, remoteVars, callbackVars, userVars
  <2>6. CASE Attach \/ Derive
    BY <2>6 DEF Attach, Derive, remoteVars, callbackVars, userVars
  <2> QED
    BY <1>3, <2>1, <2>2, <2>3, <2>4, <2>5, <2>6 DEF CtorStep
<1>4. CASE HelperStep
  BY <1>4 DEF HelperStep, HelperWaits, HelperTimesOut, remoteVars, callbackVars, userVars
<1>5. CASE CallbackStep
  <2>1. CASE Dispatch
    <3>1. Head(events) \in Versions /\ Tail(events) \in Seq(Versions) /\ None \notin Versions
      BY <2>1, AttributeAssumption DEF Dispatch, Versions
    <3> QED
      BY <2>1, <3>1 DEF Dispatch, ctorVars, userVars
  <2>2. CASE CallbackTest \/ CallbackNotify
    BY <2>2 DEF CallbackTest, CallbackNotify, remoteVars, ctorVars, userVars
  <2>3. CASE CallbackSet \/ CallbackOnFreed
    BY <2>3 DEF CallbackSet, CallbackOnFreed, SetValue, remoteVars, ctorVars, userVars
  <2>4. CASE ProcessEvent
    <3>1. event \in Versions
      BY <2>4 DEF ProcessEvent
    <3>2. collected' \subseteq Versions /\ value' \in Versions \cup {None}
      BY <2>4, <3>1 DEF ProcessEvent, Accumulate
    <3> QED
      BY <2>4, <3>2 DEF ProcessEvent, remoteVars, ctorVars, userVars
  <2>5. CASE ProcessPureVirtual
    <3>1. events' \in Seq(Versions)
      BY <2>5 DEF ProcessPureVirtual, UnsubscribeChanges
    <3> QED
      BY <2>5, <3>1 DEF ProcessPureVirtual, userVars
  <2> QED
    BY <1>5, <2>1, <2>2, <2>3, <2>4, <2>5 DEF CallbackStep
<1>6. ASSUME NEW u \in Users, UserStep(u) PROVE TypeOK'
  <2>1. CASE RefreshFetch(u) \/ RefreshStore(u)
    BY <2>1 DEF RefreshFetch, RefreshStore, SetValue, remoteVars, callbackVars, ctorVars
  <2>2. CASE MutateLock(u) \/ ReadLock(u)
    BY <2>2, AttributeAssumption DEF MutateLock, ReadLock, remoteVars, callbackVars, ctorVars
  <2>3. CASE MutateChange(u) \/ MutateUncached(u)
    BY <2>3, ChangeTypes DEF MutateChange, MutateUncached, callbackVars, ctorVars, userVars
  <2>4. CASE MutateFails(u)
    BY <2>4, ChangeTypes, AttributeAssumption DEF MutateFails, remoteVars, callbackVars, ctorVars
  <2>5. CASE MutateStore(u) \/ ReadEnd(u)
    BY <2>5, AttributeAssumption DEF MutateStore, ReadEnd, remoteVars, callbackVars, ctorVars
  <2> QED
    BY <1>6, <2>1, <2>2, <2>3, <2>4, <2>5 DEF UserStep
<1>7. CASE DestructorStep \/ ProxyCollected
  <2>1. events' = <<>> \/ events' = events
    BY <1>7 DEF DestructorStep, Destroy, DestroyDerived, DestroyBase, Destructor,
                UnsubscribeChanges, ProxyCollected, remoteVars
  <2>2. events' \in Seq(Versions)
    <3>1. events \in Seq(Versions) /\ <<>> \in Seq(Versions)
      OBVIOUS
    <3> HIDE DEF TypeOK
    <3> QED
      BY <2>1, <3>1
  <2>3. ctor' \in {ctor, "leave", "gone", "aborted"}
    BY <1>7 DEF DestructorStep, Destroy, DestroyDerived, DestroyBase, ProxyCollected, ctorVars
  <2> QED
    BY <1>7, <2>2, <2>3 DEF DestructorStep, Destroy, DestroyDerived, DestroyBase, Destructor,
                ProxyCollected, remoteVars, callbackVars, ctorVars, userVars
<1> QED
  BY <1>1, <1>2, <1>3, <1>4, <1>5, <1>6, <1>7 DEF Next

\* Every step keeps what is known of the phases.
LEMMA PhasesStep == TypeOK /\ Phases /\ EventPhases /\ [Next]_vars => Phases'
<1> SUFFICES ASSUME TypeOK, Phases, EventPhases, [Next]_vars PROVE Phases'
  OBVIOUS
<1> USE AttributeAssumption DEF TypeOK, Phases, Follows, Collects, Alive, attributeVars, eventVars
<1>1. CASE UNCHANGED vars
  BY <1>1 DEF vars, remoteVars, callbackVars, ctorVars, userVars
<1>2. CASE RemoteChange
  BY <1>2 DEF RemoteChange, Change, callbackVars, ctorVars, userVars
<1>3. CASE CtorStep
  <2>1. CASE Construct
    <3>1. CASE Follows
      BY <2>1, <3>1 DEF Construct, remoteVars, callbackVars, userVars
    <3>2. CASE Collects
      BY <2>1, <3>2 DEF Construct, remoteVars, callbackVars, userVars
    <3>3. CASE ~Follows /\ ~Collects
      BY <2>1, <3>3 DEF Construct, remoteVars, callbackVars, userVars
    <3> QED
      BY <3>1, <3>2, <3>3
  <2>2. CASE Subscribe
    <3>1. /\ ctor = "subscribe" /\ ctor' = "join" /\ subscribed' = TRUE
          /\ UNCHANGED <<callback, answered, kind, pc>>
      BY <2>2 DEF Subscribe, callbackVars, userVars
    <3> HIDE DEF TypeOK
    <3>2. kind \in {"only", "full"} /\ \A u \in Users : pc[u] = "idle"
      BY <3>1
    <3>3. /\ ctor' = "join"
          /\ kind' \in {"only", "full"}
          /\ \A u \in Users : pc'[u] = "idle"
      BY <3>1, <3>2
    <3>4. Follows' /\ Alive'
      BY <3>3
    <3>5. (~subscribed => events = <<>>)' /\ (kind = "only" /\ ctor = "ready" => subscribed /\ answered)'
      BY <3>1
    <3>6. /\ (ctor \in {"new", "subscribe", "attach"} => callback = "idle" /\ ~answered /\ ~subscribed)'
          /\ (subscribed => (Follows \/ Collects) /\ Alive)'
          /\ (ctor \in {"subscribe", "join", "fetch", "store", "unwind"} => Follows)'
          /\ (ctor \in {"join", "fetch", "store", "unwind"} => subscribed)'
      BY <3>1, <3>3, <3>4
    <3>7. /\ (kind = "only" => ctor \notin {"fetch", "store", "unwind"})'
          /\ (\A u \in Users : pc[u] # "idle" => ctor = "ready")'
          /\ (\A u \in Users : pc[u] = "refreshed" => kind \in Refreshed)'
      BY <3>3
    <3> QED
      BY <3>5, <3>6, <3>7
  <2>3. CASE Join
    <3>1. CASE answered
      BY <2>3, <3>1 DEF Join, callbackVars, userVars
    <3>2. CASE ~answered
      BY <2>3, <3>2 DEF Join, UnsubscribeChanges, callbackVars, userVars
    <3> QED
      BY <3>1, <3>2
  <2>4. CASE CtorUnwind
    BY <2>4 DEF CtorUnwind, Destructor, UnsubscribeChanges, callbackVars, userVars
  <2>5. CASE CtorFetch \/ CtorStore
    BY <2>5 DEF CtorFetch, CtorStore, remoteVars, callbackVars, userVars
  <2>6. CASE Attach
    BY <2>6, Zenon DEF Attach, EventPhases, remoteVars, callbackVars, userVars
  <2>7. CASE Derive
    BY <2>7 DEF Derive, EventPhases, remoteVars, callbackVars, userVars
  <2> QED
    BY <1>3, <2>1, <2>2, <2>3, <2>4, <2>5, <2>6, <2>7 DEF CtorStep
<1>4. CASE HelperStep
  BY <1>4 DEF HelperStep, HelperWaits, HelperTimesOut, remoteVars, callbackVars, userVars
<1>5. CASE CallbackStep
  <2>1. CASE Dispatch \/ CallbackTest \/ CallbackNotify \/ CallbackSet \/ CallbackOnFreed
    BY <2>1 DEF Dispatch, CallbackTest, CallbackNotify, CallbackSet, CallbackOnFreed, SetValue,
                remoteVars, ctorVars, userVars
  <2>2. CASE ProcessEvent
    BY <2>2 DEF ProcessEvent, remoteVars, ctorVars, userVars
  <2>3. CASE ProcessPureVirtual
    BY <2>3 DEF ProcessPureVirtual, EventPhases, UnsubscribeChanges, userVars
  <2> QED
    BY <1>5, <2>1, <2>2, <2>3 DEF CallbackStep
<1>6. ASSUME NEW u \in Users, UserStep(u) PROVE Phases'
  <2>1. CASE RefreshFetch(u) \/ RefreshStore(u)
    BY <2>1 DEF RefreshFetch, RefreshStore, SetValue, remoteVars, callbackVars, ctorVars
  <2>2. CASE MutateLock(u) \/ ReadLock(u)
    BY <2>2 DEF MutateLock, ReadLock, remoteVars, callbackVars, ctorVars
  <2>3. CASE MutateChange(u) \/ MutateUncached(u)
    BY <2>3 DEF MutateChange, MutateUncached, Change, callbackVars, ctorVars, userVars
  <2>4. CASE MutateFails(u)
    BY <2>4 DEF MutateFails, Change, remoteVars, callbackVars, ctorVars
  <2>5. CASE MutateStore(u) \/ ReadEnd(u)
    BY <2>5 DEF MutateStore, ReadEnd, remoteVars, callbackVars, ctorVars
  <2> QED
    BY <1>6, <2>1, <2>2, <2>3, <2>4, <2>5 DEF UserStep
<1>7. CASE DestructorStep
  <2>1. CASE Destroy
    BY <2>1 DEF Destroy, Destructor, UnsubscribeChanges, callbackVars, userVars
  <2>2. CASE DestroyDerived
    BY <2>2 DEF DestroyDerived, remoteVars, callbackVars, userVars
  <2>3. CASE DestroyBase
    BY <2>3 DEF DestroyBase, EventPhases, UnsubscribeChanges, callbackVars, userVars
  <2> QED
    BY <1>7, <2>1, <2>2, <2>3 DEF DestructorStep
<1>8. CASE ProxyCollected
  BY <1>8 DEF ProxyCollected, callbackVars, ctorVars, userVars
<1> QED
  BY <1>1, <1>2, <1>3, <1>4, <1>5, <1>6, <1>7, <1>8 DEF Next

\* Every step keeps what is known of the phases of an event attribute.
LEMMA EventPhasesStep == TypeOK /\ Phases /\ EventPhases /\ [Next]_vars => EventPhases'
<1> SUFFICES ASSUME TypeOK, Phases, EventPhases, [Next]_vars PROVE EventPhases'
  OBVIOUS
<1> USE AttributeAssumption DEF EventPhases, Collects, attributeVars, eventVars
<1>1. CASE UNCHANGED vars
  BY <1>1 DEF vars, remoteVars, callbackVars, ctorVars, userVars
<1>2. CASE RemoteChange
  BY <1>2 DEF RemoteChange, callbackVars, ctorVars, userVars
<1>3. CASE CtorStep
  <2>1. CASE Construct
    BY <2>1 DEF Construct, Follows, Phases, callbackVars, userVars
  <2>2. CASE Subscribe \/ Join \/ CtorFetch \/ CtorStore \/ CtorUnwind
    BY <2>2 DEF Subscribe, Join, CtorFetch, CtorStore, CtorUnwind, Destructor, UnsubscribeChanges,
                Phases, Follows, remoteVars, callbackVars, userVars
  <2>3. CASE Attach \/ Derive
    BY <2>3 DEF Attach, Derive, Phases, callbackVars, userVars
  <2> QED
    BY <1>3, <2>1, <2>2, <2>3 DEF CtorStep
<1>4. CASE HelperStep
  BY <1>4 DEF HelperStep, HelperWaits, HelperTimesOut, callbackVars, userVars
<1>5. CASE CallbackStep
  <2>1. CASE Dispatch
    <3>1. ctor \notin {"new", "attach"}
      BY <2>1 DEF Dispatch, Phases
    <3> QED
      BY <2>1, <3>1 DEF Dispatch, ctorVars, userVars
  <2>2. CASE CallbackTest \/ CallbackNotify
    BY <2>2 DEF CallbackTest, CallbackNotify, ctorVars, userVars
  <2>3. CASE CallbackSet \/ CallbackOnFreed
    BY <2>3 DEF CallbackSet, CallbackOnFreed, SetValue, Phases, ctorVars, userVars
  <2>4. CASE ProcessEvent \/ ProcessPureVirtual
    BY <2>4 DEF ProcessEvent, ProcessPureVirtual, ctorVars, userVars
  <2> QED
    BY <1>5, <2>1, <2>2, <2>3, <2>4 DEF CallbackStep
<1>6. ASSUME NEW u \in Users, UserStep(u) PROVE EventPhases'
  <2>0. pc \in [Users -> {"idle", "refreshed", "change", "changed", "reading"}]
    BY DEF TypeOK
  <2>1. CASE RefreshFetch(u) \/ RefreshStore(u)
    BY <2>0, <2>1 DEF RefreshFetch, RefreshStore, SetValue, Phases, callbackVars, ctorVars
  <2>2. CASE MutateLock(u) \/ ReadLock(u)
    BY <2>0, <2>2 DEF MutateLock, ReadLock, Caches, callbackVars, ctorVars
  <2>3. CASE MutateChange(u) \/ MutateUncached(u)
    BY <2>0, <2>3 DEF MutateChange, MutateUncached, callbackVars, ctorVars, userVars
  <2>4. CASE MutateFails(u)
    BY <2>0, <2>4 DEF MutateFails, callbackVars, ctorVars
  <2>5. CASE MutateStore(u) \/ ReadEnd(u)
    BY <2>0, <2>5 DEF MutateStore, ReadEnd, Phases, callbackVars, ctorVars
  <2> QED
    BY <1>6, <2>1, <2>2, <2>3, <2>4, <2>5 DEF UserStep
<1>7. CASE DestructorStep
  <2>1. ctor' \in {"leave", "gone", "aborted"} /\ (ctor' = "leave" => Collects /\ UNCHANGED subscribed)
    BY <1>7 DEF DestructorStep, Destroy, DestroyDerived, DestroyBase
  <2>2. UNCHANGED <<callbackVars, kind, eventVars, value, userVars>>
    BY <1>7 DEF DestructorStep, Destroy, DestroyDerived, DestroyBase, Destructor
  <2>3. ctor' = "leave" => ctor = "ready"
    BY <1>7 DEF DestructorStep, Destroy, DestroyDerived, DestroyBase
  <2> QED
    BY <2>1, <2>2, <2>3 DEF callbackVars, userVars
<1>8. CASE ProxyCollected
  BY <1>8 DEF ProxyCollected, callbackVars, ctorVars, userVars
<1> QED
  BY <1>1, <1>2, <1>3, <1>4, <1>5, <1>6, <1>7, <1>8 DEF Next

-----------------------------------------------------------------------------
\* A change of the service is the newest value of an attribute that listens.
LEMMA ChangeIsNewest ==
    ASSUME TypeOK, EventPhases, Listener, subscribed, Change
    PROVE  events' # <<>> /\ Newest' = remote'
<1>1. proxy
  BY DEF EventPhases, Listener, Collects
<1> QED
  BY <1>1, AttributeAssumption DEF TypeOK, Versions, Change, Newest

\* A change leaves the attribute as it was, but for the events.
LEMMA ChangeStep ==
    ASSUME TypeOK, EventPhases, NewestIsRemote, EventFollows, Change,
           UNCHANGED <<callbackVars, kind, value, subscribed, answered>>,
           Listener => \A u \in Users : pc'[u] = "changed" => pc[u] = "changed" \/ subscribed
    PROVE  NewestIsRemote' /\ EventFollows'
<1> USE DEF Listener
<1>1. events # <<>> => events' # <<>>
  BY DEF Change, TypeOK
<1>2. Listener /\ subscribed => events' # <<>> /\ Newest' = remote'
  BY ChangeIsNewest
<1> QED
  BY <1>1, <1>2 DEF NewestIsRemote, EventFollows, callbackVars

\* Every step keeps the order of what is known here and in the service.
LEMMA NewestStep ==
    AttributeInv /\ [Next]_vars => NewestIsRemote' /\ EventFollows'
<1> SUFFICES ASSUME AttributeInv, [Next]_vars PROVE NewestIsRemote' /\ EventFollows'
  OBVIOUS
<1> USE DEF Listener, attributeVars, eventVars
<1>0. TypeOK /\ Phases /\ EventPhases /\ NewestIsRemote /\ EventFollows
  BY DEF AttributeInv
<1>1. CASE UNCHANGED vars
  BY <1>0, <1>1 DEF vars, remoteVars, callbackVars, ctorVars, userVars,
              NewestIsRemote, EventFollows, Newest
<1>2. CASE RemoteChange
  BY <1>0, <1>2, ChangeStep DEF RemoteChange, attributeVars, userVars
<1>3. CASE CtorStep
  <2>1. CASE Construct \/ CtorFetch
    BY <1>0, <2>1 DEF Construct, CtorFetch, NewestIsRemote, EventFollows, Newest,
                remoteVars, callbackVars, attributeVars, userVars
  <2>2. CASE Subscribe
    BY <1>0, <2>2 DEF Subscribe, NewestIsRemote, EventFollows, Newest, Phases, callbackVars, userVars
  <2>3. CASE Join
    BY <1>0, <2>3 DEF Join, UnsubscribeChanges, NewestIsRemote, EventFollows, Newest, Phases,
                callbackVars, userVars
  <2>4. CASE CtorStore
    BY <1>0, <2>4 DEF CtorStore, NewestIsRemote, EventFollows, Newest, Phases,
                remoteVars, callbackVars, userVars
  <2>5. CASE CtorUnwind
    BY <1>0, <2>5 DEF CtorUnwind, Destructor, UnsubscribeChanges, NewestIsRemote, EventFollows,
                Phases, Follows, callbackVars, userVars
  <2>6. CASE Attach \/ Derive
    BY <1>0, <2>6 DEF Attach, Derive, EventPhases, Collects, Phases, NewestIsRemote, EventFollows, Newest,
                remoteVars, callbackVars, userVars
  <2> QED
    BY <1>3, <2>1, <2>2, <2>3, <2>4, <2>5, <2>6 DEF CtorStep
<1>4. CASE HelperStep
  BY <1>0, <1>4 DEF HelperStep, HelperWaits, HelperTimesOut, NewestIsRemote, EventFollows, Newest,
              remoteVars, callbackVars, attributeVars, userVars
<1>5. CASE CallbackStep
  <2>1. CASE Dispatch
    <3>0. Len(events) \in Nat /\ Len(events) > 0
      BY <1>0, <2>1 DEF Dispatch, TypeOK
    <3>1. Len(events) = 1 \/ Len(events) > 1
      <4>1. \A n \in Nat : n > 0 => n = 1 \/ n > 1
        OBVIOUS
      <4> QED
        BY <3>0, <4>1
    <3>2. CASE Len(events) = 1
      <4>1. events' = <<>> /\ event' = events[Len(events)] /\ callback' # "idle"
        BY <1>0, <2>1, <3>2 DEF Dispatch, TypeOK
      <4>2. Newest' = Newest
        BY <2>1, <4>1 DEF Dispatch, Newest
      <4> QED
        BY <1>0, <2>1, <4>1, <4>2 DEF Dispatch, NewestIsRemote, EventFollows, attributeVars, userVars
    <3>3. CASE Len(events) > 1
      <4>1. /\ events' # <<>> /\ events'[Len(events')] = events[Len(events)]
            /\ callback' # "idle"
        <5>1. events' = Tail(events) /\ Len(events') = Len(events) - 1
          BY <1>0, <2>1, <3>0 DEF Dispatch, TypeOK
        <5>2. events'[Len(events')] = events[Len(events)]
          BY <1>0, <3>0, <3>3, <5>1 DEF TypeOK
        <5> QED
          BY <2>1, <3>3, <5>1, <5>2 DEF Dispatch, Collects
      <4>2. Newest' = Newest
        BY <2>1, <4>1 DEF Dispatch, Newest
      <4> QED
        BY <1>0, <2>1, <4>1, <4>2 DEF Dispatch, NewestIsRemote, EventFollows, attributeVars, userVars
    <3> QED
      BY <3>1, <3>2, <3>3
  <2>2. CASE CallbackTest \/ CallbackNotify
    BY <1>0, <2>2 DEF CallbackTest, CallbackNotify, NewestIsRemote, EventFollows, Newest,
                remoteVars, attributeVars, userVars
  <2>3. CASE CallbackSet
    <3>1. \A u \in Users : pc[u] # "changed"
      BY <1>0, <2>3, AttributeAssumption DEF CallbackSet, SetValue, TypeOK
    <3> QED
      BY <1>0, <2>3, <3>1 DEF CallbackSet, SetValue, NewestIsRemote, EventFollows, Newest,
                remoteVars, userVars
  <2>4. CASE CallbackOnFreed
    BY <1>0, <2>4 DEF CallbackOnFreed, Alive, Phases, NewestIsRemote, EventFollows, attributeVars,
                ctorVars, userVars
  <2>5. CASE ProcessEvent \/ ProcessPureVirtual
    <3>1. ~Listener'
      BY <1>0, <2>5 DEF ProcessEvent, ProcessPureVirtual, EventPhases, Collects
    <3> QED
      BY <3>1 DEF NewestIsRemote, EventFollows
  <2> QED
    BY <1>5, <2>1, <2>2, <2>3, <2>4, <2>5 DEF CallbackStep
<1>6. ASSUME NEW u \in Users, UserStep(u) PROVE NewestIsRemote' /\ EventFollows'
  <2>1. CASE RefreshFetch(u) \/ RefreshStore(u)
    BY <1>0, <2>1 DEF RefreshFetch, RefreshStore, SetValue, Phases, NewestIsRemote, EventFollows,
                attributeVars
  <2>2. CASE MutateLock(u) \/ ReadLock(u) \/ ReadEnd(u)
    BY <1>0, <2>2 DEF MutateLock, ReadLock, ReadEnd, NewestIsRemote, EventFollows, Newest, TypeOK,
                remoteVars, callbackVars
  <2>3. CASE MutateChange(u)
    <3>1. Listener => \A v \in Users : pc'[v] = "changed" => pc[v] = "changed" \/ subscribed
      BY <1>0, <2>3 DEF MutateChange, Phases, TypeOK
    <3> QED
      BY <1>0, <2>3, <3>1, ChangeStep DEF MutateChange, attributeVars
  <2>4. CASE MutateUncached(u)
    BY <1>0, <2>4, ChangeStep DEF MutateUncached, attributeVars, userVars
  <2>5. CASE MutateFails(u)
    <3>1. \A v \in Users : pc'[v] = "changed" => pc[v] = "changed"
      BY <1>0, <2>5 DEF MutateFails, TypeOK
    <3>2. CASE Change
      BY <1>0, <2>5, <3>1, <3>2, ChangeStep DEF MutateFails
    <3>3. CASE UNCHANGED remoteVars
      BY <1>0, <2>5, <3>1, <3>3 DEF MutateFails, NewestIsRemote, EventFollows, Newest,
                remoteVars, callbackVars
    <3> QED
      BY <2>5, <3>2, <3>3 DEF MutateFails
  <2>6. CASE MutateStore(u)
    <3>1. Listener => events # <<>> \/ callback # "idle"
      BY <1>0, <2>6 DEF MutateStore, EventFollows
    <3> QED
      BY <1>0, <2>6, <3>1 DEF MutateStore, NewestIsRemote, EventFollows, Newest, TypeOK,
                remoteVars, callbackVars
  <2> QED
    BY <1>6, <2>1, <2>2, <2>3, <2>4, <2>5, <2>6 DEF UserStep
<1>7. CASE DestructorStep
  <2>1. CASE Destroy
    BY <1>0, <2>1 DEF Destroy, Destructor, UnsubscribeChanges, Follows, NewestIsRemote, EventFollows,
                Phases, callbackVars, userVars
  <2>2. CASE DestroyDerived \/ DestroyBase
    <3>1. ~Listener'
      BY <1>0, <2>2 DEF DestroyDerived, DestroyBase, EventPhases, Collects
    <3> QED
      BY <3>1 DEF NewestIsRemote, EventFollows
  <2> QED
    BY <1>7, <2>1, <2>2 DEF DestructorStep
<1>8. CASE ProxyCollected
  BY <1>8 DEF ProxyCollected, Collects, NewestIsRemote, EventFollows
<1> QED
  BY <1>1, <1>2, <1>3, <1>4, <1>5, <1>6, <1>7, <1>8 DEF Next

-----------------------------------------------------------------------------
\* The next event replaces the one of its topic, of which there is at most one.
LEMMA AccumulateLast ==
    ASSUME missed \in Nat, NEW n \in Nat, collected = LastUpTo(n), missed <= n, Accumulate(n + 1)
    PROVE  collected' = LastUpTo(n + 1)
<1> DEFINE same == {o \in collected : Topic(o) = Topic(n + 1)}
<1>1. LastUpTo(n + 1) = (LastUpTo(n) \ same) \cup {n + 1}
  <2>1. ASSUME NEW v \in LastUpTo(n + 1) PROVE v \in (LastUpTo(n) \ same) \cup {n + 1}
    <3>1. v \in missed + 1 .. n + 1 /\ \A w \in v + 1 .. n + 1 : Topic(w) # Topic(v)
      BY DEF LastUpTo
    <3>2. CASE v = n + 1
      BY <3>2
    <3>3. CASE v # n + 1
      <4>1. v \in missed + 1 .. n /\ n + 1 \in v + 1 .. n + 1
        BY <3>1, <3>3
      <4>2. Topic(n + 1) # Topic(v)
        BY <3>1, <4>1
      <4>3. \A w \in v + 1 .. n : Topic(w) # Topic(v)
        BY <3>1, <4>1
      <4> QED
        BY <4>1, <4>2, <4>3 DEF LastUpTo
    <3> QED
      BY <3>2, <3>3
  <2>2. n + 1 \in LastUpTo(n + 1)
    BY DEF LastUpTo
  <2>3. ASSUME NEW v \in LastUpTo(n) \ same PROVE v \in LastUpTo(n + 1)
    <3>1. v \in missed + 1 .. n /\ \A w \in v + 1 .. n : Topic(w) # Topic(v)
      BY DEF LastUpTo
    <3>2. Topic(v) # Topic(n + 1)
      OBVIOUS
    <3>3. ASSUME NEW w \in v + 1 .. n + 1 PROVE Topic(w) # Topic(v)
      <4>1. w = n + 1 \/ w \in v + 1 .. n
        BY <3>1
      <4> QED
        BY <3>1, <3>2, <4>1
    <3>4. v \in missed + 1 .. n + 1
      BY <3>1
    <3> QED
      BY <3>3, <3>4 DEF LastUpTo
  <2> QED
    BY <2>1, <2>2, <2>3
<1>2. \A v, w \in same : v = w
  <2> SUFFICES ASSUME NEW v \in same, NEW w \in same, v < w PROVE FALSE
    BY DEF LastUpTo
  <2>1. w \in v + 1 .. n /\ Topic(w) = Topic(v)
    BY DEF LastUpTo
  <2> QED
    BY <2>1 DEF LastUpTo
<1>3. CASE same = {}
  BY <1>1, <1>3 DEF Accumulate
<1>4. CASE same # {}
  <2>1. PICK o \in same : collected' = (collected \ {o}) \cup {n + 1}
    BY <1>4 DEF Accumulate
  <2>2. same = {o}
    BY <1>2
  <2> QED
    BY <1>1, <2>1, <2>2
<1> QED
  BY <1>3, <1>4

\* The variables that EventsInv looks at.
eventsVars == <<remote, events, callback, event, kind, value, collected, missed>>

\* The steps that change them while the attribute is subscribed to a proxy.
LEMMA EventSteps ==
    ASSUME TypeOK, Phases, EventPhases, [Next]_vars, Collects', subscribed', proxy'
    PROVE  /\ Collects /\ proxy /\ kind' = kind
           /\ \/ Attach
              \/ subscribed /\ RemoteChange
              \/ subscribed /\ Dispatch
              \/ subscribed /\ ProcessEvent
              \/ subscribed /\ UNCHANGED eventsVars
<1> USE AttributeAssumption DEF attributeVars, eventVars
<1>1. kind' = kind
  BY Zenon DEF Next, vars, RemoteChange, ProxyCollected, CtorStep, Construct, Subscribe, Join, CtorFetch,
         CtorStore, CtorUnwind, Destructor, Attach, Derive, DestructorStep, Destroy, DestroyDerived,
         DestroyBase, HelperStep, HelperWaits, HelperTimesOut, CallbackStep, Dispatch,
         CallbackTest, CallbackNotify, CallbackSet, SetValue, ProcessEvent, ProcessPureVirtual,
         CallbackOnFreed, UserStep, RefreshFetch, RefreshStore, MutateLock, MutateChange,
         MutateFails, MutateStore, MutateUncached, ReadLock, ReadEnd
<1>2. Collects
  BY <1>1 DEF Collects
<1>3. ~Follows /\ ~Caches /\ kind # "always" /\ kind \notin Refreshed
  BY <1>2 DEF Collects, Follows, Caches
<1> DEFINE Goal == /\ proxy
                   /\ \/ Attach
                      \/ subscribed /\ RemoteChange
                      \/ subscribed /\ Dispatch
                      \/ subscribed /\ ProcessEvent
                      \/ subscribed /\ UNCHANGED eventsVars
<1>4. CASE UNCHANGED vars
  BY <1>1, <1>2, <1>4, Zenon DEF vars, remoteVars, callbackVars, eventsVars
<1>5. CASE RemoteChange
  BY <1>1, <1>2, <1>5, Zenon DEF RemoteChange
<1>6. CASE CtorStep
  <2>1. CASE Construct
    BY <2>1 DEF Construct, Phases
  <2>2. CASE Subscribe \/ Join \/ CtorFetch \/ CtorStore \/ CtorUnwind
    BY <1>3, <2>2 DEF Subscribe, Join, CtorFetch, CtorStore, CtorUnwind, Phases
  <2>3. CASE Attach
    BY <1>1, <1>2, <2>3, Zenon DEF Attach
  <2>4. CASE Derive
    BY <1>1, <1>2, <2>4, Zenon DEF Derive, remoteVars, callbackVars, eventsVars
  <2> QED
    BY <1>6, <2>1, <2>2, <2>3, <2>4 DEF CtorStep
<1>7. CASE DestructorStep \/ ProxyCollected
  BY <1>2, <1>7 DEF DestructorStep, Destroy, DestroyDerived, DestroyBase, UnsubscribeChanges,
         ProxyCollected, remoteVars, callbackVars, eventsVars
<1>8. CASE HelperStep
  BY <1>1, <1>2, <1>8, Zenon DEF HelperStep, HelperWaits, HelperTimesOut, remoteVars, callbackVars, eventsVars
<1>9. CASE CallbackStep
  BY <1>2, <1>9 DEF CallbackStep, Dispatch, CallbackTest, CallbackNotify, CallbackSet, ProcessEvent,
         ProcessPureVirtual, UnsubscribeChanges, CallbackOnFreed, EventPhases, Phases
<1>10. ASSUME NEW u \in Users, UserStep(u) PROVE Goal
  <2>1. ~(RefreshFetch(u) \/ RefreshStore(u) \/ MutateLock(u) \/ MutateUncached(u))
    BY <1>3 DEF RefreshFetch, RefreshStore, MutateLock, MutateUncached, Phases
  <2>2. ~(MutateChange(u) \/ MutateFails(u) \/ MutateStore(u))
    BY <1>2 DEF MutateChange, MutateFails, MutateStore, EventPhases
  <2>3. ReadLock(u) \/ ReadEnd(u)
    BY <1>10, <2>1, <2>2 DEF UserStep
  <2> QED
    BY <2>3 DEF ReadLock, ReadEnd, remoteVars, callbackVars, eventsVars
<1> QED
  BY <1>1, <1>2, <1>4, <1>5, <1>6, <1>7, <1>8, <1>9, <1>10 DEF Next

\* No step loses, repeats or reorders an event.
LEMMA EventsStep ==
    TypeOK /\ Phases /\ EventPhases /\ EventsInv /\ [Next]_vars => EventsInv'
<1> SUFFICES ASSUME TypeOK, Phases, EventPhases, EventsInv, [Next]_vars,
                    Collects', subscribed', proxy'
             PROVE  Complete'
  BY DEF EventsInv
<1>0. /\ remote \in Nat /\ missed \in Nat /\ events \in Seq(Versions) /\ Len(events) \in Nat
      /\ Versions \subseteq Nat
  BY AttributeAssumption DEF TypeOK, Versions
<1>1. Collects /\ proxy /\ kind' = kind
  BY EventSteps
<1>2. CASE Attach
  <2>1. events' = <<>> /\ callback' = "idle" /\ missed' = remote' /\ remote' = remote
    BY <1>2 DEF Attach, Phases, remoteVars, callbackVars
  <2>2. Processed' = missed'
    BY <1>0, <2>1 DEF Processed
  <2>3. value' = None /\ collected' = {}
    BY <1>2 DEF Attach, EventPhases
  <2>4. LastUpTo(missed)' = {}
    BY <1>0, <2>1 DEF LastUpTo
  <2> QED
    BY <1>0, <2>1, <2>2, <2>3, <2>4 DEF Complete
<1>3. CASE subscribed /\ UNCHANGED eventsVars
  BY <1>1, <1>3 DEF EventsInv, Complete, Processed, LastUpTo, eventsVars
<1>4. CASE subscribed /\ RemoteChange
  <2>0. Complete
    BY <1>1, <1>4 DEF EventsInv
  <2>1. /\ remote' = remote + 1 /\ events' = Append(events, remote + 1)
        /\ UNCHANGED <<callback, event, value, collected, missed>>
    BY <1>1, <1>4 DEF RemoteChange, Change, callbackVars, attributeVars, eventVars
  <2>2. Len(events') = Len(events) + 1
    BY <1>0, <2>1
  <2>3. Processed' = Processed
    BY <1>0, <2>1, <2>2 DEF Processed
  <2>4. LastUpTo(Processed)' = LastUpTo(Processed)
    BY <2>1, <2>3 DEF LastUpTo
  <2>5. ASSUME NEW i \in 1 .. Len(events') PROVE events'[i] = remote' - Len(events') + i
    <3>1. i \in 1 .. Len(events) \/ i = Len(events) + 1
      BY <1>0, <2>2
    <3>2. CASE i \in 1 .. Len(events)
      <4>1. events'[i] = events[i] /\ events[i] = remote - Len(events) + i
        BY <1>0, <2>0, <2>1, <3>2 DEF Complete
      <4> QED
        BY <1>0, <2>1, <2>2, <4>1
    <3>3. CASE i = Len(events) + 1
      <4>1. events'[i] = remote + 1
        BY <1>0, <2>1, <3>3
      <4> QED
        BY <1>0, <2>1, <2>2, <3>3, <4>1
    <3> QED
      BY <3>1, <3>2, <3>3
  <2> QED
    BY <1>1, <2>0, <2>1, <2>3, <2>4, <2>5 DEF Complete
<1>5. CASE subscribed /\ Dispatch
  <2>0. Complete
    BY <1>1, <1>5 DEF EventsInv
  <2>1. /\ callback = "idle" /\ events # <<>> /\ callback' = "process"
        /\ event' = Head(events) /\ events' = Tail(events)
        /\ UNCHANGED <<remote, value, collected, missed>>
    BY <1>1, <1>5 DEF Dispatch, attributeVars, eventVars
  <2>2. Len(events') = Len(events) - 1 /\ Len(events) >= 1 /\ event' = events[1]
    BY <1>0, <2>1
  <2>3. Processed' = Processed /\ Processed \in Int
    BY <1>0, <2>1, <2>2 DEF Processed
  <2>4. LastUpTo(Processed)' = LastUpTo(Processed)
    BY <2>1, <2>3 DEF LastUpTo
  <2>5. event' = Processed' + 1
    BY <1>0, <2>0, <2>1, <2>2, <2>3 DEF Complete, Processed
  <2>6. ASSUME NEW i \in 1 .. Len(events') PROVE events'[i] = remote' - Len(events') + i
    <3>1. i + 1 \in 1 .. Len(events)
      BY <1>0, <2>2
    <3>2. events'[i] = events[i + 1]
      BY <1>0, <2>1, <2>2
    <3>3. events[i + 1] = remote - Len(events) + (i + 1)
      BY <2>0, <3>1 DEF Complete
    <3> QED
      BY <1>0, <2>1, <2>2, <3>2, <3>3
  <2> QED
    BY <1>1, <2>0, <2>1, <2>3, <2>4, <2>5, <2>6 DEF Complete
<1>6. CASE subscribed /\ ProcessEvent
  <2>0. Complete
    BY <1>1, <1>6 DEF EventsInv
  <2>1. /\ callback = "process" /\ callback' = "idle" /\ UNCHANGED <<remote, events, missed>>
        /\ IF kind = "broadcast" THEN value' = event /\ UNCHANGED collected
                                 ELSE Accumulate(event) /\ UNCHANGED value
    BY <1>6 DEF ProcessEvent, remoteVars
  <2>2. Processed \in Int /\ Processed' = Processed + 1 /\ missed <= Processed /\ event = Processed + 1
    BY <1>0, <2>0, <2>1 DEF Complete, Processed
  <2>3. Processed \in Nat
    BY <1>0, <2>2
  <2>4. kind = "broadcast" => value' = Processed' /\ Processed' # missed'
    BY <1>0, <2>1, <2>2
  <2>5. kind = "accumulative" => collected' = LastUpTo(Processed)'
    <3>1. kind = "accumulative" => collected' = LastUpTo(Processed + 1)
      BY <1>0, <2>0, <2>1, <2>2, <2>3, AccumulateLast DEF Complete
    <3> QED
      BY <2>1, <2>2, <3>1 DEF LastUpTo
  <2>6. missed' <= Processed'
    BY <1>0, <2>1, <2>2
  <2> QED
    BY <1>1, <2>0, <2>1, <2>4, <2>5, <2>6 DEF Complete
<1> QED
  BY <1>2, <1>3, <1>4, <1>5, <1>6, EventSteps

-----------------------------------------------------------------------------
\* The invariant holds at all times.
LEMMA AttributeInvAlways == Spec => []AttributeInv
<1>1. AttributeInv /\ [Next]_vars => AttributeInv'
  BY TypeStep, PhasesStep, EventPhasesStep, NewestStep, EventsStep DEF AttributeInv
<1> QED
  BY <1>1, AttributeInvInit, PTL DEF Spec

\* The variables keep their types.
THEOREM AttributeTypes == Spec => []TypeOK
<1>1. AttributeInv => TypeOK
  BY DEF AttributeInv
<1> QED
  BY <1>1, AttributeInvAlways, PTL

\* An attribute that listens to events is current once they have come, for
\* any number of mutations and changes; one that collects them has the last,
\* or the last of each topic, for any number of events and of topics.
THEOREM ListenerIsCurrent == Spec => []QuietIsCurrent
<1>1. AttributeInv => QuietIsCurrent
  <2> SUFFICES ASSUME AttributeInv, Quiet
               PROVE  /\ Listener => value = remote
                      /\ kind = "broadcast" /\ proxy
                            => value = (IF remote = missed THEN None ELSE remote)
                      /\ kind = "accumulative" /\ proxy => collected = LastOfTopics
    BY DEF QuietIsCurrent
  <2>1. Listener => value = remote
    BY DEF AttributeInv, Phases, NewestIsRemote, Newest, Listener, Quiet
  <2>2. ASSUME Collects, proxy PROVE Complete /\ Processed = remote
    <3>1. remote \in Nat
      BY AttributeAssumption DEF AttributeInv, TypeOK, Versions
    <3>2. subscribed
      BY <2>2 DEF AttributeInv, EventPhases, Quiet
    <3> QED
      BY <2>2, <3>1, <3>2 DEF AttributeInv, EventsInv, Processed, Quiet
  <2>3. LastUpTo(remote) = LastOfTopics
    BY DEF LastUpTo, LastOfTopics
  <2> QED
    BY <2>1, <2>2, <2>3 DEF Complete, Collects
<1> QED
  BY <1>1, AttributeInvAlways, PTL

\* No way out of the attribute leaves its callback subscribed.
THEOREM NoCallbackOfTheDead == Spec => []SubscribedIsAlive
<1>1. AttributeInv => SubscribedIsAlive
  BY DEF AttributeInv, Phases, SubscribedIsAlive
<1> QED
  BY <1>1, AttributeInvAlways, PTL

\* getValue() protects what its caller looks at.
THEOREM ReadersAreUndisturbed == Spec => ReadIsStable
<1> DEFINE Stable == \A u \in Users : pc[u] = "reading" /\ pc'[u] = "reading"
                        => value' = value /\ collected' = collected
<1>1. AttributeInv /\ [Next]_vars => Stable
  <2> SUFFICES ASSUME AttributeInv, [Next]_vars, ~(value' = value /\ collected' = collected),
                      NEW u \in Users, pc[u] = "reading"
               PROVE  FALSE
    OBVIOUS
  <2>1. lock = u /\ ctor = "ready" /\ \A v \in Users : pc[v] = "changed" => v = u
    BY AttributeAssumption DEF AttributeInv, TypeOK, Phases
  <2>2. \/ CtorStore \/ CallbackSet \/ ProcessEvent
        \/ \E v \in Users : RefreshStore(v) \/ MutateStore(v)
    BY DEF Next, vars, RemoteChange, ProxyCollected, CtorStep, Construct, Subscribe, Join, CtorFetch,
           CtorUnwind, Attach, Derive, DestructorStep, Destroy, DestroyDerived, DestroyBase,
           Destructor, HelperStep, HelperWaits, HelperTimesOut, CallbackStep, Dispatch,
           CallbackTest, CallbackNotify, ProcessPureVirtual, CallbackOnFreed, UserStep,
           RefreshFetch, MutateLock, MutateChange, MutateFails, MutateUncached, ReadLock, ReadEnd,
           attributeVars, eventVars
  <2> QED
    BY <2>1, <2>2, AttributeAssumption DEF CtorStore, CallbackSet, ProcessEvent, RefreshStore,
           MutateStore, SetValue
<1>2. AttributeInv /\ [Next]_vars => [Stable]_vars
  BY <1>1
<1> QED
  BY <1>2, AttributeInvAlways, PTL DEF Spec, ReadIsStable
=============================================================================
