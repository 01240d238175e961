-------------------- MODULE ScionNetworkControllerProofs --------------------
(***************************************************************************)
(* Proofs, for any nodes, addresses, backends and number of disturbances,  *)
(* that the operator leaves no registered SIGs behind unguarded by its     *)
(* finalizer, never overwrites a discovered ISD-AS, and does not come to   *)
(* rest before everything is as the object says.                           *)
(*                                                                         *)
(* The argument: only finalize releases the finalizer, and only from a     *)
(* current copy that is being deleted (optimistic concurrency); from then  *)
(* on the cache, which never goes back, cannot show the object alive, so   *)
(* no later reconcile registers anything for it.  Whatever overtakes a     *)
(* reconcile queues the key again, so that one at whose end the key is not *)
(* queued has worked on things as they are.                                *)
(***************************************************************************)
EXTENDS ScionNetworkController, FiniteSetTheorems, TLAPS

\* A copy flagged current is the object at the API server.
CopiesCurrent == /\ ccrCur => ccr = cr
                 /\ snCur => sn = cr

\* A cached copy that is alive and has the finalizer is of an object that still
\* has it.
CacheGuarded == ccr.exists /\ ccr.fin /\ ~ccr.deleting => Guarded

\* What Reconcile knows at each of its steps.
WorkerKnows ==
    /\ pc # "idle" => sn.exists
    /\ pc \in {"apply", "sync"} => Guarded
    /\ pc \in {"finalize", "release"} => sn.deleting
    /\ pc \in {"finalize", "release"} /\ snCur => ccr.deleting
    /\ pc = "release" => rel # "none"
    /\ pc = "release" /\ rel = "deregistered" => managed = Empty

Safe == /\ CopiesCurrent
        /\ CacheGuarded
        /\ WorkerKnows
        /\ RegisteredGuarded

\* The inductive invariant.
Inv == TypeOK /\ Safe

----------------------------------------------------------------------------
(* What makes AtRestConverged inductive.                                   *)

\* Whatever disturbs what Reconcile has done so far queues the key again: with
\* the key not queued and no event due the worker's copy is current, and with the
\* key not queued the DaemonSet is the one it applied and the SIGs those it synced.
Undisturbed ==
    ~queue => /\ pc # "idle" /\ ccrCur => snCur
              /\ pc \in {"sync", "status"} => ds = sn.spec
              /\ pc = "status" /\ ~reg.failed =>
                    LET sigs == nodesToSIGs(sn.spec.sel) IN
                    /\ reg.desired = sigs
                    /\ sn.spec.backend = "http" =>
                          managed = sigs /\ reg.registered = Count(sigs)

Settled == Undisturbed /\ AtRestConverged

----------------------------------------------------------------------------
\* The set computed from the nodes is a set of SIGs.
LEMMA SigsType == ASSUME TypeOK, NEW sel PROVE nodesToSIGs(sel) \in SigSets
  BY DEF TypeOK, SigSets, nodesToSIGs

\* The nodes being finitely many, RegisteredNodes is a number.
LEMMA CountType == ASSUME NEW sigs PROVE Count(sigs) \in Nat
  <1>1. IsFiniteSet({n \in Nodes : sigs[n] # NoSIG})
    BY ControllerAssumption, FS_Subset
  <1> QED
    BY <1>1, FS_CardinalityType DEF Count

\* The status updateStatus computes is a status.
LEMMA StatusType ==
    ASSUME TypeOK, NEW agents, NEW platform,
           NEW ia \in discoverISDAS(sn.status.isdAS)
    PROVE  NewStatus(agents, platform, ia) \in Statuses
  <1>1. degradedReason(agents, platform, reg.failed, sn.spec.backend) \in Reasons
    BY DEF degradedReason, Reasons
  <1>2. ia \in IAs \cup {NoIA}
    BY DEF TypeOK, Objects, Statuses, discoverISDAS
  <1>3. reg \in RegStatuses
    BY DEF TypeOK
  <1> QED
    BY <1>1, <1>2, <1>3 DEF NewStatus, Statuses

\* The empty object and the empty registrar status are what they should be.
LEMMA EmptyTypes == NoCR \in Objects /\ NoReg \in RegStatuses /\ Empty \in SigSets
  <1>1. Empty \in SigSets
    BY DEF Empty, SigSets
  <1>2. NoReg \in RegStatuses
    BY <1>1 DEF NoReg, RegStatuses
  <1>3. NoStatus \in Statuses
    BY <1>2 DEF NoStatus, Statuses, Reasons
  <1> QED
    BY <1>1, <1>2, <1>3 DEF NoCR, Objects

\* The initial states satisfy the invariant.
LEMMA InitInv == Init => Inv
  <1> SUFFICES ASSUME Init PROVE Inv
    OBVIOUS
  <1>1. TypeOK
    <2>1. /\ ccrCur \in BOOLEAN /\ snCur \in BOOLEAN /\ queue \in BOOLEAN
          /\ retry \in BOOLEAN /\ poll \in BOOLEAN /\ gauge \in BOOLEAN
          /\ secret \in BOOLEAN /\ late \in BOOLEAN
      BY Zenon DEF Init
    <2> QED
      BY <2>1, EmptyTypes, ControllerAssumption DEF Init, TypeOK
  <1>2. CopiesCurrent
    BY Zenon DEF Init, CopiesCurrent
  <1>3. CacheGuarded
    BY DEF Init, CacheGuarded, NoCR
  <1>4. WorkerKnows
    BY DEF Init, WorkerKnows
  <1>5. RegisteredGuarded
    BY DEF Init, RegisteredGuarded
  <1> QED
    BY <1>1, <1>2, <1>3, <1>4, <1>5 DEF Inv, Safe

\* Edits of the object's fields give an object.
LEMMA EditTypes ==
    ASSUME NEW o \in Objects
    PROVE  /\ [o EXCEPT !.fin = TRUE] \in Objects
           /\ [o EXCEPT !.fin = FALSE] \in Objects
           /\ [o EXCEPT !.held = FALSE] \in Objects
           /\ \A foreground \in BOOLEAN :
                 [o EXCEPT !.deleting = TRUE, !.held = foreground] \in Objects
           /\ [o EXCEPT !.status.degraded = "ApplyFailed"] \in Objects
           /\ \A st \in Statuses : [o EXCEPT !.status = st] \in Objects
           /\ \A spec \in Specs : [o EXCEPT !.spec = spec] \in Objects
           /\ \A spec \in Specs :
                 [o EXCEPT !.exists = TRUE, !.spec = spec] \in Objects
  <1>1. [o EXCEPT !.status.degraded = "ApplyFailed"] \in Objects
    <2>1. [o.status EXCEPT !.degraded = "ApplyFailed"] \in Statuses
      BY DEF Objects, Statuses, Reasons
    <2> QED
      BY <2>1 DEF Objects
  <1> QED
    BY <1>1, Zenon DEF Objects

\* A write of an object, made or not, leaves objects behind.
LEMMA WriteTypes ==
    ASSUME TypeOK, NEW new \in Objects, Write(new) \/ UNCHANGED object
    PROVE  cr' \in Objects /\ ccr' \in Objects /\ ccrCur' \in BOOLEAN
  <1>1. ccrCur' \in BOOLEAN
    BY Zenon DEF TypeOK, Write, object
  <1> QED
    BY <1>1 DEF TypeOK, Write, object

\* Returning from Reconcile clears its variables.
LEMMA ReturnTypes ==
    ASSUME TypeOK, NEW again, Return(again)
    PROVE  /\ pc' = "idle" /\ sn' \in Objects /\ snCur' \in BOOLEAN
           /\ reg' \in RegStatuses /\ rel' = "none" /\ queue' \in BOOLEAN
  <1>1. snCur' \in BOOLEAN /\ queue' \in BOOLEAN
    BY Zenon DEF Return
  <1> QED
    BY <1>1, EmptyTypes DEF Return

\* Every step keeps the types.
LEMMA TypeStep == TypeOK /\ [Next]_vars => TypeOK'
  <1> SUFFICES ASSUME TypeOK, [Next]_vars PROVE TypeOK'
    OBVIOUS
  <1> USE DEF object, local, sched, world
  <1>1. CASE Get
    <2>1. queue' \in BOOLEAN /\ snCur' \in BOOLEAN
      BY <1>1, Zenon DEF TypeOK, Get
    <2>2. sn' \in Objects
      BY <1>1 DEF TypeOK, Get
    <2> QED
      BY <1>1, <2>1, <2>2 DEF TypeOK, Get
  <1>2. CASE AddFinalizerOk
    <2>1. /\ cr' \in Objects /\ ccr' \in Objects /\ ccrCur' \in BOOLEAN
          /\ sn' \in Objects
      BY <1>2, WriteTypes, EditTypes, Zenon DEF AddFinalizerOk, TypeOK
    <2>2. pc' = "apply" /\ UNCHANGED <<snCur, reg, rel, sched, gauge, world>>
      BY <1>2 DEF AddFinalizerOk
    <2> QED
      BY <2>1, <2>2 DEF TypeOK
  <1>3. CASE AddFinalizerError
    <2>1. cr' \in Objects /\ ccr' \in Objects /\ ccrCur' \in BOOLEAN
      <3>1. [cr EXCEPT !.fin = TRUE] \in Objects
        BY EditTypes, Zenon DEF TypeOK
      <3> QED
        BY <1>3, <3>1, WriteTypes DEF AddFinalizerError, WriteError
    <2>2. Return(TRUE)
      BY <1>3, Zenon DEF AddFinalizerError, WriteError
    <2> QED
      BY <1>3, <2>1, <2>2, ReturnTypes, ZenonT(40) DEF TypeOK, AddFinalizerError
  <1>4. CASE ApplyOk
    BY <1>4 DEF TypeOK, ApplyOk, Objects
  <1>5. CASE ApplyError
    <2>1. cr' \in Objects /\ ccr' \in Objects /\ ccrCur' \in BOOLEAN
      <3>1. [cr EXCEPT !.status.degraded = "ApplyFailed"] \in Objects
        BY EditTypes, Zenon DEF TypeOK
      <3> QED
        BY <1>5, <3>1, WriteTypes DEF ApplyError, WriteError
    <2>2. Return(TRUE)
      BY <1>5, Zenon DEF ApplyError, WriteError
    <2>3. ds' \in Specs \cup {NoSpec}
      BY <1>5 DEF ApplyError, TypeOK, Objects
    <2> QED
      BY <1>5, <2>1, <2>2, <2>3, ReturnTypes, Zenon DEF TypeOK, ApplyError
  <1>6. CASE SyncOk
    BY <1>6, SigsType, CountType DEF TypeOK, SyncOk, Put, RegStatuses
  <1>7. CASE SyncError
    <2>1. reg' \in RegStatuses
      BY <1>7, SigsType, Zenon
         DEF TypeOK, SyncError, Objects, Statuses, RegStatuses
    <2>2. managed' \in SigSets /\ why' \in {why, "none"}
      BY <1>7, SigsType DEF TypeOK, SyncError, Put
    <2> QED
      BY <1>7, <2>1, <2>2 DEF TypeOK, SyncError
  <1>8. CASE SyncListError
    <2>1. reg' \in RegStatuses
      BY <1>8, Zenon DEF TypeOK, SyncListError, Objects, Statuses, RegStatuses
    <2> QED
      BY <1>8, <2>1 DEF TypeOK, SyncListError
  <1>9. ASSUME NEW agents \in AgentStates, NEW platform \in Platforms,
               NEW ia \in discoverISDAS(sn.status.isdAS),
               UpdateStatusOk(agents, platform, ia)
        PROVE  TypeOK'
    <2> DEFINE st == NewStatus(agents, platform, ia)
    <2>1. [cr EXCEPT !.status = st] \in Objects
      BY StatusType, EditTypes, Zenon DEF TypeOK
    <2>2. Write([cr EXCEPT !.status = st]) \/ UNCHANGED object
      BY <1>9 DEF UpdateStatusOk
    <2>3. cr' \in Objects /\ ccr' \in Objects /\ ccrCur' \in BOOLEAN
      BY <2>1, <2>2, WriteTypes
    <2>4. gauge' \in BOOLEAN /\ retry' \in BOOLEAN /\ poll' \in BOOLEAN
      BY <1>9, Zenon DEF UpdateStatusOk
    <2>5. Return(FALSE)
      BY <1>9, Zenon DEF UpdateStatusOk
    <2>6. UNCHANGED world
      BY <1>9 DEF UpdateStatusOk
    <2> QED
      BY <2>3, <2>4, <2>5, <2>6, ReturnTypes, Zenon DEF TypeOK
  <1>10. ASSUME NEW agents \in AgentStates, NEW platform \in Platforms,
                NEW ia \in discoverISDAS(sn.status.isdAS),
                UpdateStatusError(agents, platform, ia)
         PROVE  TypeOK'
    <2>1. [cr EXCEPT !.status = NewStatus(agents, platform, ia)] \in Objects
      BY StatusType, EditTypes, Zenon DEF TypeOK
    <2>2. cr' \in Objects /\ ccr' \in Objects /\ ccrCur' \in BOOLEAN
      BY <1>10, <2>1, WriteTypes DEF UpdateStatusError, WriteError
    <2>3. Return(TRUE)
      BY <1>10, Zenon DEF UpdateStatusError, WriteError
    <2>4. UNCHANGED <<retry, poll, gauge, world>>
      BY <1>10 DEF UpdateStatusError
    <2> QED
      BY <2>2, <2>3, <2>4, ReturnTypes, Zenon DEF TypeOK
  <1>11. CASE FinalizeSkip
    <2>1. Return(FALSE) /\ UNCHANGED <<object, retry, poll, gauge, world>>
      BY <1>11, Zenon DEF FinalizeSkip
    <2> QED
      BY <2>1, ReturnTypes, ZenonT(40) DEF TypeOK
  <1>12. CASE FinalizeNoBackend
    BY <1>12 DEF TypeOK, FinalizeNoBackend, Release
  <1>13. CASE FinalizeOk
    BY <1>13, EmptyTypes DEF TypeOK, FinalizeOk, Release, Put
  <1>14. CASE FinalizeStub
    BY <1>14 DEF TypeOK, FinalizeStub, Release
  <1>15. CASE FinalizeError
    <2>1. managed' \in SigSets /\ why' \in {why, "none"}
      BY <1>15, EmptyTypes DEF TypeOK, FinalizeError, Put
    <2>2. CASE Release("deadline")
      BY <2>1, <2>2 DEF TypeOK, Release
    <2>3. CASE ~Release("deadline")
      BY <1>15, <2>1, <2>3, ReturnTypes, Zenon DEF TypeOK, FinalizeError
    <2> QED
      BY <2>2, <2>3
  <1>16. CASE RemoveFinalizerOk \/ RemoveFinalizerError
    <2>1. late' \in BOOLEAN
      BY <1>16, Zenon DEF TypeOK, RemoveFinalizerOk, RemoveFinalizerError, Removed
    <2> DEFINE new == IF cr.held THEN [cr EXCEPT !.fin = FALSE] ELSE NoCR
    <2>2. /\ Write(new) \/ UNCHANGED object
          /\ why' \in {why, rel}
      BY <1>16, Zenon DEF RemoveFinalizerOk, RemoveFinalizerError, Removed
    <2>3. cr' \in Objects /\ ccr' \in Objects /\ ccrCur' \in BOOLEAN
      <3>1. new \in Objects
        BY EditTypes, EmptyTypes, Zenon DEF TypeOK
      <3> QED
        BY <2>2, <3>1, WriteTypes
    <2>4. \E again \in BOOLEAN : Return(again)
      BY <1>16, Zenon DEF RemoveFinalizerOk, RemoveFinalizerError
    <2>5. UNCHANGED <<retry, poll, gauge, ds, nodes, secret, managed, budget>>
      BY <1>16, Zenon DEF RemoveFinalizerOk, RemoveFinalizerError
    <2> QED
      BY <2>1, <2>2, <2>3, <2>4, <2>5, ReturnTypes DEF TypeOK
  <1>17. CASE CacheSync
    BY <1>17 DEF TypeOK, CacheSync
  <1>18. CASE RetryFires \/ PollFires
    <2>1. retry' \in BOOLEAN /\ poll' \in BOOLEAN /\ queue' \in BOOLEAN
      BY <1>18, Zenon DEF TypeOK, RetryFires, PollFires
    <2> QED
      BY <1>18, <2>1 DEF TypeOK, RetryFires, PollFires
  <1>19. CASE WatchEvent
    BY <1>19 DEF TypeOK, WatchEvent
  <1>20. CASE GarbageCollect
    BY <1>20 DEF TypeOK, GarbageCollect
  <1>21. CASE Elapse
    BY <1>21 DEF TypeOK, Elapse
  <1>30. CASE ForegroundDone
    <2> DEFINE new == IF cr.fin THEN [cr EXCEPT !.held = FALSE] ELSE NoCR
    <2>1. new \in Objects
      BY EditTypes, EmptyTypes, Zenon DEF TypeOK
    <2>2. Write(new)
      BY <1>30 DEF ForegroundDone
    <2>3. cr' \in Objects /\ ccr' \in Objects /\ ccrCur' \in BOOLEAN
      BY <2>1, <2>2, WriteTypes
    <2>4. snCur' \in BOOLEAN /\ late' \in BOOLEAN
      BY <1>30, Zenon DEF ForegroundDone
    <2> QED
      BY <1>30, <2>3, <2>4 DEF TypeOK, ForegroundDone
  <1>22. ASSUME NEW new \in Objects, UserWrite(new) PROVE TypeOK'
    <2>1. cr' \in Objects /\ ccr' \in Objects /\ ccrCur' \in BOOLEAN
      BY <1>22, WriteTypes DEF UserWrite
    <2>2. snCur' = FALSE
      BY <1>22 DEF UserWrite
    <2>3. snCur' \in BOOLEAN
      BY <2>2, Zenon
    <2> QED
      BY <1>22, <2>1, <2>3 DEF TypeOK, UserWrite, Disturb
  <1>23. ASSUME NEW spec \in Specs, Create(spec) \/ Edit(spec) PROVE TypeOK'
    <2>1. CASE Create(spec)
      <3>1. [NoCR EXCEPT !.exists = TRUE, !.spec = spec] \in Objects
        BY EditTypes, EmptyTypes, Zenon
      <3> QED
        BY <1>22, <2>1, <3>1, Zenon DEF Create
    <2>2. CASE Edit(spec)
      <3>1. [cr EXCEPT !.spec = spec] \in Objects
        BY EditTypes, Zenon DEF TypeOK
      <3> QED
        BY <1>22, <2>2, <3>1, Zenon DEF Edit
    <2> QED
      BY <1>23, <2>1, <2>2
  <1>24. ASSUME NEW foreground \in BOOLEAN, Delete(foreground) PROVE TypeOK'
    BY <1>22, <1>24, EditTypes, EmptyTypes, Zenon DEF Delete, TypeOK
  <1>25. ASSUME NEW n \in Nodes, NEW ip \in IPs \cup {NoSIG}, NodeChange(n, ip)
         PROVE  TypeOK'
    <2>1. nodes' \in SigSets
      BY <1>25 DEF TypeOK, NodeChange, SigSets
    <2> QED
      BY <1>25, <2>1 DEF TypeOK, NodeChange, Disturb
  <1>26. CASE SecretChange
    BY <1>26 DEF TypeOK, SecretChange, Disturb
  <1>27. CASE DaemonSetDeleted
    BY <1>27 DEF TypeOK, DaemonSetDeleted, Disturb
  <1>28. CASE Crash
    <2>1. /\ snCur' \in BOOLEAN /\ ccrCur' \in BOOLEAN /\ queue' \in BOOLEAN
          /\ retry' \in BOOLEAN /\ poll' \in BOOLEAN /\ gauge' \in BOOLEAN
      BY <1>28, Zenon DEF Crash
    <2> QED
      BY <1>28, <2>1, EmptyTypes DEF TypeOK, Crash, Disturb
  <1>29. CASE UNCHANGED vars
    BY <1>29 DEF TypeOK, vars
  <1> QED
    BY <1>1, <1>2, <1>3, <1>4, <1>5, <1>6, <1>7, <1>8, <1>9, <1>10, <1>11,
       <1>12, <1>13, <1>14, <1>15, <1>16, <1>17, <1>18, <1>19, <1>20, <1>21,
       <1>23, <1>24, <1>25, <1>26, <1>27, <1>28, <1>29, <1>30
       DEF Next, Reconcile, Environment

\* Every step keeps the rest of the invariant.
LEMMA SafeStep == Inv /\ [Next]_vars => Safe'
  <1> SUFFICES ASSUME Inv, [Next]_vars PROVE Safe'
    OBVIOUS
  <1> USE DEF Inv, TypeOK, Safe, CopiesCurrent, CacheGuarded, WorkerKnows,
              RegisteredGuarded, Guarded, Objects, object, local, sched, world
  <1>1. CASE Get
    BY <1>1 DEF Get
  <1>2. CASE AddFinalizerOk
    BY <1>2 DEF AddFinalizerOk, Write
  <1>3. CASE AddFinalizerError
    BY <1>3 DEF AddFinalizerError, WriteError, Write, Return
  <1>4. CASE ApplyOk
    BY <1>4 DEF ApplyOk
  <1>5. CASE ApplyError
    BY <1>5 DEF ApplyError, WriteError, Write, Return
  <1>6. CASE SyncOk \/ SyncError \/ SyncListError
    BY <1>6 DEF SyncOk, SyncError, SyncListError, Put
  <1>7. ASSUME NEW agents, NEW platform, NEW ia,
               \/ UpdateStatusOk(agents, platform, ia)
               \/ UpdateStatusError(agents, platform, ia)
        PROVE  Safe'
    <2> DEFINE new == [cr EXCEPT !.status = NewStatus(agents, platform, ia)]
    <2>1. new.exists = cr.exists /\ new.fin = cr.fin /\ new.deleting = cr.deleting
      OBVIOUS
    <2>2. /\ Write(new) \/ UNCHANGED object
          /\ pc' = "idle" /\ snCur' = FALSE
          /\ UNCHANGED <<managed, why>>
      BY <1>7 DEF UpdateStatusOk, UpdateStatusError, WriteError, Return
    <2> HIDE DEF new
    <2> QED
      BY <2>1, <2>2 DEF Write
  <1>8. CASE FinalizeSkip
    BY <1>8 DEF FinalizeSkip, Return
  <1>9. CASE FinalizeNoBackend \/ FinalizeOk \/ FinalizeStub
    BY <1>9 DEF FinalizeNoBackend, FinalizeOk, FinalizeStub, Release, Put
  <1>10. CASE FinalizeError
    <2>1. /\ UNCHANGED object
          /\ UNCHANGED <<managed, why>> \/ Put(Empty)
          /\ pc = "finalize"
      BY <1>10, Zenon DEF FinalizeError, Release
    <2>2. CASE Release("deadline")
      BY <2>1, <2>2 DEF Release, Put
    <2>3. CASE Return(TRUE)
      BY <2>1, <2>3 DEF Return, Put
    <2> QED
      BY <1>10, <2>2, <2>3, Zenon DEF FinalizeError
  <1>11. CASE RemoveFinalizerOk
    BY <1>11 DEF RemoveFinalizerOk, Removed, Write, Return, NoCR
  <1>12. CASE RemoveFinalizerError
    BY <1>12 DEF RemoveFinalizerError, Removed, Write, Return, NoCR
  <1>13. CASE CacheSync
    BY <1>13 DEF CacheSync
  <1>14. ASSUME NEW foreground \in BOOLEAN, Delete(foreground) PROVE Safe'
    BY <1>14 DEF Delete, UserWrite, Write, NoCR
  <1>15. ASSUME NEW spec, Create(spec) PROVE Safe'
    BY <1>15 DEF Create, UserWrite, Write, NoCR
  <1>16. ASSUME NEW spec, Edit(spec) PROVE Safe'
    BY <1>16 DEF Edit, UserWrite, Write
  <1>17. CASE Crash
    BY <1>17 DEF Crash
  <1>20. CASE ForegroundDone
    BY <1>20 DEF ForegroundDone, Write, NoCR
  <1>18. CASE UNCHANGED <<object, local, managed, why>>
    BY <1>18
  <1>19. ASSUME \/ RetryFires \/ PollFires \/ WatchEvent
                \/ GarbageCollect \/ Elapse \/ SecretChange \/ DaemonSetDeleted
                \/ \E n \in Nodes, ip \in IPs \cup {NoSIG} : NodeChange(n, ip)
                \/ UNCHANGED vars
         PROVE  UNCHANGED <<object, local, managed, why>>
    BY <1>19 DEF RetryFires, PollFires, WatchEvent, GarbageCollect, Elapse,
       SecretChange, DaemonSetDeleted, NodeChange, vars
  <1> HIDE DEF Inv, TypeOK, Safe
  <1> QED
    BY <1>1, <1>2, <1>3, <1>4, <1>5, <1>6, <1>7, <1>8, <1>9, <1>10, <1>11,
       <1>12, <1>13, <1>14, <1>15, <1>16, <1>17, <1>18, <1>19, <1>20
       DEF Next, Reconcile, Environment

\* Inv is an invariant of the controller.
THEOREM Invariance == Spec => []Inv
  <1>1. Inv /\ [Next]_vars => Inv'
    BY TypeStep, SafeStep DEF Inv
  <1> QED
    BY InitInv, <1>1, PTL DEF Spec

\* The controller's state keeps its types.
THEOREM TypeCorrect == Spec => []TypeOK
  <1>1. Inv => TypeOK
    BY DEF Inv
  <1> QED
    BY Invariance, <1>1, PTL

\* SIGs are registered only while the finalizer guards the ScionNetwork, or
\* after one of finalize's four ways of releasing it without deregistering.
THEOREM SIGsGuarded == Spec => []RegisteredGuarded
  <1>1. Inv => RegisteredGuarded
    BY DEF Inv, Safe
  <1> QED
    BY Invariance, <1>1, PTL

----------------------------------------------------------------------------
\* Every step keeps the worker's work undisturbed and the system converged at
\* rest: it queues the key, makes an event due, or completes what it is about.
LEMMA SettledStep == Inv /\ Settled /\ [Next]_vars => Settled'
  <1> SUFFICES ASSUME Inv, Settled, [Next]_vars PROVE Settled'
    BY Zenon
  <1> USE DEF object, local, sched, world
  <1>1. CASE queue' = TRUE
    BY <1>1 DEF Settled, Undisturbed, AtRestConverged
  <1>2. ASSUME \/ AddFinalizerError \/ ApplyError \/ RemoveFinalizerError
               \/ \E agents, platform, ia : UpdateStatusError(agents, platform, ia)
        PROVE  queue' = TRUE
    BY <1>2, Zenon DEF AddFinalizerError, ApplyError, RemoveFinalizerError,
       UpdateStatusError, WriteError, Return
  <1>3. ASSUME \/ CacheSync \/ RetryFires \/ PollFires \/ WatchEvent
               \/ GarbageCollect \/ DaemonSetDeleted \/ Crash
               \/ \E n \in Nodes, ip \in IPs \cup {NoSIG} : NodeChange(n, ip)
        PROVE  queue' = TRUE
    BY <1>3, Zenon DEF CacheSync, RetryFires, PollFires, WatchEvent, GarbageCollect,
       DaemonSetDeleted, Crash, NodeChange
  \* A write by somebody else: the worker's work stands, an event is due.
  <1>4. CASE ccrCur' = FALSE /\ UNCHANGED <<sn, pc, reg, queue, ds, nodes, managed>>
    BY <1>4 DEF Settled, Undisturbed, AtRestConverged, nodesToSIGs, Count
  <1>5. ASSUME \/ ForegroundDone
               \/ \E spec \in Specs : Create(spec) \/ Edit(spec)
               \/ \E foreground \in BOOLEAN : Delete(foreground)
        PROVE  ccrCur' = FALSE /\ UNCHANGED <<sn, pc, reg, queue, ds, nodes, managed>>
    BY <1>5, Zenon DEF ForegroundDone, Create, Edit, Delete, UserWrite, Write
  <1>6. CASE UNCHANGED <<object, local, sched, gauge, ds, nodes, managed>>
    BY <1>6 DEF Settled, Undisturbed, AtRestConverged, nodesToSIGs, Count
  <1>7. ASSUME Elapse \/ SecretChange \/ UNCHANGED vars
        PROVE  UNCHANGED <<object, local, sched, gauge, ds, nodes, managed>>
    BY <1>7, Zenon DEF Elapse, SecretChange, vars
  <1>8. CASE Get
    BY <1>8 DEF Get, Settled, Undisturbed, AtRestConverged, Inv, Safe,
       CopiesCurrent
  <1>9. CASE AddFinalizerOk
    BY <1>9 DEF AddFinalizerOk, Write, Settled, Undisturbed, AtRestConverged
  <1>10. CASE ApplyOk
    BY <1>10 DEF ApplyOk, Settled, Undisturbed, AtRestConverged
  <1>11. CASE SyncOk
    BY <1>11 DEF SyncOk, Put, Settled, Undisturbed, AtRestConverged,
       nodesToSIGs, Count
  <1>12. CASE SyncError \/ SyncListError
    <2>1. reg'.failed = TRUE
      <3>1. sn.status.reg \in [desired : SigSets, registered : Nat, failed : BOOLEAN]
        BY DEF Inv, TypeOK, Objects, Statuses, RegStatuses
      <3>2. \/ \E sigs : reg' = [sn.status.reg EXCEPT !.desired = sigs, !.failed = TRUE]
            \/ reg' = [sn.status.reg EXCEPT !.failed = TRUE]
        BY <1>12, Zenon DEF SyncError, SyncListError
      <3> QED
        BY <3>1, <3>2, Zenon
    <2>2. /\ pc = "sync" /\ pc' = "status"
          /\ UNCHANGED <<ccrCur, sn, snCur, queue, ds>>
      BY <1>12, Zenon DEF SyncError, SyncListError
    <2> QED
      BY <2>1, <2>2 DEF Settled, Undisturbed, AtRestConverged
  <1>13. ASSUME NEW agents, NEW platform, NEW ia,
                UpdateStatusOk(agents, platform, ia)
         PROVE  Settled'
    <2> DEFINE st == NewStatus(agents, platform, ia)
    <2>1. /\ pc = "status" /\ snCur /\ pc' = "idle"
          /\ UNCHANGED <<queue, ds, nodes, managed>>
          /\ gauge' = (st.degraded # "AsExpected")
          /\ retry' = (retry \/ reg.failed)
      BY <1>13 DEF UpdateStatusOk, Return, Inv, TypeOK
    <2>2. CASE Write([cr EXCEPT !.status = st])
      BY <2>1, <2>2 DEF Write, Settled, Undisturbed, AtRestConverged
    <2>3. CASE st = cr.status /\ UNCHANGED object
      <3>1. sn = cr
        BY <2>1 DEF Inv, Safe, CopiesCurrent
      <3>2. st.reg = reg
        BY DEF NewStatus
      <3>3. Undisturbed'
        BY <2>1 DEF Undisturbed
      <3>4. ASSUME ~queue', ~retry' PROVE AtRestConverged'
        <4>1. ~queue /\ ~reg.failed
          BY <2>1, <3>4, Zenon
        <4>2. /\ ds = cr.spec
              /\ cr.status.reg.desired = nodesToSIGs(cr.spec.sel)
              /\ cr.spec.backend = "http" =>
                    /\ managed = nodesToSIGs(cr.spec.sel)
                    /\ cr.status.reg.registered = Count(nodesToSIGs(cr.spec.sel))
          BY <2>1, <2>3, <3>1, <3>2, <4>1 DEF Settled, Undisturbed
        <4>3. UNCHANGED <<nodesToSIGs(cr.spec.sel), Count(nodesToSIGs(cr.spec.sel))>>
          BY <2>1, <2>3 DEF nodesToSIGs, Count
        <4>4. gauge' = (cr'.status.degraded # "AsExpected")
          BY <2>1, <2>3
        <4> HIDE DEF st
        <4> QED
          BY <2>1, <2>3, <4>2, <4>3, <4>4, Zenon DEF AtRestConverged
      <3> QED
        BY <3>3, <3>4 DEF Settled, AtRestConverged
    <2> QED
      BY <1>13, <2>2, <2>3 DEF UpdateStatusOk
  <1>14. CASE FinalizeSkip
    BY <1>14 DEF FinalizeSkip, Return, Settled, Undisturbed, AtRestConverged,
       Inv, TypeOK, Safe, CopiesCurrent, WorkerKnows
  <1>15. ASSUME Release("backendError") \/ Release("deregistered") \/ Release("manual")
                \/ Release("stub") \/ Release("deadline"),
                pc = "finalize"
         PROVE  Settled'
    BY <1>15 DEF Release, Settled, Undisturbed, AtRestConverged
  <1>16. ASSUME FinalizeNoBackend \/ FinalizeOk \/ FinalizeStub PROVE Settled'
    BY <1>15, <1>16, Zenon DEF FinalizeNoBackend, FinalizeOk, FinalizeStub
  <1>17. CASE FinalizeError
    <2>1. CASE Return(TRUE)
      BY <1>1, <2>1, Zenon DEF Return
    <2> QED
      BY <1>15, <1>17, <2>1, Zenon DEF FinalizeError
  <1>18. CASE RemoveFinalizerOk
    BY <1>18 DEF RemoveFinalizerOk, Removed, Write, Return, Settled, Undisturbed,
       AtRestConverged
  <1> QED
    BY <1>1, <1>2, <1>3, <1>4, <1>5, <1>6, <1>7, <1>8, <1>9, <1>10, <1>11,
       <1>12, <1>13, <1>14, <1>16, <1>17, <1>18, Zenon
       DEF Next, Reconcile, Environment

\* At rest the DaemonSet, the status, the registered SIGs and the gauge are those
\* of the current spec and nodes: whatever fails, lags, dies or changes under
\* Reconcile, the key is queued, a retry runs or an event is due until they are.
THEOREM RestIsConverged == Spec => []AtRestConverged
  <1>1. Init => Settled
    BY DEF Init, NoCR, Settled, Undisturbed, AtRestConverged
  <1>2. Settled => AtRestConverged
    BY DEF Settled
  <1> QED
    BY Invariance, SettledStep, <1>1, <1>2, PTL DEF Spec

\* A discovered ISD-AS stays: a stale copy's status write is refused, and on a
\* current copy discoverISDAS keeps the value.
THEOREM ISDASStays == Spec => ISDASKept
  <1> DEFINE Kept == cr.exists /\ cr'.exists /\ cr.status.isdAS # NoIA
                     => cr'.status.isdAS = cr.status.isdAS
  <1>1. ASSUME Inv, [Next]_vars PROVE Kept
    <2> USE <1>1 DEF Inv, TypeOK, Safe, CopiesCurrent, WorkerKnows, Objects,
                     Statuses
    <2>1. ASSUME NEW agents \in AgentStates, NEW platform \in Platforms,
                 NEW ia \in discoverISDAS(sn.status.isdAS),
                 \/ UpdateStatusOk(agents, platform, ia)
                 \/ UpdateStatusError(agents, platform, ia)
          PROVE  Kept
      <3>1. \/ UNCHANGED cr
            \/ snCur /\ cr' = [cr EXCEPT !.status = NewStatus(agents, platform, ia)]
        BY <2>1, Zenon
           DEF UpdateStatusOk, UpdateStatusError, WriteError, Write, object
      <3>2. NewStatus(agents, platform, ia).isdAS = ia
        BY DEF NewStatus
      <3>3. snCur /\ cr.status.isdAS # NoIA => ia = cr.status.isdAS
        BY DEF discoverISDAS
      <3> QED
        BY <3>1, <3>2, <3>3
    <2>2. ASSUME NEW spec, Create(spec) \/ Edit(spec) PROVE Kept
      BY <2>2 DEF Create, Edit, UserWrite, Write
    <2>3. CASE AddFinalizerOk \/ AddFinalizerError
      BY <2>3, Zenon
         DEF AddFinalizerOk, AddFinalizerError, WriteError, Write, object
    <2>4. CASE ApplyError
      BY <2>4 DEF ApplyError, WriteError, Write, object
    <2>5. CASE RemoveFinalizerOk \/ RemoveFinalizerError
      <3>1. UNCHANGED cr \/ cr' = NoCR \/ cr' = [cr EXCEPT !.fin = FALSE]
        BY <2>5, Zenon DEF RemoveFinalizerOk, RemoveFinalizerError, Removed, Write,
                    object
      <3> QED
        BY <3>1 DEF NoCR
    <2>6. ASSUME NEW foreground \in BOOLEAN, Delete(foreground) PROVE Kept
      BY <2>6 DEF Delete, UserWrite, Write, NoCR
    <2>10. CASE ForegroundDone
      BY <2>10 DEF ForegroundDone, Write, NoCR
    <2>7. CASE UNCHANGED cr
      BY <2>7
    <2>8. ASSUME \/ Get \/ ApplyOk \/ SyncOk \/ SyncError \/ SyncListError
                 \/ FinalizeSkip \/ FinalizeNoBackend \/ FinalizeOk
                 \/ FinalizeStub \/ FinalizeError
          PROVE  UNCHANGED cr
      BY <2>8, Zenon
         DEF Get, ApplyOk, SyncOk, SyncError, SyncListError, FinalizeSkip,
         FinalizeNoBackend, FinalizeOk, FinalizeStub, FinalizeError, Release,
         object
    <2>9. ASSUME \/ CacheSync \/ RetryFires \/ PollFires \/ WatchEvent
                 \/ GarbageCollect \/ Elapse \/ SecretChange \/ DaemonSetDeleted
                 \/ \E n \in Nodes, ip \in IPs \cup {NoSIG} : NodeChange(n, ip)
                 \/ Crash \/ UNCHANGED vars
          PROVE  UNCHANGED cr
      BY <2>9 DEF CacheSync, RetryFires, PollFires, WatchEvent, GarbageCollect,
         Elapse, SecretChange, DaemonSetDeleted, NodeChange, Crash, vars, object
    <2> HIDE DEF Kept
    <2> QED
      BY <2>1, <2>2, <2>3, <2>4, <2>5, <2>6, <2>7, <2>8, <2>9, <2>10
         DEF Next, Reconcile, Environment
  <1>2. Inv /\ [Next]_vars => [Kept]_vars
    BY <1>1
  <1> QED
    BY Invariance, <1>2, PTL DEF Spec, ISDASKept
=============================================================================
