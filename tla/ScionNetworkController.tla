----------------------- MODULE ScionNetworkController -----------------------
(***************************************************************************)
(* The operator's reconcile loop for the ScionNetwork singleton            *)
(* (internal/operator/controller): one worker, reading the object from an  *)
(* informer cache that lags the API server, writing it with optimistic     *)
(* concurrency, and failing or dying between any two calls.                *)
(*                                                                         *)
(* Around it: a user creating, editing and deleting the object, nodes that *)
(* come, go and change address, the credentials Secret, the DaemonSet, and *)
(* the AS-side registrar, seen as the atomic register of SigRegistry: a    *)
(* failed PUT has or has not replaced the managed set.                     *)
(*                                                                         *)
(* A resourceVersion is only ever compared with the current one, so a copy *)
(* of the object carries a flag that says whether it still is current.     *)
(***************************************************************************)
EXTENDS Naturals, FiniteSets

CONSTANTS
    Nodes, IPs, IAs,
    Backends,      \* the values of spec.registrar.backend in use
    AgentStates,   \* of the agent pods: all ready, unready for less or for
                   \* more than the grace period
    Platforms,     \* the podEgressPlatform results in use
    Selectors,     \* the sets of nodes a spec.nodeSelector can select
    MaxDisturb,    \* bound on disturbances (see Disturb)
    NoSIG,         \* no InternalIP, no registered SIG
    NoIA,          \* status.isdAS not yet discovered
    NoSpec         \* no ScionNetwork, no DaemonSet

ASSUME ControllerAssumption ==
    /\ IsFiniteSet(Nodes)
    /\ NoSIG \notin IPs
    /\ AgentStates \subseteq {"ready", "fresh", "aged"}
    /\ Platforms \subseteq {"True", "Unknown", "False"}
    /\ Backends \subseteq {"manual", "http", "anapaya"}
    /\ Selectors \subseteq SUBSET Nodes
    /\ NoSpec \notin [backend : Backends, sel : Selectors]
    /\ MaxDisturb \in Nat

VARIABLES
    cr,        \* the ScionNetwork at the API server
    ccr,       \* its copy in the informer cache
    ccrCur,    \* the cached copy has the current resourceVersion
    sn,        \* the copy Reconcile works on
    snCur,     \* that copy has the current resourceVersion
    pc,        \* the next call of Reconcile
    reg,       \* the RegistrarStatus computed by syncRegistrar
    rel,       \* finalize: why the finalizer may go
    queue,     \* the singleton's key is in the work queue
    retry,     \* a RequeueAfter for a failed registrar sync is running
    poll,      \* a RequeueAfter for agents or platform is running
    gauge,     \* degradedGauge
    ds,        \* the spec the DaemonSet was rendered from, or NoSpec
    nodes,     \* nodes[n]: the node's InternalIP, or NoSIG
    secret,    \* the credentials Secret is there, with its token
    late,      \* deregistrationDeadline has passed since the deletion
    managed,   \* external: the managed set at the registrar
    why,       \* history: how a finalizer was released since the last PUT
    budget     \* disturbances left

object == <<cr, ccr, ccrCur>>
local == <<sn, snCur, pc, reg, rel>>
sched == <<queue, retry, poll>>
world == <<ds, nodes, secret, late, managed, why, budget>>
vars == <<object, local, sched, gauge, world>>

Specs == [backend : Backends, sel : Selectors]
SigSets == [Nodes -> IPs \cup {NoSIG}]
Empty == [n \in Nodes |-> NoSIG]
Reasons == {"none", "AsExpected", "ApplyFailed", "UnreadyAgents", "Platform",
            "RegistrarSyncFailed"}
RegStatuses == [desired : SigSets, registered : Nat, failed : BOOLEAN]
Statuses == [degraded : Reasons, reg : RegStatuses, isdAS : IAs \cup {NoIA}]

NoReg == [desired |-> Empty, registered |-> 0, failed |-> FALSE]
NoStatus == [degraded |-> "none", reg |-> NoReg, isdAS |-> NoIA]

\* fin: registrarFinalizer is set; held: the API server's own finalizer of a
\* foreground deletion is.
NoCR == [exists |-> FALSE, deleting |-> FALSE, fin |-> FALSE, held |-> FALSE,
         spec |-> NoSpec, status |-> NoStatus]

Init == /\ cr = NoCR /\ ccr = NoCR /\ ccrCur = TRUE
        /\ sn = NoCR /\ snCur = FALSE /\ pc = "idle" /\ reg = NoReg
        /\ rel = "none"
        /\ queue = FALSE /\ retry = FALSE /\ poll = FALSE
        /\ gauge = FALSE
        /\ ds = NoSpec /\ nodes \in SigSets /\ secret = TRUE /\ late = FALSE
        /\ managed = Empty
        /\ why = "none"
        /\ budget = MaxDisturb

----------------------------------------------------------------------------
\* nodesToSIGs: one SIG per selected node that has an InternalIP.
nodesToSIGs(sel) == [n \in Nodes |-> IF n \in sel THEN nodes[n] ELSE NoSIG]

\* RegisteredNodes counts the SIGs.
Count(sigs) == Cardinality({n \in Nodes : sigs[n] # NoSIG})

\* backendFor fails when the http backend's Secret or its token is missing.
backendFor(spec) == spec.backend = "http" => secret

\* Mutant: a reason nobody knows.
degradedReasonUnpaired(agents, platform, regFailed, backend) ==
    IF regFailed THEN "SyncFailed" ELSE "AsExpected"

\* degradedReason: aged-out agents, then the platform, then the registrar.
degradedReason(agents, platform, regFailed, backend) ==
    IF agents = "aged" THEN "UnreadyAgents"
    ELSE IF platform = "False" THEN "Platform"
    ELSE IF regFailed /\ backend # "manual" THEN "RegistrarSyncFailed"
    ELSE "AsExpected"

\* A write of the object; the cache is behind until the watch event arrives.
Write(new) == /\ cr' = new
              /\ ccrCur' = FALSE
              /\ UNCHANGED ccr

\* Reconcile returns; `again`: with an error or Requeue, so that the key is
\* queued again.
Return(again) == /\ pc' = "idle"
                 /\ sn' = NoCR
                 /\ snCur' = FALSE
                 /\ reg' = NoReg
                 /\ rel' = "none"
                 /\ queue' = (queue \/ again)

----------------------------------------------------------------------------
(* Reconcile, one action per call that can fail or be overtaken.           *)

\* Mutant: Reconcile goes on without adding its finalizer.
GetNoFinalizer == /\ pc = "idle"
                  /\ queue
                  /\ queue' = FALSE
                  /\ IF ccr.exists
                        THEN /\ sn' = ccr
                             /\ snCur' = ccrCur
                             /\ pc' = IF ccr.deleting THEN "finalize"
                                      ELSE "apply"
                        ELSE UNCHANGED <<sn, snCur, pc>>
                  /\ UNCHANGED <<object, reg, rel, retry, poll, gauge, world>>

\* The worker takes the key and reads the object from the cache.
Get == /\ pc = "idle"
       /\ queue
       /\ queue' = FALSE
       /\ IF ccr.exists
             THEN /\ sn' = ccr
                  /\ snCur' = ccrCur
                  /\ pc' = IF ccr.deleting THEN "finalize"
                           ELSE IF ccr.fin THEN "apply" ELSE "addFinalizer"
             ELSE UNCHANGED <<sn, snCur, pc>>
       /\ UNCHANGED <<object, reg, rel, retry, poll, gauge, world>>

\* A write refused (conflict, not found), lost, or made but not confirmed:
\* Reconcile returns the error.
WriteError(new) == /\ \/ UNCHANGED object
                      \/ snCur /\ Write(new)
                   /\ Return(TRUE)

AddFinalizerOk == /\ pc = "addFinalizer"
                  /\ snCur
                  /\ Write([cr EXCEPT !.fin = TRUE])
                  /\ sn' = [sn EXCEPT !.fin = TRUE]
                  /\ pc' = "apply"
                  /\ UNCHANGED <<snCur, reg, rel, sched, gauge, world>>

AddFinalizerError == /\ pc = "addFinalizer"
                     /\ WriteError([cr EXCEPT !.fin = TRUE])
                     /\ UNCHANGED <<retry, poll, gauge, world>>

\* clusterForbiddenCIDRs, validateNodeIPAdvertisement and apply succeed: the
\* DaemonSet is as the spec says.
ApplyOk == /\ pc = "apply"
           /\ ds' = sn.spec
           /\ pc' = "sync"
           /\ UNCHANGED <<object, sn, snCur, reg, rel, sched, gauge,
                          nodes, secret, late, managed, why, budget>>

\* Mutant: the error is recorded and swallowed, so that nothing is retried.
ApplyErrorSwallowed == /\ pc = "apply"
                       /\ ds' \in {ds, sn.spec}
                       /\ UNCHANGED object
                       /\ Return(FALSE)
                       /\ UNCHANGED <<retry, poll, gauge, nodes, secret, late,
                                      managed, why, budget>>

\* One of them fails, before or after the DaemonSet was written:
\* markApplyFailed tries to record it and the error is returned.
ApplyError == /\ pc = "apply"
              /\ ds' \in {ds, sn.spec}
              /\ WriteError([cr EXCEPT !.status.degraded = "ApplyFailed"])
              /\ UNCHANGED <<retry, poll, gauge,
                             nodes, secret, late, managed, why, budget>>

\* The registrar replaces the managed set.
Put(sigs) == managed' = sigs /\ why' = "none"

\* syncRegistrar, the backend's Ensure returning nil.
SyncOk == LET sigs == nodesToSIGs(sn.spec.sel) IN
          /\ pc = "sync"
          /\ sn.spec.backend # "anapaya"
          /\ backendFor(sn.spec)
          /\ IF sn.spec.backend = "http" THEN Put(sigs)
                                         ELSE UNCHANGED <<managed, why>>
          /\ reg' = [desired |-> sigs, registered |-> Count(sigs),
                     failed |-> FALSE]
          /\ pc' = "status"
          /\ UNCHANGED <<object, sn, snCur, rel, sched, gauge,
                         ds, nodes, secret, late, budget>>

\* syncRegistrar, no backend or Ensure failing: registered keeps its value.
\* A PUT that failed may have replaced the set.
SyncError == LET sigs == nodesToSIGs(sn.spec.sel) IN
             /\ pc = "sync"
             /\ sn.spec.backend # "manual"
             /\ \/ UNCHANGED <<managed, why>>
                \/ sn.spec.backend = "http" /\ secret /\ Put(sigs)
             /\ reg' = [sn.status.reg EXCEPT !.desired = sigs, !.failed = TRUE]
             /\ pc' = "status"
             /\ UNCHANGED <<object, sn, snCur, rel, sched, gauge,
                            ds, nodes, secret, late, budget>>

\* syncRegistrar, the nodes could not be listed.
SyncListError == /\ pc = "sync"
                 /\ reg' = [sn.status.reg EXCEPT !.failed = TRUE]
                 /\ pc' = "status"
                 /\ UNCHANGED <<object, sn, snCur, rel, sched, gauge, world>>

\* discoverISDAS: fetched only while empty; a failed fetch leaves it empty.
discoverISDAS(old) == IF old = NoIA THEN IAs \cup {NoIA} ELSE {old}

\* The status updateStatus writes.
NewStatus(agents, platform, ia) ==
    [degraded |-> degradedReason(agents, platform, reg.failed, sn.spec.backend),
     reg |-> reg, isdAS |-> ia]

\* Mutant: a failed registrar sync is not requeued.
UpdateStatusNoRetry(agents, platform, ia) ==
    LET st == NewStatus(agents, platform, ia)
    IN  /\ pc = "status"
        /\ snCur
        /\ \/ Write([cr EXCEPT !.status = st])
           \/ st = cr.status /\ UNCHANGED object
        /\ gauge' = (st.degraded # "AsExpected")
        /\ Return(FALSE)
        /\ UNCHANGED <<retry, poll, world>>

\* Mutant: status is written whatever the resourceVersion, as a patch would.
UpdateStatusNoConflict(agents, platform, ia) ==
    /\ pc = "status"
    /\ cr.exists
    /\ Write([cr EXCEPT !.status = NewStatus(agents, platform, ia)])
    /\ Return(FALSE)
    /\ UNCHANGED <<retry, poll, gauge, world>>

\* updateStatus persists the status, then sets the gauge; Reconcile picks the
\* requeue.  A write that changes nothing leaves no event; LastSyncTime, error
\* texts and ready counts may make any write a change.
UpdateStatusOk(agents, platform, ia) ==
    LET st == NewStatus(agents, platform, ia)
        available == agents = "ready" /\ platform # "False"
    IN  /\ pc = "status"
        /\ snCur
        /\ \/ Write([cr EXCEPT !.status = st])
           \/ st = cr.status /\ UNCHANGED object
        /\ gauge' = (st.degraded # "AsExpected")
        /\ retry' = (retry \/ reg.failed)
        /\ poll' = (poll \/ (~reg.failed /\ (~available \/ platform # "True")))
        /\ Return(FALSE)
        /\ UNCHANGED world

UpdateStatusError(agents, platform, ia) ==
    /\ pc = "status"
    /\ WriteError([cr EXCEPT !.status = NewStatus(agents, platform, ia)])
    /\ UNCHANGED <<retry, poll, gauge, world>>

\* finalize up to the decision that the finalizer may go.
Release(reason) == /\ rel' = reason
                   /\ pc' = "release"
                   /\ UNCHANGED <<object, sn, snCur, reg, sched, gauge,
                                  ds, nodes, secret, late, budget>>

\* Nothing left to do for an object that only a foreground deletion holds.
FinalizeSkip == /\ pc = "finalize"
                /\ ~sn.fin
                /\ Return(FALSE)
                /\ UNCHANGED <<object, retry, poll, gauge, world>>

\* backendFor fails: no Secret, no token in it, or the cache does not have it.
FinalizeNoBackend == /\ pc = "finalize"
                     /\ sn.fin
                     /\ sn.spec.backend = "http"
                     /\ Release("backendError")
                     /\ UNCHANGED <<managed, why>>

\* Ensure(nil) returns nil: the http backend emptied the managed set, the
\* manual one did nothing.
FinalizeOk == /\ pc = "finalize"
              /\ sn.fin
              /\ backendFor(sn.spec)
              /\ \/ /\ sn.spec.backend = "http"
                    /\ Put(Empty)
                    /\ Release("deregistered")
                 \/ /\ sn.spec.backend = "manual"
                    /\ UNCHANGED <<managed, why>>
                    /\ Release("manual")

FinalizeStub == /\ pc = "finalize"
                /\ sn.fin
                /\ sn.spec.backend = "anapaya"
                /\ Release("stub")
                /\ UNCHANGED <<managed, why>>

\* Mutant: no deregistrationDeadline.
FinalizeErrorForever == /\ pc = "finalize"
                        /\ sn.fin
                        /\ sn.spec.backend = "http" /\ secret
                        /\ UNCHANGED <<managed, why>> \/ Put(Empty)
                        /\ Return(TRUE)
                        /\ UNCHANGED <<object, retry, poll, gauge,
                                       ds, nodes, secret, late, budget>>

\* Ensure(nil) fails: retried until the deadline, then let go.
FinalizeError == /\ pc = "finalize"
                 /\ sn.fin
                 /\ sn.spec.backend = "http" /\ secret
                 /\ UNCHANGED <<managed, why>> \/ Put(Empty)
                 /\ \/ late /\ Release("deadline")
                    \/ /\ ~late
                       /\ Return(TRUE)
                       /\ UNCHANGED <<object, retry, poll, gauge,
                                      ds, nodes, secret, late, budget>>

\* RemoveFinalizer and Update: the object goes, its deletion being pending,
\* unless a foreground deletion still holds it.
Removed == /\ why' = rel
           /\ late' = (late /\ cr.held)
           /\ Write(IF cr.held THEN [cr EXCEPT !.fin = FALSE] ELSE NoCR)

RemoveFinalizerOk == /\ pc = "release"
                     /\ snCur
                     /\ Removed
                     /\ Return(FALSE)
                     /\ UNCHANGED <<retry, poll, gauge,
                                    ds, nodes, secret, managed, budget>>

RemoveFinalizerError == /\ pc = "release"
                        /\ \/ UNCHANGED <<object, why, late>>
                           \/ snCur /\ Removed
                        /\ Return(TRUE)
                        /\ UNCHANGED <<retry, poll, gauge,
                                       ds, nodes, secret, managed, budget>>

Reconcile ==
    \/ Get
    \/ AddFinalizerOk \/ AddFinalizerError
    \/ ApplyOk \/ ApplyError
    \/ SyncOk \/ SyncError \/ SyncListError
    \/ \E agents \in AgentStates, platform \in Platforms,
          ia \in discoverISDAS(sn.status.isdAS) :
             \/ UpdateStatusOk(agents, platform, ia)
             \/ UpdateStatusError(agents, platform, ia)
    \/ FinalizeSkip \/ FinalizeNoBackend \/ FinalizeOk \/ FinalizeStub
    \/ FinalizeError
    \/ RemoveFinalizerOk \/ RemoveFinalizerError

----------------------------------------------------------------------------
(* Watches, timers and garbage collection (SetupWithManager and, external, *)
(* controller-runtime and the API server).                                 *)

\* A watch event updates the cache and queues the key.
CacheSync == /\ ~ccrCur
             /\ ccr' = cr
             /\ ccrCur' = TRUE
             /\ queue' = TRUE
             /\ UNCHANGED <<cr, local, retry, poll, gauge, world>>

RetryFires == /\ retry
              /\ retry' = FALSE
              /\ queue' = TRUE
              /\ UNCHANGED <<object, local, poll, gauge, world>>

PollFires == /\ poll
             /\ poll' = FALSE
             /\ queue' = TRUE
             /\ UNCHANGED <<object, local, retry, gauge, world>>

\* The DaemonSet's status or a watched platform object changes.
WatchEvent == /\ queue' = TRUE
              /\ UNCHANGED <<object, local, retry, poll, gauge, world>>

\* The owner reference takes the DaemonSet with the ScionNetwork, or before it
\* in a foreground deletion.
GarbageCollect == /\ ~cr.exists \/ cr.held
                  /\ ds # NoSpec
                  /\ ds' = NoSpec
                  /\ queue' = TRUE
                  /\ UNCHANGED <<object, local, retry, poll, gauge,
                                 nodes, secret, late, managed, why, budget>>

\* Its dependents gone, a foreground deletion no longer holds the object.
ForegroundDone == /\ cr.held
                  /\ ds = NoSpec
                  /\ Write(IF cr.fin THEN [cr EXCEPT !.held = FALSE] ELSE NoCR)
                  /\ snCur' = FALSE
                  /\ late' = (late /\ cr.fin)
                  /\ UNCHANGED <<sn, pc, reg, rel, sched, gauge,
                                 ds, nodes, secret, managed, why, budget>>

Elapse == /\ cr.deleting
          /\ ~late
          /\ late' = TRUE
          /\ UNCHANGED <<object, local, sched, gauge,
                         ds, nodes, secret, managed, why, budget>>

----------------------------------------------------------------------------
(* Disturbances: what the user, the cluster and the kernel do.             *)

Disturb == budget > 0 /\ budget' = budget - 1

\* A write of the object by somebody else.
UserWrite(new) == /\ Disturb
                  /\ Write(new)
                  /\ snCur' = FALSE
                  /\ UNCHANGED <<sn, pc, reg, rel, sched, gauge,
                                 ds, nodes, secret, late, managed, why>>

Create(spec) == /\ ~cr.exists
                /\ UserWrite([NoCR EXCEPT !.exists = TRUE, !.spec = spec])

Edit(spec) == /\ cr.exists
              /\ spec # cr.spec
              /\ UserWrite([cr EXCEPT !.spec = spec])

\* Without a finalizer the object is gone at once.
Delete(foreground) ==
    /\ cr.exists
    /\ ~cr.deleting
    /\ UserWrite(IF cr.fin \/ foreground
                    THEN [cr EXCEPT !.deleting = TRUE, !.held = foreground]
                    ELSE NoCR)

NodeChange(n, ip) == /\ Disturb
                     /\ ip # nodes[n]
                     /\ nodes' = [nodes EXCEPT ![n] = ip]
                     /\ queue' = TRUE
                     /\ UNCHANGED <<object, local, retry, poll, gauge,
                                    ds, secret, late, managed, why>>

\* Secrets are read through the cache but not watched for the key.
SecretChange == /\ Disturb
                /\ secret' = ~secret
                /\ UNCHANGED <<object, local, sched, gauge,
                               ds, nodes, late, managed, why>>

DaemonSetDeleted == /\ Disturb
                    /\ ds # NoSpec
                    /\ ds' = NoSpec
                    /\ queue' = TRUE
                    /\ UNCHANGED <<object, local, retry, poll, gauge,
                                   nodes, secret, late, managed, why>>

\* The operator dies or loses its lease; the next one lists everything and
\* starts with the key queued and the gauge at 0.
Crash == /\ Disturb
         /\ pc' = "idle" /\ sn' = NoCR /\ snCur' = FALSE
         /\ reg' = NoReg /\ rel' = "none"
         /\ ccr' = cr /\ ccrCur' = TRUE
         /\ queue' = TRUE /\ retry' = FALSE /\ poll' = FALSE
         /\ gauge' = FALSE
         /\ UNCHANGED <<cr, ds, nodes, secret, late, managed, why>>

Environment ==
    \/ CacheSync \/ RetryFires \/ PollFires \/ WatchEvent
    \/ GarbageCollect \/ ForegroundDone \/ Elapse
    \/ \E spec \in Specs : Create(spec) \/ Edit(spec)
    \/ \E foreground \in BOOLEAN : Delete(foreground)
    \/ \E n \in Nodes, ip \in IPs \cup {NoSIG} : NodeChange(n, ip)
    \/ SecretChange \/ DaemonSetDeleted \/ Crash

Next == Reconcile \/ Environment

Spec == Init /\ [][Next]_vars

(***************************************************************************)
(* Fairness: the worker, the informer and the garbage collector run,       *)
(* timers fire and time passes.                                            *)
(* Errors being retried with backoff, each call that is made again and     *)
(* again succeeds at some time, and its failures are unrelated to those of *)
(* the other calls and to the cache's lag: apply and sync succeed also     *)
(* when working on a current copy, the status write also after a sync that *)
(* succeeded.  Nothing of the kind is assumed of deregistration: the       *)
(* registrar may be gone for good when the object is deleted.              *)
(***************************************************************************)
StatusAfterSync ==
    \E agents \in AgentStates, platform \in Platforms,
       ia \in discoverISDAS(sn.status.isdAS) :
          ~reg.failed /\ UpdateStatusOk(agents, platform, ia)

Fairness == /\ WF_vars(Reconcile) /\ WF_vars(CacheSync)
            /\ WF_vars(RetryFires) /\ WF_vars(Elapse)
            /\ WF_vars(GarbageCollect) /\ WF_vars(ForegroundDone)
            /\ SF_vars(AddFinalizerOk) /\ SF_vars(RemoveFinalizerOk)
            /\ SF_vars(snCur /\ ApplyOk) /\ SF_vars(snCur /\ SyncOk)
            /\ SF_vars(StatusAfterSync)

LiveSpec == Spec /\ Fairness

----------------------------------------------------------------------------
\* Types of the object, its copies, the worker's state and the world.
Objects == [exists : BOOLEAN, deleting : BOOLEAN, fin : BOOLEAN,
            held : BOOLEAN, spec : Specs \cup {NoSpec}, status : Statuses]

TypeOK ==
    /\ cr \in Objects /\ ccr \in Objects /\ sn \in Objects
    /\ ccrCur \in BOOLEAN /\ snCur \in BOOLEAN
    /\ pc \in {"idle", "addFinalizer", "apply", "sync", "status", "finalize",
               "release"}
    /\ reg \in RegStatuses
    /\ rel \in {"none", "deregistered", "manual", "stub", "backendError",
                "deadline"}
    /\ why \in {"none", "deregistered", "manual", "stub", "backendError",
                "deadline"}
    /\ queue \in BOOLEAN /\ retry \in BOOLEAN /\ poll \in BOOLEAN
    /\ gauge \in BOOLEAN /\ secret \in BOOLEAN /\ late \in BOOLEAN
    /\ ds \in Specs \cup {NoSpec}
    /\ nodes \in SigSets /\ managed \in SigSets
    /\ budget \in Nat

\* The ScionNetwork is there and its finalizer holds it.
Guarded == cr.exists /\ cr.fin

\* "registrarFinalizer guards ScionNetwork deletion until the node SIG set has
\* been deregistered": entries are registered only under a finalizer, unless
\* it was released over them in one of the ways finalize has of releasing it
\* without an empty PUT that succeeded.  Stale caches, conflicts, unconfirmed
\* writes and operator crashes included.
RegisteredGuarded ==
    managed # Empty =>
        Guarded \/ why \in {"backendError", "deadline", "stub", "manual"}

\* finalize's comment, of entries that outlive the object: "a stub never
\* registered anything, so there is nothing to deregister"; they are left
\* only when no backend can be built or the deadline has passed.
OnlyDocumentedLeftovers ==
    managed # Empty => Guarded \/ why \in {"backendError", "deadline"}

\* When the worker is idle with nothing queued, no registrar retry running and
\* no watch event due, everything is as the spec says: the DaemonSet is the
\* one of the current spec, status publishes the SIGs of the current nodes
\* and, for the http backend, these are the registered ones; and the gauge,
\* which markApplyFailed and a restart leave behind, has caught up with the
\* Degraded condition.  No error path of Reconcile forgets to come back.
AtRestConverged ==
    (/\ pc = "idle" /\ ~queue /\ ~retry /\ ccrCur
     /\ cr.exists /\ ~cr.deleting)
    => LET sigs == nodesToSIGs(cr.spec.sel) IN
       /\ ds = cr.spec
       /\ cr.status.reg.desired = sigs
       /\ gauge = (cr.status.degraded # "AsExpected")
       /\ cr.spec.backend = "http" =>
             managed = sigs /\ cr.status.reg.registered = Count(sigs)

\* discoverISDAS: "a discovered value is kept as-is", also when Reconcile runs
\* on a cached copy from before its own last status write.
ISDASKept == [][cr.exists /\ cr'.exists /\ cr.status.isdAS # NoIA
                => cr'.status.isdAS = cr.status.isdAS]_vars

\* A deletion completes, with the registrar down for good as well: the
\* deadline bounds how long failing deregistration blocks it.
DeletionCompletes == cr.deleting ~> ~cr.deleting

\* Disturbances over, the http backend's managed set and the status are those
\* of the current nodes and stay so, if the Secret is there: failed syncs are
\* retried, and a retry that fails does not undo what succeeded.
RegistrationConverges ==
    <>[](/\ cr.exists /\ ~cr.deleting
         /\ cr.spec.backend = "http" /\ secret
         => LET sigs == nodesToSIGs(cr.spec.sel)
            IN  /\ managed = sigs
                /\ cr.status.reg.desired = sigs
                /\ cr.status.reg.registered = Count(sigs))
=============================================================================
