---------------------------- MODULE AgentProcess ---------------------------
(***************************************************************************)
(* The process of a node agent (run in cmd/agent): its start, the errgroup *)
(* of its goroutines with the order in which they start, the first error   *)
(* that cancels them all, readiness, shutdown and exit status, and its     *)
(* restart by the kubelet.  The daemon API's goroutine works on the        *)
(* databases of TrustCache.                                                *)
(*                                                                         *)
(* A goroutine's entry in g is where it is; "done" when it has returned.   *)
(***************************************************************************)
EXTENDS Naturals, TrustCache

CONSTANT MaxDisturb   \* bound on disturbances (see Disturb)

ASSUME ProcessAssumption ==
    /\ MaxDisturb \in Nat
    /\ None \notin Contents
    /\ None \notin {"canceled", "failed"}

VARIABLES
    proc,        \* "start" until the goroutines run, "run", "ok" or "failed"
    g,           \* where each goroutine is
    signalled,   \* SIGTERM was sent
    cancelled,   \* the errgroup's context is done
    err,         \* the errgroup's first error
    ready,       \* health: the gateway's flag
    sigUp,       \* the channel is closed
    registered,  \* the default registry has the trust engine's metrics
    closed,      \* the metrics server was shut down
    budget       \* disturbances left

Goroutines == {"bootstrap", "policy", "gateway", "daemon", "metrics", "shutdown"}

Places == {"wait", "connector", "gateway", "up", "files", "serve", "preflight",
           "rmTrust", "rmPath", "engine", "done"}

group == <<proc, g, signalled, cancelled, err>>
shared == <<ready, sigUp, registered, closed>>
vars == <<group, shared, cache, budget>>

Disturb == budget > 0 /\ budget' = budget - 1
Calm == UNCHANGED budget

NotStarted == [r \in Goroutines |->
                  CASE r = "gateway" -> "connector"
                    [] r = "metrics" -> "files"
                    [] OTHER -> "wait"]

Init == /\ proc = "start" /\ g = NotStarted
        /\ signalled = FALSE /\ cancelled = FALSE /\ err = None
        /\ ready = FALSE /\ sigUp = FALSE /\ registered = FALSE /\ closed = FALSE
        /\ CacheInit
        /\ budget = MaxDisturb

----------------------------------------------------------------------------
(* The process and its errgroup                                            *)

\* run up to the goroutines; Fetch may have replaced TRCs before (Refresh).
Start == /\ proc = "start"
         /\ proc' = "run"
         /\ UNCHANGED <<g, signalled, cancelled, err, shared, cache>>
         /\ Calm

\* It fails, on its own account or because of a signal.
StartError == /\ proc = "start"
              /\ proc' = "failed"
              /\ UNCHANGED <<g, signalled, cancelled, err, shared, cache>>
              /\ Disturb \/ (signalled /\ Calm)

\* bootstrap.Fetch, before the goroutines or in bootstrap.Run.
Refresh(n) == /\ proc = "start" \/ (proc = "run" /\ g["bootstrap"] = "wait")
              /\ Mint(n)
              /\ UNCHANGED <<group, shared>>
              /\ Disturb

\* Mutant: the errgroup keeps the last error.
ReturnLast(r, e) == /\ g' = [g EXCEPT ![r] = "done"]
                    /\ err' = IF e # None THEN e ELSE err
                    /\ cancelled' = (cancelled \/ e # None)
                    /\ UNCHANGED <<proc, signalled>>

\* A goroutine returns e: the first error is kept, and cancels the context.
Return(r, e) == /\ g' = [g EXCEPT ![r] = "done"]
                /\ err' = IF err = None THEN e ELSE err
                /\ cancelled' = (cancelled \/ e # None)
                /\ UNCHANGED <<proc, signalled>>

Goto(r, where) == /\ g' = [g EXCEPT ![r] = where]
                  /\ UNCHANGED <<proc, signalled, cancelled, err>>

\* NotifyContext: a signal cancels the context the errgroup's derives from.
Signal == /\ proc \in {"start", "run"} /\ ~signalled
          /\ signalled' = TRUE /\ cancelled' = TRUE
          /\ UNCHANGED <<proc, g, err, shared, cache>>
          /\ Disturb

\* g.Wait returns, then run, then main.
Exit == /\ proc = "run"
        /\ \A r \in Goroutines : g[r] = "done"
        /\ proc' = IF err = "failed" THEN "failed" ELSE "ok"
        /\ UNCHANGED <<g, signalled, cancelled, err, shared, cache>>
        /\ Calm

\* A new process; only files survive.
Fresh == /\ proc' = "start" /\ g' = NotStarted
         /\ signalled' = FALSE /\ cancelled' = FALSE /\ err' = None
         /\ ready' = FALSE /\ sigUp' = FALSE /\ registered' = FALSE /\ closed' = FALSE

Restart == /\ proc \in {"ok", "failed"}
           /\ Fresh
           /\ UNCHANGED cache
           /\ Calm

\* The process is killed, and restarted.
Kill == /\ proc = "run"
        /\ Fresh
        /\ Abandon(g["daemon"] = "rmPath")
        /\ Disturb

----------------------------------------------------------------------------
(* The goroutines.  bootstrap.Run and the policy loop run until cancelled. *)

LoopStop(r) == /\ g[r] = "wait" /\ cancelled
               /\ Return(r, "canceled")
               /\ UNCHANGED <<shared, cache>>
               /\ Calm

\* sig.Run up to the standalone connector, which registers its metrics.
Connector == /\ g["gateway"] = "connector"
             /\ Goto("gateway", "gateway")
             /\ registered' = TRUE
             /\ UNCHANGED <<ready, sigUp, closed, cache>>
             /\ Calm

\* sig.Run constructs the gateway and calls OnUp: SetReady, close(sigUp).
OnUp == /\ g["gateway"] = "gateway"
        /\ Goto("gateway", "up")
        /\ ready' = TRUE /\ sigUp' = TRUE
        /\ UNCHANGED <<registered, closed, cache>>
        /\ Calm

\* Mutant: without the deferred SetReady.
GatewayReturnReady(e) == /\ Return("gateway", e)
                         /\ UNCHANGED <<shared, cache>>

\* sig.Run returns; then the deferred SetReady.
GatewayReturn(e) == /\ Return("gateway", e)
                    /\ ready' = FALSE
                    /\ UNCHANGED <<sigUp, registered, closed, cache>>

GatewayError == /\ g["gateway"] \in {"connector", "gateway", "up"}
                /\ GatewayReturn("failed")
                /\ Disturb

GatewayStop == /\ g["gateway"] = "up" /\ cancelled
               /\ \E e \in {None, "canceled", "failed"} : GatewayReturn(e)
               /\ Calm

\* waitForFiles ends when the Secret of MetricsTLS is mounted; then
\* ListenAndServeTLS.
MetricsServe == /\ g["metrics"] = "files"
                /\ Goto("metrics", "serve")
                /\ UNCHANGED <<shared, cache>>
                /\ Calm

MetricsError == /\ g["metrics"] = "serve"
                /\ Return("metrics", "failed")
                /\ UNCHANGED <<shared, cache>>
                /\ Disturb

\* waitForFiles is cancelled, or the server is closed, perhaps before it began.
MetricsStop == /\ \/ g["metrics"] = "files" /\ cancelled /\ Return("metrics", "canceled")
                  \/ g["metrics"] = "serve" /\ closed /\ Return("metrics", None)
               /\ UNCHANGED <<shared, cache>>
               /\ Calm

\* The last goroutine: srv.Shutdown, with five seconds for open requests.
Shutdown == /\ g["shutdown"] = "wait" /\ cancelled
            /\ closed' = TRUE
            /\ \E e \in {None, "failed"} : Return("shutdown", e)
            /\ UNCHANGED <<ready, sigUp, registered, cache>>
            /\ Calm

----------------------------------------------------------------------------
(* The daemon API's goroutine                                              *)

\* Mutant: it does not wait for the gateway.
DaemonStartAtOnce == /\ g["daemon"] = "wait"
                     /\ Goto("daemon", "preflight")
                     /\ BeginLoad
                     /\ UNCHANGED <<certs, databases, minted, torn, shared>>
                     /\ Calm

\* sigUp is closed: daemonapi.Run begins with resetStaleTrustCache.
DaemonStart == /\ g["daemon"] = "wait" /\ sigUp
               /\ Goto("daemon", "preflight")
               /\ BeginLoad
               /\ UNCHANGED <<certs, databases, minted, torn, shared>>
               /\ Calm

DaemonLoad(n) == /\ g["daemon"] \in {"preflight", "engine"}
                 /\ Load(n)
                 /\ UNCHANGED <<group, shared>>
                 /\ Calm

\* Everything fits.  Run opens the databases, registers its metrics or uses those
\* there are (registerOrReuse), and the trust engine loads the TRCs.
Preflight == /\ g["daemon"] = "preflight" /\ todo = {}
             /\ Goto("daemon", "engine")
             /\ BeginLoad
             /\ registered' = TRUE
             /\ UNCHANGED <<certs, databases, minted, torn, ready, sigUp, closed>>
             /\ Calm

\* Mutant: a conflict is an error.
PreflightWriteFailedFatal == /\ g["daemon"] = "preflight"
                             /\ Conflict
                             /\ Return("daemon", "failed")
                             /\ Abandon(FALSE)
                             /\ UNCHANGED <<shared>>
                             /\ Calm

\* ErrWriteFailed: a TRC does not fit, or an insert failed for another reason,
\* the context's end among them.
PreflightWriteFailed == /\ g["daemon"] = "preflight"
                        /\ \/ (Conflict \/ (cancelled /\ todo # {})) /\ Calm
                           \/ todo # {} /\ Disturb
                        /\ Goto("daemon", "rmTrust")
                        /\ todo' = {}
                        /\ UNCHANGED <<certs, databases, minted, torn, shared>>

DaemonRemoveTrust == /\ g["daemon"] = "rmTrust"
                     /\ RemoveTrust
                     /\ Goto("daemon", "rmPath")
                     /\ UNCHANGED <<shared>>
                     /\ Calm

DaemonRemovePath == /\ g["daemon"] = "rmPath"
                    /\ RemovePath
                    /\ Goto("daemon", "engine")
                    /\ registered' = TRUE
                    /\ UNCHANGED <<ready, sigUp, closed>>
                    /\ Calm

\* Mutant: the API is served while TRCs are being loaded.
DaemonServeEarly == /\ g["daemon"] = "engine" /\ ~Conflict
                    /\ Goto("daemon", "serve")
                    /\ UNCHANGED <<shared, cache>>
                    /\ Calm

\* The engine is complete; the API is served.
DaemonServe == /\ g["daemon"] = "engine" /\ todo = {}
               /\ Goto("daemon", "serve")
               /\ UNCHANGED <<shared, cache>>
               /\ Calm

DaemonReturn(e) == /\ Return("daemon", e)
                   /\ Abandon(g["daemon"] = "rmPath")
                   /\ UNCHANGED <<shared>>

\* NewEngine fails on a TRC re-created since the preflight.
EngineConflict == /\ g["daemon"] = "engine" /\ Conflict
                  /\ DaemonReturn("failed")
                  /\ Calm

\* Any other error of daemonapi.Run, a file that cannot be removed included.
DaemonError == /\ g["daemon"] \in {"preflight", "rmTrust", "rmPath", "engine", "serve"}
               /\ DaemonReturn("failed")
               /\ Disturb

\* Mutant: nothing stops the server.
DaemonStopNever == /\ g["daemon"] \in {"wait", "preflight", "engine"} /\ cancelled
                   /\ DaemonReturn("canceled")
                   /\ Calm

\* The context is done: its error, or nil from a server that was stopped.
DaemonStop == /\ g["daemon"] \in {"wait", "preflight", "engine", "serve"} /\ cancelled
              /\ \/ DaemonReturn("canceled")
                 \/ g["daemon"] = "serve" /\ DaemonReturn(None)
              /\ Calm

\* While the API is served: the periodic task, and what the daemon does.
DaemonWork == /\ g["daemon"] = "serve"
              /\ PeriodicLoad \/ RemoveSegment \/ \E n \in Names : StoreSegment(n)
              /\ UNCHANGED <<group, shared>>
              /\ Calm

----------------------------------------------------------------------------
Gateway == Connector \/ OnUp \/ GatewayStop
Daemon == \/ DaemonStart \/ (\E n \in Names : DaemonLoad(n)) \/ Preflight
          \/ PreflightWriteFailed \/ DaemonRemoveTrust \/ DaemonRemovePath
          \/ DaemonServe \/ EngineConflict \/ DaemonStop
Metrics == MetricsServe \/ MetricsStop

Running == /\ proc = "run"
           /\ \/ (\E r \in {"bootstrap", "policy"} : LoopStop(r))
              \/ Gateway \/ Daemon \/ Metrics \/ Shutdown
              \/ GatewayError \/ MetricsError \/ DaemonError \/ DaemonWork

Next == \/ Start \/ StartError \/ (\E n \in Names : Refresh(n))
        \/ Signal \/ Exit \/ Restart \/ Kill
        \/ Running

Spec == Init /\ [][Next]_vars

InRun(A) == proc = "run" /\ A

\* Fairness: goroutines run, the kubelet restarts the container and mounts the
\* Secret, and a load that can go on does.
LiveSpec == /\ Spec
            /\ WF_vars(Start) /\ WF_vars(Exit) /\ WF_vars(Restart)
            /\ \A r \in {"bootstrap", "policy"} : WF_vars(InRun(LoopStop(r)))
            /\ WF_vars(InRun(Gateway)) /\ WF_vars(InRun(Daemon))
            /\ WF_vars(InRun(Metrics)) /\ WF_vars(InRun(Shutdown))

----------------------------------------------------------------------------
\* Types of the process, the goroutines and the databases.
TypeOK ==
    /\ proc \in {"start", "run", "ok", "failed"}
    /\ g \in [Goroutines -> Places]
    /\ signalled \in BOOLEAN /\ cancelled \in BOOLEAN /\ ready \in BOOLEAN
    /\ sigUp \in BOOLEAN /\ registered \in BOOLEAN /\ closed \in BOOLEAN
    /\ torn \in BOOLEAN
    /\ err \in {None, "canceled", "failed"}
    /\ certs \in TRCs /\ trustDB \in TRCs
    /\ pathDB \subseteq Names \X Contents
    /\ todo \subseteq Names /\ minted \subseteq Names
    /\ budget \in Nat

\* Readiness (health.Mux): a probe finds the agent ready only with its bootstrap
\* fetched and its gateway constructed and not yet returned, also while the
\* agent shuts down.
ReadyMeansUp == ready => proc # "start" /\ g["gateway"] = "up"

\* "daemonapi registers tolerantly, so it must go second" (run): the connector,
\* whose MustRegister panics, never finds the metrics registered.
RegistersFirst == g["gateway"] = "connector" => ~registered

\* The exit status: an agent that ends with 0 was told to; the failure of any
\* goroutine is not masked by the cancellation it causes in the others.
FailureReported == proc = "ok" => signalled

\* daemonapi.Run serves with the TRCs on disk, except those that changed after
\* it loaded them, whatever was cached, re-created or interrupted before.
ServesCurrentTRCs ==
    g["daemon"] = "serve" =>
        \A n \in Names : certs[n] # None => n \in minted \/ trustDB[n] = certs[n]

\* "every cached database is stale" (resetStaleTrustCache): no segment verified
\* with a TRC since re-created is served from the cache, unless the TRC changed
\* after it was loaded, or a reset ended between the databases.
PathCacheFollows ==
    g["daemon"] = "serve" =>
        \A s \in pathDB : torn \/ s[1] \in minted \/ s[2] = certs[s[1]]

\* Shutdown: once the context is done the process ends.
ShutdownCompletes == proc = "run" /\ cancelled ~> proc # "run"

\* "anything else permanently wedges the agent" (resetStaleTrustCache): after the
\* last disturbance the agent is ready and its API is served, for good.
NeverWedged == <>[](ready /\ g["daemon"] = "serve" /\ g["metrics"] = "serve")
=============================================================================
