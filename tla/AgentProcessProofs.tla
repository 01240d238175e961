------------------------- MODULE AgentProcessProofs ------------------------
(***************************************************************************)
(* Proofs about the agent's goroutines and its trust cache, then about the *)
(* bootstrap, which shares the directory of TRCs with the cache: it does   *)
(* to the directory what the cache expects of it.                          *)
(***************************************************************************)
EXTENDS AgentProcess, Bootstrap, TLAPS

\* The types but for the budget, and those of the cache, in two parts.
GroupTypes ==
    /\ proc \in {"start", "run", "ok", "failed"}
    /\ g \in [Goroutines -> Places]
    /\ signalled \in BOOLEAN /\ cancelled \in BOOLEAN
    /\ err \in {None, "canceled", "failed"}
SharedTypes == /\ ready \in BOOLEAN /\ sigUp \in BOOLEAN
               /\ registered \in BOOLEAN /\ closed \in BOOLEAN
CacheTypes == /\ certs \in TRCs /\ trustDB \in TRCs
              /\ pathDB \subseteq Names \X Contents
              /\ todo \subseteq Names /\ minted \subseteq Names

----------------------------------------------------------------------------
(* The errgroup, readiness and the order of registration                   *)

\* A context that is done without a signal has a failure for its cause.
Cause == /\ err # None => cancelled
         /\ cancelled /\ ~signalled => err = "failed"
         /\ g["shutdown"] = "done" => cancelled

\* The daemon API's goroutine is past its wait only after OnUp.
Order == /\ sigUp => g["gateway"] \in {"up", "done"}
         /\ g["daemon"] \notin {"wait", "done"} => sigUp

\* The inductive invariant of the goroutines: Cause is what makes
\* FailureReported inductive, and Order what makes RegistersFirst so.
GInv == /\ GroupTypes
        /\ Cause /\ Order
        /\ ReadyMeansUp /\ RegistersFirst /\ FailureReported

\* What a step of one goroutine does to the places of all.
LEMMA GotoFacts ==
    ASSUME GroupTypes, NEW r \in Goroutines, NEW w \in Places,
           g' = [g EXCEPT ![r] = w]
    PROVE  /\ g' \in [Goroutines -> Places]
           /\ g'[r] = w
           /\ \A q \in Goroutines : q # r => g'[q] = g[q]
BY DEF GroupTypes

LEMMA Goroutine ==
    /\ "gateway" \in Goroutines /\ "daemon" \in Goroutines /\ "shutdown" \in Goroutines
    /\ "metrics" \in Goroutines /\ "bootstrap" \in Goroutines /\ "policy" \in Goroutines
BY DEF Goroutines

\* Init establishes the invariant.
LEMMA InitG == Init => GInv
<1> SUFFICES ASSUME Init PROVE GInv
  OBVIOUS
<1>1. g \in [Goroutines -> Places] /\ g["gateway"] = "connector"
      /\ g["shutdown"] = "wait" /\ g["daemon"] = "wait"
  BY DEF Init, NotStarted, Goroutines, Places
<1> QED
  BY <1>1, Zenon DEF Init, GInv, GroupTypes, Cause, Order, ReadyMeansUp, RegistersFirst,
                     FailureReported

\* A goroutine that returns keeps the invariant, if it reports a cancellation
\* only when there is one, and the gateway's return clears the flag.
LEMMA ReturnG ==
    ASSUME GInv, proc = "run",
           NEW r \in Goroutines, NEW e \in {None, "canceled", "failed"}, Return(r, e),
           e = "canceled" => cancelled,
           r = "shutdown" => cancelled,
           r = "gateway" => ~ready', ready' => ready,
           UNCHANGED <<sigUp, registered>>
    PROVE  GInv'
<1> USE Goroutine
<1>1. /\ g' \in [Goroutines -> Places]
      /\ g'[r] = "done"
      /\ \A q \in Goroutines : q # r => g'[q] = g[q]
  <2>1. "done" \in Places
    BY DEF Places
  <2> QED
    BY <2>1, GotoFacts, Zenon DEF GInv, Return
<1>2. GroupTypes'
  BY <1>1 DEF GInv, GroupTypes, Return
<1>3. Cause'
  <2>1. cancelled => cancelled'
    BY Zenon DEF Return
  <2>2. err' # None => cancelled'
    BY <2>1, Zenon DEF GInv, Cause, Return
  <2>3. ASSUME cancelled', ~signalled' PROVE err' = "failed"
    <3>1. ~signalled
      BY <2>3, Zenon DEF Return
    <3>2. CASE cancelled
      <4>1. err = "failed"
        BY <3>1, <3>2, Zenon DEF GInv, Cause
      <4>2. CASE err = None
        BY <4>1, <4>2, ProcessAssumption
      <4> QED
        BY <4>1, <4>2, Zenon DEF Return
    <3>3. CASE ~cancelled
      BY <2>3, <3>3, Zenon DEF GInv, Cause, Return
    <3> QED
      BY <3>2, <3>3
  <2>4. g'["shutdown"] = "done" => cancelled'
    BY <1>1, <2>1, Zenon DEF GInv, Cause
  <2> QED
    BY <2>2, <2>3, <2>4, Zenon DEF Cause
<1>4. Order'
  BY <1>1 DEF GInv, Order
<1>5. ReadyMeansUp'
  BY <1>1 DEF GInv, ReadyMeansUp, Return
<1>6. RegistersFirst'
  BY <1>1 DEF GInv, RegistersFirst
<1>7. FailureReported'
  BY DEF FailureReported, Return
<1> QED
  BY <1>2, <1>3, <1>4, <1>5, <1>6, <1>7 DEF GInv

\* A goroutine that moves on keeps it, if the gateway's move is Connector or OnUp
\* and the daemon API's keeps to the order.
LEMMA GotoG ==
    ASSUME GInv, proc = "run",
           NEW r \in Goroutines \ {"shutdown"}, NEW w \in Places, Goto(r, w),
           ready' => g'["gateway"] = "up",
           sigUp' => g'["gateway"] \in {"up", "done"},
           sigUp => sigUp',
           r = "daemon" => sigUp,
           g'["gateway"] = "connector" => ~registered'
    PROVE  GInv'
<1> USE Goroutine
<1>1. /\ g' \in [Goroutines -> Places]
      /\ \A q \in Goroutines : q # r => g'[q] = g[q]
  BY GotoFacts, Zenon DEF GInv, Goto
<1>2. GroupTypes'
  BY <1>1 DEF GInv, GroupTypes, Goto
<1>3. Cause'
  BY <1>1 DEF GInv, Cause, Goto
<1>4. Order'
  BY <1>1 DEF GInv, Order
<1>5. ReadyMeansUp' /\ RegistersFirst' /\ FailureReported'
  BY DEF ReadyMeansUp, RegistersFirst, FailureReported, Goto
<1> QED
  BY <1>2, <1>3, <1>4, <1>5 DEF GInv

\* A step that moves no goroutine keeps it.
LEMMA StayG ==
    ASSUME GInv, UNCHANGED <<g, err, ready, sigUp, registered>>,
           proc' \in {"start", "run", "failed"},
           proc' = "start" => proc = "start",
           signalled' \in BOOLEAN, cancelled' \in BOOLEAN,
           cancelled => cancelled', signalled => signalled',
           cancelled' /\ ~cancelled => signalled'
    PROVE  GInv'
<1>1. GroupTypes'
  BY DEF GInv, GroupTypes
<1>2. Cause'
  BY DEF GInv, Cause, GroupTypes
<1>3. Order' /\ ReadyMeansUp' /\ RegistersFirst' /\ FailureReported'
  BY DEF GInv, Order, ReadyMeansUp, RegistersFirst, FailureReported
<1> QED
  BY <1>1, <1>2, <1>3 DEF GInv

\* A new process.
LEMMA FreshG == ASSUME Fresh PROVE GInv'
<1>1. g' \in [Goroutines -> Places] /\ g'["gateway"] = "connector"
      /\ g'["shutdown"] = "wait" /\ g'["daemon"] = "wait"
  BY DEF Fresh, NotStarted, Goroutines, Places
<1> QED
  BY <1>1, Zenon DEF Fresh, GInv, GroupTypes, Cause, Order, ReadyMeansUp,
                     RegistersFirst, FailureReported

\* The gateway's, the metrics server's and the loops' goroutines.
LEMMA OtherG ==
    ASSUME GInv, proc = "run",
           \/ \E r \in {"bootstrap", "policy"} : LoopStop(r)
           \/ Gateway \/ Metrics \/ Shutdown \/ GatewayError \/ MetricsError
    PROVE  GInv'
<1> USE Goroutine
<1>1. ASSUME NEW r \in {"bootstrap", "policy"}, LoopStop(r) PROVE GInv'
  <2>1. /\ r \in Goroutines /\ r # "shutdown" /\ r # "gateway"
    BY <1>1 DEF Goroutines
  <2>2. /\ Return(r, "canceled") /\ cancelled
        /\ UNCHANGED <<ready, sigUp, registered>>
    BY <1>1, Zenon DEF LoopStop, shared
  <2> QED
    BY <2>1, <2>2, ReturnG
<1>2. CASE Connector
  <2>1. /\ Goto("gateway", "gateway") /\ g["gateway"] = "connector"
        /\ UNCHANGED <<ready, sigUp>>
    BY <1>2, Zenon DEF Connector
  <2>2. "gateway" \in Places /\ g'["gateway"] = "gateway"
    BY <2>1 DEF Places, Goto, GInv, GroupTypes
  <2>3. ~ready /\ ~sigUp
    BY <2>1 DEF GInv, ReadyMeansUp, Order
  <2> QED
    BY <2>1, <2>2, <2>3, GotoG
<1>3. CASE OnUp
  <2>1. Goto("gateway", "up") /\ sigUp' = TRUE
    BY <1>3, Zenon DEF OnUp
  <2>2. "up" \in Places /\ g'["gateway"] = "up"
    BY <2>1 DEF Places, Goto, GInv, GroupTypes
  <2> QED
    BY <2>1, <2>2, GotoG
<1>4. ASSUME NEW e \in {None, "canceled", "failed"}, GatewayReturn(e),
             e = "canceled" => cancelled
      PROVE  GInv'
  <2>1. /\ Return("gateway", e) /\ ready' = FALSE
        /\ UNCHANGED <<sigUp, registered>>
    BY <1>4, Zenon DEF GatewayReturn
  <2> QED
    BY <1>4, <2>1, ReturnG
<1>5. CASE GatewayStop
  BY <1>4, <1>5, Zenon DEF GatewayStop
<1>6. CASE GatewayError
  BY <1>4, <1>6 DEF GatewayError
<1>7. CASE MetricsServe
  <2>1. Goto("metrics", "serve") /\ UNCHANGED <<ready, sigUp, registered>>
    BY <1>7, Zenon DEF MetricsServe, shared
  <2>2. "serve" \in Places /\ g'["gateway"] = g["gateway"]
    BY <2>1 DEF Places, Goto, GInv, GroupTypes
  <2> QED
    BY <2>1, <2>2, GotoG DEF GInv, ReadyMeansUp, Order, RegistersFirst
<1>8. CASE MetricsError
  <2>1. Return("metrics", "failed") /\ UNCHANGED <<ready, sigUp, registered>>
    BY <1>8, Zenon DEF MetricsError, shared
  <2> QED
    BY <2>1, ReturnG
<1>9. CASE MetricsStop
  <2>1. \/ Return("metrics", "canceled") /\ cancelled
        \/ Return("metrics", None)
    BY <1>9, Zenon DEF MetricsStop
  <2>2. UNCHANGED <<ready, sigUp, registered>>
    BY <1>9, Zenon DEF MetricsStop, shared
  <2> QED
    BY <2>1, <2>2, ReturnG, ProcessAssumption
<1>10. CASE Shutdown
  <2>1. PICK e \in {None, "failed"} : Return("shutdown", e)
    BY <1>10, Zenon DEF Shutdown
  <2>2. cancelled /\ UNCHANGED <<ready, sigUp, registered>>
    BY <1>10, Zenon DEF Shutdown
  <2> QED
    BY <2>1, <2>2, ReturnG, ProcessAssumption
<1> QED
  BY <1>1, <1>2, <1>3, <1>5, <1>6, <1>7, <1>8, <1>9, <1>10, Zenon DEF Gateway, Metrics

\* The daemon API's goroutine: only DaemonStart needs the gateway, and later
\* steps know by Order that it was up.
LEMMA DaemonG ==
    ASSUME GInv, proc = "run", Daemon \/ DaemonError \/ DaemonWork
    PROVE  GInv'
<1> USE Goroutine
<1>1. ASSUME NEW w \in Places, Goto("daemon", w), sigUp,
             UNCHANGED <<ready, sigUp>>
      PROVE  GInv'
  <2>1. g'["gateway"] = g["gateway"]
    BY <1>1 DEF Goto, GInv, GroupTypes
  <2>2. g["gateway"] \in {"up", "done"}
    BY <1>1 DEF GInv, Order
  <2>3. ready' => g'["gateway"] = "up"
    BY <1>1, <2>1 DEF GInv, ReadyMeansUp
  <2> QED
    BY <1>1, <2>1, <2>2, <2>3, GotoG
<1>2. {"preflight", "engine", "rmTrust", "rmPath", "serve"} \subseteq Places
  BY DEF Places
<1>3. g["daemon"] \in {"preflight", "engine", "rmTrust", "rmPath", "serve"} => sigUp
  BY DEF GInv, Order
<1>4. CASE DaemonStart
  BY <1>1, <1>2, <1>4 DEF DaemonStart, shared
<1>5. CASE Preflight
  BY <1>1, <1>2, <1>3, <1>5 DEF Preflight
<1>6. CASE PreflightWriteFailed
  BY <1>1, <1>2, <1>3, <1>6 DEF PreflightWriteFailed, shared
<1>7. CASE DaemonRemoveTrust
  BY <1>1, <1>2, <1>3, <1>7 DEF DaemonRemoveTrust, shared
<1>8. CASE DaemonRemovePath
  BY <1>1, <1>2, <1>3, <1>8 DEF DaemonRemovePath
<1>9. CASE DaemonServe
  BY <1>1, <1>2, <1>3, <1>9 DEF DaemonServe, shared
<1>10. ASSUME NEW e \in {None, "canceled", "failed"}, DaemonReturn(e),
              e = "canceled" => cancelled
       PROVE  GInv'
  <2>1. Return("daemon", e) /\ UNCHANGED <<ready, sigUp, registered>>
    BY <1>10, Zenon DEF DaemonReturn, shared
  <2> QED
    BY <1>10, <2>1, ReturnG
<1>11. CASE EngineConflict
  BY <1>10, <1>11, ProcessAssumption DEF EngineConflict
<1>12. CASE DaemonError
  BY <1>10, <1>12, ProcessAssumption DEF DaemonError
<1>13. CASE DaemonStop
  BY <1>10, <1>13, Zenon DEF DaemonStop
<1>14. CASE DaemonWork \/ \E n \in Names : DaemonLoad(n)
  <2>1. UNCHANGED <<group, shared>>
    BY <1>14, Zenon DEF DaemonWork, DaemonLoad
  <2>2. /\ UNCHANGED <<g, err, ready, sigUp, registered, proc, signalled, cancelled>>
    BY <2>1, Zenon DEF group, shared
  <2> QED
    BY <2>2, StayG DEF GInv, GroupTypes
<1> QED
  BY <1>4, <1>5, <1>6, <1>7, <1>8, <1>9, <1>11, <1>12, <1>13, <1>14, Zenon DEF Daemon

\* Every step keeps the invariant.
LEMMA StepG == GInv /\ [Next]_vars => GInv'
<1> SUFFICES ASSUME GInv, [Next]_vars PROVE GInv'
  OBVIOUS
<1> USE Goroutine
<1>1. CASE Start \/ StartError
  <2>1. /\ UNCHANGED <<g, err, ready, sigUp, registered, signalled, cancelled>>
        /\ proc' \in {"run", "failed"}
    BY <1>1 DEF Start, StartError, shared
  <2> QED
    BY <2>1, StayG DEF GInv, GroupTypes
<1>2. CASE (\E n \in Names : Refresh(n)) \/ UNCHANGED vars
  <2>1. UNCHANGED <<group, shared>>
    BY <1>2, Zenon DEF Refresh, vars
  <2>2. UNCHANGED <<g, err, ready, sigUp, registered, proc, signalled, cancelled>>
    BY <2>1, Zenon DEF group, shared
  <2>3. CASE proc = "ok"
    BY <2>2, <2>3 DEF GInv, GroupTypes, Cause, Order, ReadyMeansUp, RegistersFirst,
                      FailureReported
  <2> QED
    BY <2>2, <2>3, StayG DEF GInv, GroupTypes
<1>3. CASE Signal
  <2>1. /\ UNCHANGED <<g, err, ready, sigUp, registered, proc>>
        /\ signalled' = TRUE /\ cancelled' = TRUE
        /\ proc \in {"start", "run"}
    BY <1>3 DEF Signal, shared
  <2> QED
    BY <2>1, StayG DEF GInv, GroupTypes
<1>4. CASE Exit
  <2>1. UNCHANGED <<g, err, ready, sigUp, registered, signalled, cancelled>>
    BY <1>4 DEF Exit, shared
  <2>2. CASE err = "failed"
    BY <1>4, <2>1, <2>2, StayG DEF Exit, GInv, GroupTypes
  <2>3. CASE err # "failed"
    <3>1. proc' = "ok" /\ g["shutdown"] = "done" /\ g["gateway"] = "done"
      BY <1>4, <2>3 DEF Exit
    <3>2. signalled
      BY <2>3, <3>1, Zenon DEF GInv, Cause
    <3>3. GroupTypes'
      BY <2>1, <3>1 DEF GInv, GroupTypes
    <3>4. Cause' /\ Order'
      BY <2>1, Zenon DEF GInv, Cause, Order
    <3>5. ReadyMeansUp' /\ RegistersFirst' /\ FailureReported'
      BY <2>1, <3>1, <3>2 DEF GInv, ReadyMeansUp, RegistersFirst, FailureReported
    <3> QED
      BY <3>3, <3>4, <3>5 DEF GInv
  <2> QED
    BY <2>2, <2>3
<1>5. CASE Restart \/ Kill
  BY <1>5, FreshG, Zenon DEF Restart, Kill
<1>6. CASE Running
  <2>1. proc = "run"
    BY <1>6 DEF Running
  <2> QED
    BY <1>6, <2>1, OtherG, DaemonG, Zenon DEF Running
<1> QED
  BY <1>1, <1>2, <1>3, <1>4, <1>5, <1>6, Zenon DEF Next

----------------------------------------------------------------------------
(* The trust cache                                                         *)

\* Only a running process has a daemon API, and it serves after a whole load.
Idle == /\ proc # "run" => g["daemon"] \in {"wait", "done"}
        /\ g["daemon"] = "serve" => todo = {}

\* What was loaded since the engine began is what is on disk, or was then.
Current == g["daemon"] \in {"engine", "serve"} =>
               \A n \in Names : certs[n] = None \/ n \in todo \cup minted
                                                \/ trustDB[n] = certs[n]

\* Segments were verified with the TRCs of the database, except while it is gone.
Verified == g["daemon"] # "rmPath" =>
                torn \/ \A s \in pathDB : trustDB[s[1]] = s[2]

\* No TRC leaves the disk.
Kept == \A n \in Names : trustDB[n] # None => certs[n] # None

\* The inductive invariant of the cache.
CInv == CacheTypes /\ Idle /\ Current /\ Verified /\ Kept

LEMMA InitC == Init => CInv
<1> SUFFICES ASSUME Init PROVE CInv
  OBVIOUS
<1>1. g["daemon"] = "wait"
  BY DEF Init, NotStarted, Goroutines
<1>2. CacheTypes /\ Verified /\ Kept
  BY DEF Init, CacheInit, CacheTypes, TRCs, NoTRCs, Verified, Kept
<1> QED
  BY <1>1, <1>2 DEF CInv, Idle, Current

\* Inserting TRCs that fit brings them up to date and changes no other.
LEMMA Insert ==
    ASSUME CacheTypes, Kept, NEW S \in SUBSET Names, \A n \in S : Fits(n),
           trustDB' = Loaded(S), certs' = certs
    PROVE  /\ trustDB' \in TRCs
           /\ \A n \in S : certs[n] = None \/ trustDB'[n] = certs[n]
           /\ \A n \in Names \ S : trustDB'[n] = trustDB[n]
           /\ \A n \in Names : trustDB[n] # None => trustDB'[n] = trustDB[n]
           /\ Kept'
<1>1. trustDB' \in TRCs
  BY DEF Loaded, CacheTypes, TRCs
<1>2. \A n \in Names : trustDB'[n] = IF n \in S /\ certs[n] # None THEN certs[n]
                                     ELSE trustDB[n]
  BY DEF Loaded
<1>3. \A n \in Names : trustDB[n] # None => trustDB'[n] = trustDB[n]
  BY <1>2 DEF Fits
<1> QED
  BY <1>1, <1>2, <1>3 DEF Kept

\* A step that leaves the cache, and the daemon API where it is or out of it.
LEMMA FrameC ==
    ASSUME CInv, UNCHANGED cache,
           \/ g'["daemon"] = g["daemon"]
           \/ g'["daemon"] \in {"wait", "done"} /\ g["daemon"] # "rmPath",
           proc' # "run" => g'["daemon"] \in {"wait", "done"}
    PROVE  CInv'
<1>1. UNCHANGED <<certs, trustDB, pathDB, todo, minted, torn>>
  BY Zenon DEF cache, databases
<1>2. CacheTypes' /\ Kept'
  BY <1>1 DEF CInv, CacheTypes, Kept
<1>3. Idle'
  BY <1>1 DEF CInv, Idle
<1>4. Current'
  BY <1>1 DEF CInv, Current
<1>5. Verified'
  BY <1>1 DEF CInv, Verified
<1> QED
  BY <1>2, <1>3, <1>4, <1>5 DEF CInv

\* The daemon API is left: between the removals, the reset is torn.
LEMMA AbandonC ==
    ASSUME CInv, Abandon(g["daemon"] = "rmPath"), g'["daemon"] \in {"wait", "done"}
    PROVE  CInv'
<1>1. todo' = {} /\ UNCHANGED <<certs, trustDB, pathDB, minted>>
  BY Zenon DEF Abandon, databases
<1>2. CacheTypes' /\ Kept' /\ Idle' /\ Current'
  BY <1>1 DEF CInv, CacheTypes, Kept, Idle, Current
<1>3. torn \/ g["daemon"] = "rmPath" => torn'
  BY Zenon DEF Abandon
<1>4. Verified'
  BY <1>1, <1>3 DEF CInv, Verified
<1> QED
  BY <1>2, <1>4 DEF CInv

\* A load in the daemon API's goroutine.
LEMMA LoadC ==
    ASSUME CInv, NEW S \in SUBSET Names, \A n \in S : Fits(n), trustDB' = Loaded(S),
           todo' = todo \/ todo' = todo \ S, minted' = minted \ S,
           UNCHANGED <<certs, pathDB, torn, proc, g>>
    PROVE  CInv'
<1>1. /\ trustDB' \in TRCs
      /\ \A n \in S : certs[n] = None \/ trustDB'[n] = certs[n]
      /\ \A n \in Names \ S : trustDB'[n] = trustDB[n]
      /\ \A n \in Names : trustDB[n] # None => trustDB'[n] = trustDB[n]
      /\ Kept'
  BY Insert DEF CInv
<1>2. CacheTypes'
  BY <1>1 DEF CInv, CacheTypes
<1>3. Idle'
  BY DEF CInv, Idle
<1>4. Current'
  <2> SUFFICES ASSUME g["daemon"] \in {"engine", "serve"}, NEW n \in Names
               PROVE  certs[n] = None \/ n \in todo' \cup minted' \/ trustDB'[n] = certs[n]
    BY DEF Current
  <2>1. CASE n \in S
    BY <1>1, <2>1
  <2>2. CASE n \notin S
    BY <1>1, <2>2 DEF CInv, Current
  <2> QED
    BY <2>1, <2>2
<1>5. Verified'
  <2> SUFFICES ASSUME g["daemon"] # "rmPath", ~torn, NEW s \in pathDB
               PROVE  trustDB'[s[1]] = s[2]
    BY DEF Verified
  <2>1. trustDB[s[1]] = s[2]
    BY DEF CInv, Verified
  <2>2. s[1] \in Names /\ s[2] \in Contents
    BY DEF CInv, CacheTypes
  <2> QED
    BY <1>1, <2>1, <2>2, ProcessAssumption
<1> QED
  BY <1>1, <1>2, <1>3, <1>4, <1>5 DEF CInv

\* The daemon does its work while it serves.
LEMMA WorkC == ASSUME CInv, DaemonWork PROVE CInv'
<1>1. UNCHANGED <<proc, g>> /\ g["daemon"] = "serve"
  BY Zenon DEF DaemonWork, group
<1>2. CASE PeriodicLoad
  <2>1. PICK S \in SUBSET {n \in Names : Fits(n)} :
            trustDB' = Loaded(S) /\ minted' = minted \ S
    BY <1>2 DEF PeriodicLoad
  <2>2. UNCHANGED <<certs, pathDB, todo, torn>>
    BY <1>2 DEF PeriodicLoad
  <2>3. S \in SUBSET Names /\ \A n \in S : Fits(n)
    BY <2>1
  <2> QED
    BY <1>1, <2>1, <2>2, <2>3, LoadC
<1>3. CASE RemoveSegment \/ \E n \in Names : StoreSegment(n)
  <2>1. UNCHANGED <<certs, trustDB, todo, minted, torn>>
    BY <1>3 DEF RemoveSegment, StoreSegment
  <2>2. \/ pathDB' \subseteq pathDB
        \/ \E n \in Names : trustDB[n] # None /\ pathDB' = pathDB \cup {<<n, trustDB[n]>>}
    BY <1>3 DEF RemoveSegment, StoreSegment
  <2>3. pathDB' \subseteq Names \X Contents
    BY <2>2 DEF CInv, CacheTypes, TRCs
  <2>4. CacheTypes' /\ Idle' /\ Current' /\ Kept'
    BY <1>1, <2>1, <2>3 DEF CInv, CacheTypes, Idle, Current, Kept
  <2>5. Verified'
    BY <1>1, <2>1, <2>2 DEF CInv, Verified
  <2> QED
    BY <2>4, <2>5 DEF CInv
<1> QED
  BY <1>2, <1>3, Zenon DEF DaemonWork

\* The daemon API's goroutine moves to a place where it begins a load, or ends it.
LEMMA MoveC ==
    ASSUME CInv, GroupTypes, proc = "run",
           NEW w \in {"preflight", "engine", "rmTrust"}, Goto("daemon", w),
           todo' = IF w = "rmTrust" THEN {} ELSE Names,
           g["daemon"] # "rmPath",
           UNCHANGED <<certs, trustDB, pathDB, minted, torn>>
    PROVE  CInv'
<1>1. proc' = "run" /\ g'["daemon"] = w
  BY Goroutine DEF Goto, GroupTypes
<1>2. CacheTypes' /\ Kept' /\ Idle' /\ Current' /\ Verified'
  BY <1>1 DEF CInv, CacheTypes, Kept, Idle, Current, Verified
<1> QED
  BY <1>2 DEF CInv

\* Every step of the daemon API's goroutine keeps the invariant of the cache.
LEMMA DaemonC ==
    ASSUME CInv, GroupTypes, proc = "run", Daemon \/ DaemonError \/ DaemonWork
    PROVE  CInv'
<1> USE Goroutine
<1>1. CASE DaemonStart
  <2>1. /\ Goto("daemon", "preflight") /\ todo' = Names /\ g["daemon"] = "wait"
        /\ UNCHANGED <<certs, trustDB, pathDB, minted, torn>>
    BY <1>1, Zenon DEF DaemonStart, BeginLoad, databases
  <2> QED
    BY <2>1, MoveC
<1>2. CASE Preflight
  <2>1. /\ Goto("daemon", "engine") /\ todo' = Names /\ g["daemon"] = "preflight"
        /\ UNCHANGED <<certs, trustDB, pathDB, minted, torn>>
    BY <1>2, Zenon DEF Preflight, BeginLoad, databases
  <2> QED
    BY <2>1, MoveC
<1>3. CASE PreflightWriteFailed
  <2>1. /\ Goto("daemon", "rmTrust") /\ todo' = {} /\ g["daemon"] = "preflight"
        /\ UNCHANGED <<certs, trustDB, pathDB, minted, torn>>
    BY <1>3, Zenon DEF PreflightWriteFailed, databases
  <2> QED
    BY <2>1, MoveC
<1>4. CASE DaemonRemoveTrust
  <2>1. g'["daemon"] = "rmPath" /\ proc' = "run"
    BY <1>4 DEF DaemonRemoveTrust, Goto, GroupTypes
  <2>2. trustDB' = NoTRCs /\ UNCHANGED <<certs, pathDB, todo, minted, torn>>
    BY <1>4 DEF DaemonRemoveTrust, RemoveTrust
  <2>3. CacheTypes' /\ Kept' /\ Idle' /\ Current' /\ Verified'
    BY <2>1, <2>2 DEF CInv, CacheTypes, TRCs, NoTRCs, Kept, Idle, Current, Verified
  <2> QED
    BY <2>3 DEF CInv
<1>5. CASE DaemonRemovePath
  <2>1. g'["daemon"] = "engine" /\ proc' = "run"
    BY <1>5 DEF DaemonRemovePath, Goto, GroupTypes
  <2>2. pathDB' = {} /\ todo' = Names /\ UNCHANGED <<certs, trustDB, minted>>
    BY <1>5 DEF DaemonRemovePath, RemovePath, BeginLoad
  <2>3. CacheTypes' /\ Kept' /\ Idle' /\ Current' /\ Verified'
    BY <2>1, <2>2 DEF CInv, CacheTypes, Kept, Idle, Current, Verified
  <2> QED
    BY <2>3 DEF CInv
<1>6. CASE DaemonServe
  <2>1. /\ g["daemon"] = "engine" /\ todo = {} /\ g'["daemon"] = "serve" /\ proc' = "run"
    BY <1>6 DEF DaemonServe, Goto, GroupTypes
  <2>2. UNCHANGED <<certs, trustDB, pathDB, todo, minted, torn>>
    BY <1>6, Zenon DEF DaemonServe, cache, databases
  <2>3. CacheTypes' /\ Kept' /\ Idle' /\ Current' /\ Verified'
    BY <2>1, <2>2 DEF CInv, CacheTypes, Kept, Idle, Current, Verified
  <2> QED
    BY <2>3 DEF CInv
<1>7. ASSUME NEW n \in Names, DaemonLoad(n) PROVE CInv'
  <2>1. /\ Fits(n) /\ trustDB' = Loaded({n}) /\ todo' = todo \ {n} /\ minted' = minted \ {n}
        /\ UNCHANGED <<certs, pathDB, torn>>
    BY <1>7 DEF DaemonLoad, Load
  <2>2. UNCHANGED <<proc, g>>
    BY <1>7, Zenon DEF DaemonLoad, group
  <2>3. {n} \in SUBSET Names /\ \A k \in {n} : Fits(k)
    BY <2>1
  <2> QED
    BY <2>1, <2>2, <2>3, LoadC
<1>8. ASSUME NEW e, DaemonReturn(e) PROVE CInv'
  <2>1. g'["daemon"] = "done" /\ Abandon(g["daemon"] = "rmPath")
    BY <1>8 DEF DaemonReturn, Return, GroupTypes
  <2> QED
    BY <2>1, AbandonC
<1>9. CASE EngineConflict \/ DaemonError \/ DaemonStop
  BY <1>8, <1>9, Zenon DEF EngineConflict, DaemonError, DaemonStop
<1> QED
  BY <1>1, <1>2, <1>3, <1>4, <1>5, <1>6, <1>7, <1>9, WorkC, Zenon DEF Daemon

\* Every other goroutine leaves the cache, and the daemon API where it is.
LEMMA OtherC ==
    ASSUME CInv, GroupTypes, proc = "run",
           \/ \E r \in {"bootstrap", "policy"} : LoopStop(r)
           \/ Gateway \/ Metrics \/ Shutdown \/ GatewayError \/ MetricsError
    PROVE  CInv'
<1> USE Goroutine
<1>1. ASSUME NEW r \in Goroutines \ {"daemon"}, NEW w, g' = [g EXCEPT ![r] = w],
             proc' = proc, UNCHANGED cache
      PROVE  CInv'
  <2>1. g'["daemon"] = g["daemon"]
    BY <1>1 DEF GroupTypes
  <2> QED
    BY <1>1, <2>1, FrameC
<1>2. {"bootstrap", "policy", "gateway", "metrics", "shutdown"} \subseteq Goroutines \ {"daemon"}
  BY DEF Goroutines
<1>3. ASSUME NEW r \in {"bootstrap", "policy"}, LoopStop(r) PROVE CInv'
  <2>1. g' = [g EXCEPT ![r] = "done"] /\ proc' = proc /\ UNCHANGED cache
    BY <1>3, Zenon DEF LoopStop, Return
  <2> QED
    BY <1>1, <1>2, <2>1, Zenon
<1>4. CASE Gateway \/ GatewayError
  <2>1. \E w \in Places : g' = [g EXCEPT !["gateway"] = w] /\ proc' = proc
    <3>1. "gateway" \in Places /\ "up" \in Places /\ "done" \in Places
      BY DEF Places
    <3>2. CASE Connector \/ OnUp
      BY <3>1, <3>2, Zenon DEF Connector, OnUp, Goto
    <3>3. CASE GatewayStop \/ GatewayError
      BY <3>1, <3>3, Zenon DEF GatewayStop, GatewayError, GatewayReturn, Return
    <3> QED
      BY <1>4, <3>2, <3>3, Zenon DEF Gateway
  <2>2. UNCHANGED cache
    BY <1>4, Zenon DEF Gateway, Connector, OnUp, GatewayStop, GatewayError, GatewayReturn, cache
  <2> QED
    BY <1>1, <1>2, <2>1, <2>2, Zenon
<1>5. CASE Metrics \/ MetricsError
  <2>1. \E w \in Places : g' = [g EXCEPT !["metrics"] = w] /\ proc' = proc
    <3>1. "serve" \in Places /\ "done" \in Places
      BY DEF Places
    <3> QED
      BY <1>5, <3>1, Zenon DEF Metrics, MetricsServe, MetricsStop, MetricsError, Goto, Return
  <2>2. UNCHANGED cache
    BY <1>5, Zenon DEF Metrics, MetricsServe, MetricsStop, MetricsError
  <2> QED
    BY <1>1, <1>2, <2>1, <2>2, Zenon
<1>6. CASE Shutdown
  <2>1. g' = [g EXCEPT !["shutdown"] = "done"] /\ proc' = proc /\ UNCHANGED cache
    BY <1>6, Zenon DEF Shutdown, Return
  <2> QED
    BY <1>1, <1>2, <2>1, Zenon
<1> QED
  BY <1>3, <1>4, <1>5, <1>6, Zenon

\* Every step keeps the invariant of the cache.
LEMMA StepC == CInv /\ GInv /\ [Next]_vars => CInv'
<1> SUFFICES ASSUME CInv, GroupTypes, [Next]_vars PROVE CInv'
  BY DEF GInv
<1> USE Goroutine
<1>1. CASE Start \/ StartError
  <2>1. UNCHANGED <<g, cache>> /\ proc = "start"
    BY <1>1, Zenon DEF Start, StartError
  <2>2. g["daemon"] \in {"wait", "done"}
    BY <2>1 DEF CInv, Idle
  <2> QED
    BY <2>1, <2>2, FrameC
<1>2. ASSUME NEW n \in Names, Refresh(n) PROVE CInv'
  <2>1. UNCHANGED <<proc, g>> /\ UNCHANGED <<trustDB, pathDB, todo, torn>>
    BY <1>2, Zenon DEF Refresh, Mint, group, databases
  <2>2. PICK c \in Contents : certs' = [certs EXCEPT ![n] = c]
    BY <1>2 DEF Refresh, Mint, Replace
  <2>3. minted' = minted \cup {n}
    BY <1>2 DEF Refresh, Mint
  <2>4. /\ certs' \in TRCs /\ certs'[n] = c
        /\ \A k \in Names : k # n => certs'[k] = certs[k]
    BY <2>2 DEF CInv, CacheTypes, TRCs
  <2>5. CacheTypes' /\ Idle' /\ Verified'
    BY <2>1, <2>3, <2>4 DEF CInv, CacheTypes, Idle, Verified
  <2>6. Current'
    BY <2>1, <2>3, <2>4 DEF CInv, Current
  <2>7. Kept'
    BY <2>1, <2>4, ProcessAssumption DEF CInv, Kept
  <2> QED
    BY <2>5, <2>6, <2>7 DEF CInv
<1>3. CASE Signal \/ UNCHANGED vars
  <2>1. UNCHANGED <<proc, g, cache>>
    BY <1>3, Zenon DEF Signal, vars, group
  <2> QED
    BY <2>1, FrameC DEF CInv, Idle
<1>4. CASE Exit
  <2>1. UNCHANGED <<g, cache>> /\ g["daemon"] = "done"
    BY <1>4, Zenon DEF Exit
  <2> QED
    BY <2>1, FrameC
<1>5. CASE Restart
  <2>1. UNCHANGED cache /\ proc # "run" /\ g' = NotStarted
    BY <1>5 DEF Restart, Fresh
  <2>2. g'["daemon"] = "wait" /\ g["daemon"] # "rmPath"
    BY <2>1 DEF NotStarted, Goroutines, CInv, Idle
  <2> QED
    BY <2>1, <2>2, FrameC
<1>6. CASE Kill
  <2>1. g'["daemon"] = "wait"
    BY <1>6 DEF Kill, Fresh, NotStarted, Goroutines
  <2> QED
    BY <1>6, <2>1, AbandonC, Zenon DEF Kill
<1>7. CASE Running
  <2>1. proc = "run"
    BY <1>7 DEF Running
  <2> QED
    BY <1>7, <2>1, OtherC, DaemonC, Zenon DEF Running
<1> QED
  BY <1>1, <1>2, <1>3, <1>4, <1>5, <1>6, <1>7, Zenon DEF Next

----------------------------------------------------------------------------
(* The theorems                                                            *)

\* The errgroup's, readiness' and the cache's invariants hold together.
THEOREM Invariance == Spec => [](GInv /\ CInv)
<1>1. Init => GInv /\ CInv
  BY InitG, InitC
<1>2. GInv /\ CInv /\ [Next]_vars => (GInv /\ CInv)'
  BY StepG, StepC
<1> QED
  BY <1>1, <1>2, PTL DEF Spec

\* ReadyMeansUp: readiness follows the gateway, for every database and bound.
THEOREM ReadyOnlyUp == Spec => []ReadyMeansUp
<1>1. GInv => ReadyMeansUp
  BY DEF GInv
<1> QED
  BY <1>1, Invariance, PTL

\* RegistersFirst: MustRegister never panics, in any order of the goroutines.
THEOREM ConnectorFirst == Spec => []RegistersFirst
<1>1. GInv => RegistersFirst
  BY DEF GInv
<1> QED
  BY <1>1, Invariance, PTL

\* FailureReported: exit status 0 means a signal, whichever goroutine was first.
THEOREM NoFailureMasked == Spec => []FailureReported
<1>1. GInv => FailureReported
  BY DEF GInv
<1> QED
  BY <1>1, Invariance, PTL

\* ServesCurrentTRCs, for every set of TRCs and every re-creation of them.
THEOREM CurrentTRCsServed == Spec => []ServesCurrentTRCs
<1>1. CInv => ServesCurrentTRCs
  BY DEF CInv, Idle, Current, ServesCurrentTRCs
<1> QED
  BY <1>1, Invariance, PTL

\* PathCacheFollows, for every set of TRCs and every re-creation of them.
THEOREM PathCacheFresh == Spec => []PathCacheFollows
<1>1. CInv => PathCacheFollows
  <2> SUFFICES ASSUME CInv, g["daemon"] = "serve", ~torn,
                      NEW s \in pathDB, s[1] \notin minted
               PROVE  s[2] = certs[s[1]]
    BY DEF PathCacheFollows
  <2>1. s[1] \in Names /\ s[2] \in Contents
    BY DEF CInv, CacheTypes
  <2>2. trustDB[s[1]] = s[2]
    BY DEF CInv, Verified
  <2>3. certs[s[1]] # None
    BY <2>1, <2>2, ProcessAssumption DEF CInv, Kept
  <2> QED
    BY <2>1, <2>2, <2>3 DEF CInv, Current, Idle
<1> QED
  BY <1>1, Invariance, PTL

\* TypeOK, on top of the invariants: the flags and the budget.
THEOREM TypeCorrect == Spec => []TypeOK
<1> DEFINE Flags == SharedTypes /\ torn \in BOOLEAN /\ budget \in Nat
<1>1. Init => Flags
  BY ProcessAssumption, Zenon DEF Init, CacheInit, SharedTypes
<1>2. Flags /\ [Next]_vars => Flags'
  <2> SUFFICES ASSUME Flags, [Next]_vars PROVE Flags'
    OBVIOUS
  <2>1. budget' \in Nat
    <3>1. Disturb => budget' \in Nat
      BY DEF Disturb
    <3>2. Calm => budget' \in Nat
      BY DEF Calm
    <3>3. UNCHANGED vars => budget' \in Nat
      BY DEF vars
    <3> QED
      BY <3>1, <3>2, <3>3, Zenon DEF Next, Running, Gateway, Daemon, Metrics, Start, StartError,
         Refresh, Signal, Exit, Restart, Kill, LoopStop, Connector, OnUp, GatewayError,
         GatewayStop, MetricsServe, MetricsError, MetricsStop, Shutdown, DaemonStart,
         DaemonLoad, Preflight, PreflightWriteFailed, DaemonRemoveTrust, DaemonRemovePath,
         DaemonServe, EngineConflict, DaemonError, DaemonStop, DaemonWork
  <2>2. torn' \in BOOLEAN
    BY Zenon DEF Next, Running, Gateway, Daemon, Metrics, Start, StartError, Refresh, Signal,
       Exit, Restart, Kill, LoopStop, Connector, OnUp, GatewayError, GatewayStop,
       GatewayReturn, MetricsServe, MetricsError, MetricsStop, Shutdown, DaemonStart,
       DaemonLoad, Preflight, PreflightWriteFailed, DaemonRemoveTrust, DaemonRemovePath,
       DaemonServe, EngineConflict, DaemonError, DaemonStop, DaemonWork, DaemonReturn,
       Abandon, Mint, Load, PeriodicLoad, RemoveTrust, RemovePath, StoreSegment,
       RemoveSegment, cache, vars
  <2>3. SharedTypes'
    BY Zenon DEF SharedTypes, Next, Running, Gateway, Daemon, Metrics, Start, StartError,
       Refresh, Signal, Exit, Restart, Fresh, Kill, LoopStop, Connector, OnUp, GatewayError,
       GatewayStop, GatewayReturn, MetricsServe, MetricsError, MetricsStop, Shutdown,
       DaemonStart, DaemonLoad, Preflight, PreflightWriteFailed, DaemonRemoveTrust,
       DaemonRemovePath, DaemonServe, EngineConflict, DaemonError, DaemonStop, DaemonWork,
       DaemonReturn, shared, vars
  <2> QED
    BY <2>1, <2>2, <2>3
<1>3. GInv /\ CInv /\ Flags => TypeOK
  BY Zenon DEF GInv, CInv, GroupTypes, CacheTypes, SharedTypes, TypeOK
<1> QED
  BY <1>1, <1>2, <1>3, Invariance, PTL DEF Spec

----------------------------------------------------------------------------
(***************************************************************************)
(* The TRCs on disk, which AgentProcess lets Refresh replace one at a time *)
(* and never lose, are Bootstrap's: its fetchFrom works on the same        *)
(* directory.                                                              *)
(***************************************************************************)

\* While TRCs are being written, all of them agree with their pins.
Vetted == pc = "write" => PinsMatch(gotTRCs)

\* While TRCs are being written, those not in unwritten are in place.
Progress ==
    pc = "write" => /\ unwritten \subseteq Listed(gotTRCs)
                     /\ \A n \in Listed(gotTRCs) \ unwritten : certs[n] # None

\* The inductive invariant: Vetted is what makes PinnedStays inductive, and
\* Progress what makes TRCsInPlace so.
BInv == FetchTypes /\ Vetted /\ Progress /\ PinnedStays /\ TRCsInPlace

----------------------------------------------------------------------------
\* Init establishes the invariant.
LEMMA InitB == FetchInit => BInv
BY BootstrapAssumption DEF FetchInit, BInv, FetchTypes, Vetted, Progress,
       PinnedStays, TRCsInPlace, TRCs, NoTRCs

\* Leave keeps the types of fetchFrom's variables.
LEMMA LeaveTypes ==
    ASSUME NEW b \in 0 .. MaxBases, Leave(b)
    PROVE  /\ bases' \in 0 .. MaxBases
           /\ bases' = 0 <=> pc' = "idle"
           /\ pc' \in {"idle", "topology"}
           /\ gotTopo' \in Topologies \cup {None}
           /\ gotTRCs' \in TRCs
           /\ unwritten' \in SUBSET Names
BY BootstrapAssumption DEF Leave, TRCs, NoTRCs

\* Every step of Fetch, fetchFrom and a restart keeps the types.
LEMMA TypeStepB ==
    ASSUME FetchTypes, [FetchNext]_fetchVars
    PROVE  FetchTypes'
<1>0. 0 \in 0 .. MaxBases /\ (pc # "idle" => bases - 1 \in 0 .. MaxBases)
  BY BootstrapAssumption DEF FetchTypes
<1>1. CASE Fetch
  BY <1>1 DEF Fetch, FetchTypes, disk, got
<1>2. CASE GetTopology
  BY <1>2 DEF GetTopology, FetchTypes, disk
<1>3. CASE GetTRCs
  BY <1>3 DEF GetTRCs, FetchTypes, disk
<1>4. CASE DownloadError
  BY <1>0, <1>4, LeaveTypes DEF DownloadError, FetchTypes, disk
<1>5. CASE CheckPins
  BY <1>5 DEF CheckPins, FetchTypes, disk, got, Listed
<1>6. CASE PinViolation
  BY <1>0, <1>6, LeaveTypes DEF PinViolation, FetchTypes, disk
<1>7. ASSUME NEW n \in Names, WriteTRC(n) PROVE FetchTypes'
  BY <1>7 DEF WriteTRC, FetchTypes, got, TRCs
<1>8. CASE WriteTopology
  BY <1>0, <1>8, LeaveTypes DEF WriteTopology, FetchTypes, Listed
<1>9. CASE WriteError
  BY <1>0, <1>9, LeaveTypes DEF WriteError, FetchTypes, disk
<1>10. CASE Crash
  BY <1>0, <1>10, LeaveTypes DEF Crash, FetchTypes, disk
<1>11. CASE UNCHANGED fetchVars
  BY <1>11 DEF FetchTypes, fetchVars, disk, got
<1> QED
  BY <1>1, <1>2, <1>3, <1>4, <1>5, <1>6, <1>7, <1>8, <1>9, <1>10, <1>11 DEF
     FetchNext

\* Leaving fetchFrom without touching the files keeps the rest.
LEMMA LeaveSafe ==
    ASSUME NEW b, Leave(b), UNCHANGED <<certs, listed>>,
           PinnedStays, TRCsInPlace
    PROVE  Vetted' /\ Progress' /\ PinnedStays' /\ TRCsInPlace'
BY DEF Leave, Vetted, Progress, PinnedStays, TRCsInPlace

\* Every step keeps the rest of the invariant.
LEMMA SafeStepB ==
    ASSUME BInv, [FetchNext]_fetchVars
    PROVE  Vetted' /\ Progress' /\ PinnedStays' /\ TRCsInPlace'
<1> USE DEF BInv
<1>1. CASE Fetch \/ GetTopology \/ GetTRCs
  BY <1>1 DEF Fetch, GetTopology, GetTRCs, disk, got,
     Vetted, Progress, PinnedStays, TRCsInPlace
<1>2. CASE DownloadError \/ PinViolation \/ WriteError \/ Crash
  BY <1>2, LeaveSafe DEF DownloadError, PinViolation, WriteError,
     Crash, disk
<1>3. CASE CheckPins
  BY <1>3 DEF CheckPins, disk, got, Vetted, Progress,
     PinnedStays, TRCsInPlace, PinsMatch, Listed
<1>4. ASSUME NEW n \in Names, WriteTRC(n)
      PROVE  Vetted' /\ Progress' /\ PinnedStays' /\ TRCsInPlace'
  <2>1. gotTRCs[n] # None /\ (Pins[n] # None => gotTRCs[n] = Pins[n])
    BY <1>4 DEF WriteTRC, Vetted, Progress, PinsMatch, Listed
  <2>2. \A m \in Names : certs'[m] = IF m = n THEN gotTRCs[n] ELSE certs[m]
    BY <1>4 DEF WriteTRC, FetchTypes, TRCs
  <2>3. Vetted'
    BY <1>4 DEF WriteTRC, got, Vetted, PinsMatch, Listed
  <2>4. Progress'
    BY <1>4, <2>1, <2>2 DEF WriteTRC, got, Progress, Listed
  <2>5. PinnedStays'
    BY <2>1, <2>2 DEF PinnedStays
  <2>6. TRCsInPlace'
    BY <1>4, <2>1, <2>2 DEF WriteTRC, FetchTypes, TRCsInPlace
  <2> QED
    BY <2>3, <2>4, <2>5, <2>6
<1>5. CASE WriteTopology
  BY <1>5 DEF WriteTopology, Leave, Vetted, Progress, PinnedStays,
     TRCsInPlace
<1>6. CASE UNCHANGED fetchVars
  BY <1>6 DEF fetchVars, disk, got, Vetted, Progress, PinnedStays,
     TRCsInPlace, PinsMatch, Listed
<1> QED
  BY <1>1, <1>2, <1>3, <1>4, <1>5, <1>6 DEF FetchNext

----------------------------------------------------------------------------
\* The invariant holds, for any TRCs, pins and number of servers.
THEOREM BootstrapInvariance == FetchSpec => []BInv
<1>1. BInv /\ [FetchNext]_fetchVars => BInv'
  BY TypeStepB, SafeStepB DEF BInv
<1> QED
  BY InitB, <1>1, PTL DEF FetchSpec

\* Files and fetchFrom's variables keep their types.
THEOREM BootstrapTypes == FetchSpec => []FetchTypes
BY BootstrapInvariance, PTL DEF BInv

\* No TRC on disk ever differs from its pin (the guard of fetchFrom).
THEOREM PinsHold == FetchSpec => []PinnedStays
BY BootstrapInvariance, PTL DEF BInv

\* The TRCs that came with topology.json are on disk (the order of fetchFrom).
THEOREM TopologyLast == FetchSpec => []TRCsInPlace
BY BootstrapInvariance, PTL DEF BInv

\* Bootstrap does to the directory what the trust cache expects of it: fetchFrom,
\* whatever fails and whenever the agent dies, replaces one TRC at a time by one
\* that was downloaded, and removes none.
THEOREM BootstrapImplementsDirectory == FetchSpec => Directory
<1>1. FetchInit => certs \in TRCs
  BY DEF FetchInit, NoTRCs, TRCs
<1>2. BInv /\ [FetchNext]_fetchVars => [\E n \in Names : Replace(n)]_certs
  <2> SUFFICES ASSUME BInv, [FetchNext]_fetchVars, certs' # certs
               PROVE  \E n \in Names : Replace(n)
    OBVIOUS
  <2>1. PICK n \in Names : WriteTRC(n)
    BY Zenon DEF FetchNext, Fetch, GetTopology, GetTRCs,
       DownloadError, CheckPins, PinViolation, WriteTopology,
       WriteError, Crash, fetchVars, disk
  <2>2. certs' = [certs EXCEPT ![n] = gotTRCs[n]] /\ n \in Listed(gotTRCs)
    BY <2>1 DEF WriteTRC, BInv, Progress
  <2>3. gotTRCs[n] \in Contents \ {certs[n]}
    BY <2>2 DEF BInv, FetchTypes, TRCs, Listed
  <2> QED
    BY <2>2, <2>3, Zenon DEF Replace
<1> QED
  BY <1>1, <1>2, BootstrapInvariance, PTL DEF FetchSpec, Directory
=============================================================================
