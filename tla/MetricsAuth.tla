---------------------------- MODULE MetricsAuth ----------------------------
(***************************************************************************)
(* Authentication of the agent's metrics endpoint (metricsauth): requests  *)
(* served concurrently by Middleware share a cache of tokens that were     *)
(* found good, behind a mutex.  A token is reviewed in two calls to the    *)
(* API server, made without the mutex; both verdicts can change at any     *)
(* time, also between the calls and while their result is on its way into  *)
(* the cache.                                                              *)
(***************************************************************************)
EXTENDS Naturals, FiniteSets

CONSTANTS
    Conns,       \* concurrent requests
    Tokens,      \* bearer tokens
    cacheTTL, cacheMax,
    MaxTime,     \* bound on the clock
    MaxChange,   \* bound on changes of a verdict
    None         \* no token, no entry, no holder; a verdict that is good

Kinds == {"authn", "authz"}

ASSUME MetricsAuthAssumption ==
    /\ IsFiniteSet(Tokens)
    /\ cacheTTL \in Nat \ {0} /\ cacheMax \in Nat \ {0}
    /\ MaxTime \in Nat /\ MaxChange \in Nat
    /\ None \notin Conns \cup Tokens \cup Nat

VARIABLES
    now,       \* the clock
    lost,      \* external: lost[k][t], since when the API server denies t
    pc, tok,   \* per request: next step of check, token
    since,     \* per request: when its TokenReview was answered
    mu,        \* the request that holds the mutex
    allowed,   \* allowed[t]: when the cached decision expires
    slowest,   \* history: longest time from a TokenReview to its use
    changes    \* changes of verdicts left

request == <<pc, tok, since>>
vars == <<now, lost, request, mu, allowed, slowest, changes>>

Init == /\ now = 0
        /\ lost \in [Kinds -> [Tokens -> {None, 0}]]
        /\ pc = [c \in Conns |-> "idle"]
        /\ tok = [c \in Conns |-> None]
        /\ since = [c \in Conns |-> 0]
        /\ mu = None
        /\ allowed = [t \in Tokens |-> None]
        /\ slowest = 0
        /\ changes = MaxChange

----------------------------------------------------------------------------
\* Middleware answers with the status of check, or has next serve it.
Answer(c) == /\ pc' = [pc EXCEPT ![c] = "idle"]
             /\ tok' = [tok EXCEPT ![c] = None]
             /\ since' = [since EXCEPT ![c] = 0]

\* Middleware, a request with a token for a path that is not a probe's; the
\* others are answered at once and touch nothing.
Arrive(c, t) == /\ pc[c] = "idle"
                /\ pc' = [pc EXCEPT ![c] = "lookup"]
                /\ tok' = [tok EXCEPT ![c] = t]
                /\ UNCHANGED <<now, lost, since, mu, allowed, slowest, changes>>

\* check takes the mutex, for the lookup or to remember a decision.
Lock(c) == /\ mu = None
           /\ pc[c] \in {"lookup", "insert"}
           /\ mu' = c
           /\ pc' = [pc EXCEPT ![c] = IF @ = "lookup" THEN "read" ELSE "write"]
           /\ UNCHANGED <<now, lost, tok, since, allowed, slowest, changes>>

\* Mutant: a decision is used for ever.
CachedForever(t) == allowed[t] # None

\* A decision is remembered and has not expired.
Cached(t) == allowed[t] # None /\ now < allowed[t]

\* Mutant: the mutex is kept on the way to the API server.
ReadKeepsLock(c) == /\ pc[c] = "read"
                    /\ \/ Cached(tok[c]) /\ Answer(c) /\ mu' = None
                       \/ /\ ~Cached(tok[c])
                          /\ pc' = [pc EXCEPT ![c] = "review"]
                          /\ UNCHANGED <<tok, since, mu>>
                    /\ UNCHANGED <<now, lost, allowed, slowest, changes>>

\* The lookup: 200, or on to the API server.
Read(c) == /\ pc[c] = "read"
           /\ mu' = None
           /\ \/ Cached(tok[c]) /\ Answer(c)
              \/ /\ ~Cached(tok[c])
                 /\ pc' = [pc EXCEPT ![c] = "review"]
                 /\ UNCHANGED <<tok, since>>
           /\ UNCHANGED <<now, lost, allowed, slowest, changes>>

\* The TokenReview says authenticated.
TokenReviewOk(c) == /\ pc[c] = "review"
                    /\ lost["authn"][tok[c]] = None
                    /\ pc' = [pc EXCEPT ![c] = "sar"]
                    /\ since' = [since EXCEPT ![c] = now]
                    /\ UNCHANGED <<now, lost, tok, mu, allowed, slowest, changes>>

\* The SubjectAccessReview says allowed.
AccessReviewOk(c) == /\ pc[c] = "sar"
                     /\ lost["authz"][tok[c]] = None
                     /\ pc' = [pc EXCEPT ![c] = "insert"]
                     /\ UNCHANGED <<now, lost, tok, since, mu, allowed, slowest,
                                    changes>>

\* 401, 403, or 500 for a call that fails.
Refuse(c) == /\ pc[c] \in {"review", "sar"}
             /\ Answer(c)
             /\ UNCHANGED <<now, lost, mu, allowed, slowest, changes>>

Remembered == {t \in Tokens : allowed[t] # None}
Larger(a, b) == IF a < b THEN b ELSE a

\* Mutant: the cache is reset once it is larger than cacheMax.
WriteBeyond(c) ==
    /\ pc[c] = "write"
    /\ mu' = None
    /\ allowed' = [t \in Tokens |->
                      IF t = tok[c] THEN now + cacheTTL
                      ELSE IF Cardinality(Remembered) > cacheMax THEN None
                      ELSE allowed[t]]
    /\ slowest' = Larger(slowest, now - since[c])
    /\ Answer(c)
    /\ UNCHANGED <<now, lost, changes>>

\* The decision is remembered, in a cache that was reset if full; 200.
Write(c) == /\ pc[c] = "write"
            /\ mu' = None
            /\ allowed' = [t \in Tokens |->
                              IF t = tok[c] THEN now + cacheTTL
                              ELSE IF Cardinality(Remembered) >= cacheMax THEN None
                              ELSE allowed[t]]
            /\ slowest' = Larger(slowest, now - since[c])
            /\ Answer(c)
            /\ UNCHANGED <<now, lost, changes>>

\* External: the API server's verdict on a token changes.
Change(k, t) == /\ changes > 0
                /\ changes' = changes - 1
                /\ lost' = [lost EXCEPT ![k][t] = IF @ = None THEN now ELSE None]
                /\ UNCHANGED <<now, request, mu, allowed, slowest>>

\* Time passes; the clock stops at MaxTime.
Tick == /\ now' = IF now < MaxTime THEN now + 1 ELSE now
        /\ UNCHANGED <<lost, request, mu, allowed, slowest, changes>>

Handler(c) == Lock(c) \/ Read(c) \/ Write(c)

Next == \/ \E c \in Conns, t \in Tokens : Arrive(c, t)
        \/ \E c \in Conns : \/ Handler(c) \/ TokenReviewOk(c)
                            \/ AccessReviewOk(c) \/ Refuse(c)
        \/ \E k \in Kinds, t \in Tokens : Change(k, t)
        \/ Tick

Spec == Init /\ [][Next]_vars

\* Fairness: goroutines run, and sync.Mutex starves nobody.  Nothing is assumed
\* of the API server, which may leave a review unanswered for ever.
LiveSpec == /\ Spec
            /\ \A c \in Conns : SF_vars(Lock(c)) /\ WF_vars(Read(c) \/ Write(c))

----------------------------------------------------------------------------
\* Types of the cache, the requests and the verdicts.
TypeOK ==
    /\ now \in Nat /\ slowest \in Nat /\ changes \in Nat
    /\ lost \in [Kinds -> [Tokens -> Nat \cup {None}]]
    /\ pc \in [Conns -> {"idle", "lookup", "read", "review", "sar", "insert",
                         "write"}]
    /\ tok \in [Conns -> Tokens \cup {None}]
    /\ \A c \in Conns : pc[c] = "idle" <=> tok[c] = None
    /\ since \in [Conns -> Nat]
    /\ mu \in Conns \cup {None}
    /\ allowed \in [Tokens -> Nat \cup {None}]

\* "cacheMax caps remembered tokens", also when several requests found the cache
\* one short of the cap and insert one after the other.
CacheBounded == Cardinality(Remembered) <= cacheMax

\* "limiting the window in which a revoked token still works" (cacheTTL): a
\* request is let in only with a token that was authenticated, and one that was
\* allowed, less than cacheTTL ago plus the time the slowest check took between
\* its TokenReview and its answer; verdicts lost while a check was under way
\* included.
RevokedRefused ==
    [][\A c \in Conns : pc[c] \in {"read", "write"} /\ pc'[c] = "idle"
          => \A k \in Kinds :
                LET l == lost[k][tok[c]]
                IN  l = None \/ now < l + cacheTTL + slowest']_vars

\* check never waits for the API server with the mutex held: with every review
\* unanswered, a request still gets its answer from the cache or as far as its
\* own review.
CacheNeverBlocked ==
    \A c \in Conns : pc[c] \in {"lookup", "insert"}
                     ~> pc[c] \in {"idle", "review"}
=============================================================================
