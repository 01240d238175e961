------------------------- MODULE MetricsAuthProofs -------------------------
(* Proofs that the metrics token cache stays bounded and forgets in time.   *)
EXTENDS MetricsAuth, TLAPS, FiniteSetTheorems

\* A decision on its way into the cache: the verdicts it rests on were good when
\* its TokenReview was answered, or later.
InFlight ==
    \A c \in Conns :
        /\ pc[c] \in {"sar", "insert", "write"} =>
              /\ since[c] <= now
              /\ lost["authn"][tok[c]] # None
                    => since[c] <= lost["authn"][tok[c]]
        /\ pc[c] \in {"insert", "write"} =>
              (lost["authz"][tok[c]] # None => since[c] <= lost["authz"][tok[c]])

\* A decision in the cache: it expires within cacheTTL, and within cacheTTL and
\* the slowest check of the loss of a verdict.
Entries ==
    \A t \in Tokens : allowed[t] # None =>
        /\ allowed[t] <= now + cacheTTL
        /\ \A k \in Kinds : lost[k][t] # None
              => allowed[t] <= lost[k][t] + cacheTTL + slowest

\* The inductive invariant: InFlight is what makes Entries inductive.
Inv == TypeOK /\ InFlight /\ Entries /\ CacheBounded

----------------------------------------------------------------------------
\* The remembered tokens are finitely many.
LEMMA RememberedFinite == IsFiniteSet(Remembered) /\ Cardinality(Remembered) \in Nat
<1>1. Remembered \in SUBSET Tokens
  BY DEF Remembered
<1> QED
  BY <1>1, MetricsAuthAssumption, FS_Subset, FS_CardinalityType

\* Init establishes the invariant.
LEMMA InitInv == Init => Inv
<1> SUFFICES ASSUME Init PROVE Inv
  OBVIOUS
<1>1. TypeOK
  BY MetricsAuthAssumption DEF Init, TypeOK, Kinds
<1>2. InFlight /\ Entries
  BY DEF Init, InFlight, Entries
<1>3. Remembered = {}
  BY DEF Init, Remembered
<1>4. CacheBounded
  BY <1>3, FS_EmptySet, MetricsAuthAssumption DEF CacheBounded
<1> QED
  BY <1>1, <1>2, <1>4 DEF Inv

\* The answer to a request keeps the types of all requests.
LEMMA AnswerTypes ==
    ASSUME TypeOK, NEW c \in Conns, Answer(c)
    PROVE  /\ pc' \in [Conns -> {"idle", "lookup", "read", "review", "sar", "insert",
                                 "write"}]
           /\ tok' \in [Conns -> Tokens \cup {None}]
           /\ \A d \in Conns : pc'[d] = "idle" <=> tok'[d] = None
           /\ since' \in [Conns -> Nat]
BY DEF TypeOK, Answer

\* Every step of a handler, the API server and the clock keeps the types.
LEMMA TypeStep == TypeOK /\ [Next]_vars => TypeOK'
<1> SUFFICES ASSUME TypeOK, [Next]_vars PROVE TypeOK'
  OBVIOUS
<1> USE MetricsAuthAssumption
<1>1. ASSUME NEW c \in Conns, NEW t \in Tokens, Arrive(c, t) PROVE TypeOK'
  BY <1>1 DEF Arrive, TypeOK
<1>2. ASSUME NEW c \in Conns, Lock(c) PROVE TypeOK'
  BY <1>2 DEF Lock, TypeOK
<1>3. ASSUME NEW c \in Conns, Read(c) PROVE TypeOK'
  <2>1. CASE Answer(c)
    BY <1>3, <2>1, AnswerTypes DEF Read, TypeOK
  <2>2. CASE ~Answer(c)
    BY <1>3, <2>2 DEF Read, TypeOK
  <2> QED
    BY <2>1, <2>2
<1>4. ASSUME NEW c \in Conns, Write(c) PROVE TypeOK'
  <2>1. now - since[c] \in Int /\ slowest' \in Nat
    BY <1>4 DEF Write, TypeOK, Larger
  <2>2. allowed' \in [Tokens -> Nat \cup {None}]
    BY <1>4 DEF Write, TypeOK
  <2> QED
    BY <1>4, <2>1, <2>2, AnswerTypes DEF Write, TypeOK
<1>5. ASSUME NEW c \in Conns, TokenReviewOk(c) \/ AccessReviewOk(c) PROVE TypeOK'
  BY <1>5 DEF TokenReviewOk, AccessReviewOk, TypeOK
<1>6. ASSUME NEW c \in Conns, Refuse(c) PROVE TypeOK'
  BY <1>6, AnswerTypes DEF Refuse, TypeOK
<1>7. ASSUME NEW k \in Kinds, NEW t \in Tokens, Change(k, t) PROVE TypeOK'
  BY <1>7 DEF Change, request, TypeOK
<1>8. CASE Tick
  BY <1>8 DEF Tick, request, TypeOK
<1>9. CASE UNCHANGED vars
  BY <1>9 DEF vars, request, TypeOK
<1> QED
  BY <1>1, <1>2, <1>3, <1>4, <1>5, <1>6, <1>7, <1>8, <1>9 DEF Next, Handler

\* An answered request takes nothing in flight away from the others.
LEMMA AnswerInFlight ==
    ASSUME TypeOK, InFlight, NEW c \in Conns, Answer(c), UNCHANGED <<now, lost>>
    PROVE  InFlight'
<1>1. ASSUME NEW d \in Conns
      PROVE  \/ pc'[d] = "idle"
             \/ pc'[d] = pc[d] /\ tok'[d] = tok[d] /\ since'[d] = since[d]
  BY <1>1 DEF TypeOK, Answer
<1> QED
  BY <1>1 DEF InFlight

\* Every step keeps the decisions in flight right.
LEMMA InFlightStep == TypeOK /\ InFlight /\ [Next]_vars => InFlight'
<1> SUFFICES ASSUME TypeOK, InFlight, [Next]_vars PROVE InFlight'
  OBVIOUS
<1> USE MetricsAuthAssumption
<1>1. ASSUME NEW c \in Conns, NEW t \in Tokens, Arrive(c, t) PROVE InFlight'
  BY <1>1 DEF Arrive, TypeOK, InFlight
<1>2. ASSUME NEW c \in Conns, Lock(c) PROVE InFlight'
  BY <1>2 DEF Lock, TypeOK, InFlight
<1>3. ASSUME NEW c \in Conns, Read(c) PROVE InFlight'
  <2>1. CASE Answer(c)
    BY <1>3, <2>1, AnswerInFlight DEF Read
  <2>2. CASE ~Answer(c)
    BY <1>3, <2>2 DEF Read, TypeOK, InFlight
  <2> QED
    BY <2>1, <2>2
<1>4. ASSUME NEW c \in Conns, Write(c) \/ Refuse(c) PROVE InFlight'
  BY <1>4, AnswerInFlight DEF Write, Refuse
<1>5. ASSUME NEW c \in Conns, TokenReviewOk(c) PROVE InFlight'
  BY <1>5 DEF TokenReviewOk, TypeOK, InFlight
<1>6. ASSUME NEW c \in Conns, AccessReviewOk(c) PROVE InFlight'
  BY <1>6 DEF AccessReviewOk, TypeOK, InFlight
<1>7. ASSUME NEW k \in Kinds, NEW t \in Tokens, Change(k, t) PROVE InFlight'
  <2>1. \A j \in Kinds, u \in Tokens :
           lost'[j][u] = lost[j][u] \/ lost'[j][u] \in {now, None}
    BY <1>7 DEF Change, TypeOK
  <2>2. ASSUME NEW d \in Conns, pc[d] \in {"sar", "insert", "write"}
        PROVE  tok[d] \in Tokens
    BY <2>2 DEF TypeOK
  <2> QED
    BY <1>7, <2>1, <2>2 DEF Change, request, TypeOK, InFlight, Kinds
<1>8. CASE Tick
  BY <1>8 DEF Tick, request, TypeOK, InFlight
<1>9. CASE UNCHANGED vars
  BY <1>9 DEF vars, request, InFlight
<1> QED
  BY <1>1, <1>2, <1>3, <1>4, <1>5, <1>6, <1>7, <1>8, <1>9 DEF Next, Handler

\* Every step keeps the cached decisions right.
LEMMA EntriesStep == TypeOK /\ InFlight /\ Entries /\ [Next]_vars => Entries'
<1> SUFFICES ASSUME TypeOK, InFlight, Entries, [Next]_vars PROVE Entries'
  OBVIOUS
<1> USE MetricsAuthAssumption
<1>1. CASE UNCHANGED <<now, lost, allowed, slowest>>
  BY <1>1 DEF Entries
<1>2. ASSUME NEW c \in Conns, Write(c) PROVE Entries'
  <2>1. tok[c] \in Tokens /\ now - since[c] <= slowest' /\ slowest <= slowest'
        /\ slowest' \in Nat
    BY <1>2 DEF Write, TypeOK, InFlight, Larger
  <2>2. \A k \in Kinds : lost[k][tok[c]] # None => since[c] <= lost[k][tok[c]]
    BY <1>2 DEF Write, InFlight, Kinds
  <2>3. now' = now /\ lost' = lost
    BY <1>2 DEF Write
  <2>4. \A k \in Kinds, t \in Tokens : lost[k][t] \in Nat \cup {None}
    BY DEF TypeOK
  <2>5. now \in Nat /\ slowest \in Nat /\ since[c] \in Nat
    BY DEF TypeOK
  <2>6. \A t \in Tokens : allowed'[t] = None \/ allowed'[t] = allowed[t]
                          \/ (t = tok[c] /\ allowed'[t] = now + cacheTTL)
    BY <1>2 DEF Write
  <2>7. \A t \in Tokens : allowed[t] \in Nat \cup {None}
    BY DEF TypeOK
  <2>8. ASSUME NEW t \in Tokens, allowed'[t] # None, allowed'[t] = allowed[t]
        PROVE  /\ allowed'[t] <= now + cacheTTL
               /\ \A k \in Kinds : lost[k][t] # None
                     => allowed'[t] <= lost[k][t] + cacheTTL + slowest'
    BY <2>1, <2>4, <2>5, <2>7, <2>8 DEF Entries
  <2>9. /\ now + cacheTTL <= now + cacheTTL
        /\ \A k \in Kinds : lost[k][tok[c]] # None
              => now + cacheTTL <= lost[k][tok[c]] + cacheTTL + slowest'
    BY <2>1, <2>2, <2>4, <2>5
  <2> QED
    BY <2>3, <2>6, <2>8, <2>9 DEF Entries
<1>3. ASSUME NEW k \in Kinds, NEW t \in Tokens, Change(k, t) PROVE Entries'
  <2>1. \A j \in Kinds, u \in Tokens :
           lost'[j][u] = lost[j][u] \/ lost'[j][u] \in {now, None}
    BY <1>3 DEF Change, TypeOK
  <2> QED
    BY <1>3, <2>1 DEF Change, TypeOK, Entries
<1>4. CASE Tick
  BY <1>4 DEF Tick, TypeOK, Entries
<1> QED
  BY <1>1, <1>2, <1>3, <1>4
     DEF Next, Handler, Arrive, Lock, Read, TokenReviewOk, AccessReviewOk, Refuse,
         request, vars

\* Write leaves room for the token it inserts, the only step that adds one.
LEMMA BoundedStep == TypeOK /\ CacheBounded /\ [Next]_vars => CacheBounded'
<1> SUFFICES ASSUME TypeOK, CacheBounded, [Next]_vars PROVE CacheBounded'
  OBVIOUS
<1>1. CASE UNCHANGED allowed
  BY <1>1 DEF CacheBounded, Remembered
<1>2. ASSUME NEW c \in Conns, Write(c) PROVE CacheBounded'
  <2>0. tok[c] \in Tokens /\ now + cacheTTL # None
    BY <1>2, MetricsAuthAssumption DEF Write, TypeOK
  <2>1. CASE Cardinality(Remembered) >= cacheMax
    <3>1. Remembered' = {tok[c]}
      BY <1>2, <2>0, <2>1 DEF Write, Remembered
    <3>2. Cardinality({tok[c]}) = 1
      BY FS_Singleton, Zenon
    <3>3. Cardinality(Remembered') = 1
      BY <3>1, <3>2, Zenon
    <3> QED
      BY <3>3, MetricsAuthAssumption DEF CacheBounded
  <2>2. CASE ~(Cardinality(Remembered) >= cacheMax)
    <3>1. Remembered' = Remembered \cup {tok[c]}
      BY <1>2, <2>0, <2>2 DEF Write, Remembered
    <3> DEFINE S == Remembered
    <3>2. IsFiniteSet(S) /\ Cardinality(S) \in Nat
      BY RememberedFinite
    <3>3. Cardinality(S \cup {tok[c]}) \in {Cardinality(S), Cardinality(S) + 1}
      <4> HIDE DEF S
      <4> QED
        BY <3>2, FS_AddElement
    <3>4. Cardinality(Remembered') \in {Cardinality(S), Cardinality(S) + 1}
      BY <3>1, <3>3, Zenon
    <3> QED
      BY <2>2, <3>2, <3>4, MetricsAuthAssumption DEF CacheBounded
  <2> QED
    BY <2>1, <2>2
<1> QED
  BY <1>1, <1>2
     DEF Next, Handler, Arrive, Lock, Read, TokenReviewOk, AccessReviewOk, Refuse,
         Change, Tick, vars

----------------------------------------------------------------------------
\* The invariant holds, for any tokens, requests, cacheTTL and cacheMax.
THEOREM Invariance == Spec => []Inv
<1>1. Inv /\ [Next]_vars => Inv'
  BY TypeStep, InFlightStep, EntriesStep, BoundedStep DEF Inv
<1> QED
  BY InitInv, <1>1, PTL DEF Spec

\* The cache, the requests and the verdicts keep their types.
THEOREM TypeCorrect == Spec => []TypeOK
BY Invariance, PTL DEF Inv

\* The cache never holds more than cacheMax tokens (the reset in check).
THEOREM CacheStaysBounded == Spec => []CacheBounded
BY Invariance, PTL DEF Inv

\* No request is let in with a token that lost a verdict cacheTTL and the longest
\* check ago, or before (the expiry of a decision in check).
THEOREM RevocationBounded == Spec => RevokedRefused
<1>1. ASSUME Inv, [Next]_vars, NEW c \in Conns,
             pc[c] \in {"read", "write"}, pc'[c] = "idle", NEW k \in Kinds,
             lost[k][tok[c]] # None
      PROVE  now < lost[k][tok[c]] + cacheTTL + slowest'
  <2> USE MetricsAuthAssumption
  <2>1. /\ tok[c] \in Tokens /\ lost[k][tok[c]] \in Nat /\ now \in Nat
        /\ slowest \in Nat /\ since[c] \in Nat
        /\ allowed[tok[c]] \in Nat \cup {None}
    BY <1>1 DEF Inv, TypeOK
  <2>2. Read(c) \/ Write(c)
    BY <1>1 DEF Inv, TypeOK, Next, Handler, Arrive, Lock, Read, Write, TokenReviewOk,
                AccessReviewOk, Refuse, Answer, Change, Tick, vars, request
  <2>3. CASE Read(c)
    <3>1. Cached(tok[c]) /\ slowest' = slowest
      BY <1>1, <2>3 DEF Read, Inv, TypeOK
    <3> QED
      BY <1>1, <2>1, <3>1 DEF Cached, Inv, Entries
  <2>4. CASE Write(c)
    <3>1. since[c] <= lost[k][tok[c]]
      BY <1>1, <2>4 DEF Write, Inv, InFlight, Kinds
    <3>2. now - since[c] <= slowest' /\ slowest' \in Int
      BY <2>1, <2>4 DEF Write, Larger
    <3> QED
      BY <2>1, <3>1, <3>2
  <2> QED
    BY <2>2, <2>3, <2>4
<1>2. Inv /\ [Next]_vars
      => [\A c \in Conns : pc[c] \in {"read", "write"} /\ pc'[c] = "idle"
             => \A k \in Kinds :
                   LET l == lost[k][tok[c]]
                   IN  l = None \/ now < l + cacheTTL + slowest']_vars
  BY <1>1
<1> QED
  BY Invariance, <1>2, PTL DEF Spec, RevokedRefused
----------------------------------------------------------------------------
\* The mutex is held by the request at one of the two uses of the cache, and so by
\* none that waits for the API server.
HeldAtCache == \A c \in Conns : mu = c <=> pc[c] \in {"read", "write"}

\* Every step keeps that.
LEMMA HeldStep == TypeOK /\ HeldAtCache /\ [Next]_vars => HeldAtCache'
<1> SUFFICES ASSUME TypeOK, HeldAtCache, [Next]_vars PROVE HeldAtCache'
  OBVIOUS
<1> USE MetricsAuthAssumption DEF HeldAtCache
<1>0. DOMAIN pc = Conns
  BY DEF TypeOK
<1>1. ASSUME NEW c \in Conns, Lock(c) PROVE HeldAtCache'
  BY <1>0, <1>1 DEF Lock
<1>2. ASSUME NEW c \in Conns, Read(c) \/ Write(c) PROVE HeldAtCache'
  BY <1>0, <1>2 DEF Read, Write, Answer
<1>3. ASSUME NEW c \in Conns, NEW t \in Tokens, Arrive(c, t) PROVE HeldAtCache'
  BY <1>0, <1>3 DEF Arrive
<1>4. ASSUME NEW c \in Conns, TokenReviewOk(c) \/ AccessReviewOk(c) \/ Refuse(c)
      PROVE  HeldAtCache'
  BY <1>0, <1>4 DEF TokenReviewOk, AccessReviewOk, Refuse, Answer
<1>5. CASE UNCHANGED <<request, mu>>
  BY <1>5 DEF request
<1> QED
  BY <1>1, <1>2, <1>3, <1>4, <1>5 DEF Next, Handler, Change, Tick, vars

\* check lets go of the mutex before it asks the API server, on every path, and
\* whoever has it needs nothing more to let go: what CacheNeverBlocked rests on.
THEOREM NoReviewUnderLock == Spec => []HeldAtCache
<1>1. Init => HeldAtCache
  BY MetricsAuthAssumption DEF Init, HeldAtCache
<1> QED
  BY <1>1, HeldStep, TypeCorrect, PTL DEF Spec
=============================================================================
