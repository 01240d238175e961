-------------------------- MODULE MetricsTLSProofs -------------------------
(* Proofs that the published CA follows the metrics certificate.            *)
EXTENDS MetricsTLS, TLAPS

\* Between the two writes the Secret has the certificate minted, unless somebody
\* else changed it.
Minted == pc = "cm" => torn /\ sec \in {new, None, Given}

\* The inductive invariant: Minted is what makes CAFollows inductive.
Inv == TypeOK /\ Minted /\ CAFollows

----------------------------------------------------------------------------
\* Init establishes the invariant.
LEMMA InitInv == Init => Inv
BY MetricsAssumption, Zenon DEF Init, Inv, TypeOK, Minted, CAFollows

\* generateMetricsCert finds a certificate nobody else uses.
LEMMA MintedNew ==
    ASSUME TypeOK, generateMetricsCert
    PROVE  /\ new' \in Certs \ {None}
           /\ age' \in [Certs -> {"fresh", "renew", "expired"}]
<1> DEFINE Free(c) == c \notin {Given, sec, csec, cm}
<1> USE MetricsAssumption
<1>1. \E c \in Certs : Free(c)
  <2> DEFINE Or(c) == IF c = None THEN Given ELSE c
  <2>1. Or(sec) \in Certs /\ Or(csec) \in Certs /\ Or(cm) \in Certs
    BY DEF TypeOK
  <2>2. PICK c \in Certs : c \notin {Given, Or(sec), Or(csec), Or(cm)}
    <3> HIDE DEF Or
    <3> QED
      BY <2>1
  <2> QED
    BY <2>2, Zenon
<1>2. new' = CHOOSE c \in Certs : Free(c)
  BY DEF generateMetricsCert
<1>3. new' \in Certs
  BY <1>1, <1>2
<1> QED
  BY <1>3, Zenon DEF generateMetricsCert, TypeOK

\* Every step of ensureMetricsTLS and of its environment keeps the types.
LEMMA TypeStep == TypeOK /\ [Next]_vars => TypeOK'
<1> SUFFICES ASSUME TypeOK, [Next]_vars PROVE TypeOK'
  OBVIOUS
<1> USE MetricsAssumption DEF TypeOK
<1>0. Disturb => budget' \in Nat
  BY DEF Disturb
<1>1. CASE Ensure
  BY <1>1, MintedNew, Zenon DEF Ensure, stored
<1>2. CASE ApplySecret \/ ApplySecretError
  <2>1. (UNCHANGED <<stored, torn>>) \/ WriteSecret
    BY <1>2, Zenon DEF ApplySecret, ApplySecretError
  <2>2. /\ sec' \in Certs \cup {None} /\ csec' \in Certs \cup {None}
        /\ cm' \in Certs \cup {None}
        /\ cur' \in BOOLEAN /\ torn' \in BOOLEAN
        /\ cur' => csec' = sec'
    <3>1. CASE UNCHANGED <<stored, torn>>
      BY <3>1, Zenon DEF stored
    <3>2. CASE WriteSecret
      BY <3>2, Zenon DEF WriteSecret
    <3> QED
      BY <2>1, <3>1, <3>2, Zenon
  <2>3. /\ pc' \in {"idle", "secret", "cm"} /\ new' \in Certs \cup {None}
        /\ pc' = "idle" <=> new' = None
    BY <1>2, Zenon DEF ApplySecret, ApplySecretError, Return
  <2>4. UNCHANGED <<age, budget>>
    BY <1>2, Zenon DEF ApplySecret, ApplySecretError
  <2> QED
    BY <2>2, <2>3, <2>4, Zenon
<1>3. CASE ApplyConfigMap \/ ApplyConfigMapError
  <2>1. Return /\ cm' \in {cm, new} /\ torn' \in {torn, FALSE}
    BY <1>3, Zenon DEF ApplyConfigMap, ApplyConfigMapError
  <2>2. UNCHANGED <<sec, csec, cur, age, budget>>
    BY <1>3, Zenon DEF ApplyConfigMap, ApplyConfigMapError
  <2>3. torn' \in BOOLEAN /\ cm' \in Certs \cup {None}
    BY <2>1, Zenon
  <2> QED
    BY <2>1, <2>2, <2>3, Zenon DEF Return
<1>4. CASE Crash \/ CacheSync
  BY <1>0, <1>4, Zenon DEF Crash, CacheSync, Return, worker
<1>5. ASSUME NEW c \in Certs, GrowOld(c) PROVE TypeOK'
  <2>1. age' \in [Certs -> {"fresh", "renew", "expired"}]
    BY <1>5, Zenon DEF GrowOld
  <2> QED
    BY <1>0, <1>5, <2>1, Zenon DEF GrowOld, stored, worker
<1>6. CASE DeleteSecret \/ GiveSecret
  BY <1>0, <1>6, Zenon DEF DeleteSecret, GiveSecret, worker
<1>7. CASE UNCHANGED vars
  BY <1>7, Zenon DEF vars, stored, worker
<1> QED
  BY <1>1, <1>2, <1>3, <1>4, <1>5, <1>6, <1>7, Zenon DEF Next, EnsureUsable

\* Every step keeps the rest of the invariant.
LEMMA SafeStep == Inv /\ [Next]_vars => Minted' /\ CAFollows'
<1> SUFFICES ASSUME Inv, [Next]_vars PROVE Minted' /\ CAFollows'
  OBVIOUS
<1> USE MetricsAssumption DEF Inv, Minted, CAFollows
<1>1. CASE Ensure
  BY <1>1 DEF Ensure, stored
<1>2. CASE ApplySecret \/ ApplySecretError
  BY <1>2, Zenon DEF ApplySecret, ApplySecretError, WriteSecret, Return, stored
<1>3. CASE ApplyConfigMap \/ ApplyConfigMapError
  BY <1>3, Zenon DEF ApplyConfigMap, ApplyConfigMapError, Return
<1>4. CASE Crash \/ CacheSync
  BY <1>4, Zenon DEF Crash, CacheSync, Return, worker
<1>5. ASSUME NEW c \in Certs, GrowOld(c) PROVE Minted' /\ CAFollows'
  BY <1>5 DEF GrowOld, stored, worker
<1>6. CASE DeleteSecret \/ GiveSecret
  BY <1>6, Zenon DEF DeleteSecret, GiveSecret, worker
<1>7. CASE UNCHANGED vars
  BY <1>7 DEF vars, stored, worker
<1> QED
  BY <1>1, <1>2, <1>3, <1>4, <1>5, <1>6, <1>7 DEF Next, EnsureUsable

----------------------------------------------------------------------------
\* The invariant holds, for any certificates and number of disturbances.
THEOREM Invariance == Spec => []Inv
<1>1. Inv /\ [Next]_vars => Inv'
  BY TypeStep, SafeStep DEF Inv
<1> QED
  BY InitInv, <1>1, PTL DEF Spec

\* The stored objects and the worker's state keep their types.
THEOREM TypeCorrect == Spec => []TypeOK
BY Invariance, PTL DEF Inv

\* The ConfigMap's CA differs from a Secret of the operator's only after a missed
\* write of the ConfigMap (the order of ensureMetricsTLS).
THEOREM CAStaysWithSecret == Spec => []CAFollows
BY Invariance, PTL DEF Inv
=============================================================================
