----------------------------- MODULE MetricsTLS -----------------------------
(***************************************************************************)
(* The serving certificate of the agents' metrics endpoint on clusters     *)
(* without service-ca.  ensureMetricsTLS, called on every reconcile, keeps *)
(* a usable certificate in a Secret and its CA in a ConfigMap, in two      *)
(* writes of which either can fail or be the operator's last; it reads     *)
(* through a cache.  Agents serve with the Secret's certificate, scrapers  *)
(* trust the ConfigMap's CA.                                               *)
(*                                                                         *)
(* A certificate and the CA minted with it are one member of Certs.        *)
(***************************************************************************)
EXTENDS Naturals

CONSTANTS
    Certs,       \* certificates; more than can be in use at one time
    Given,       \* one that somebody else put into the Secret
    MaxDisturb,  \* bound on disturbances (see Disturb)
    None         \* no Secret, no ConfigMap, no certificate minted

ASSUME MetricsAssumption ==
    /\ Given \in Certs
    /\ None \notin Certs
    /\ \A a, b, c \in Certs : Certs \ {Given, a, b, c} # {}
    /\ MaxDisturb \in Nat

VARIABLES
    sec,       \* the certificate in the Secret
    csec,      \* the one in the cached copy of the Secret
    cur,       \* the cached copy has the current resourceVersion
    cm,        \* the CA in the ConfigMap
    age,       \* age[c]: "fresh", "renew" (30 days left) or "expired"
    pc, new,   \* ensureMetricsTLS: next step, certificate minted
    torn,      \* history: the Secret was written, the ConfigMap not since
    budget     \* disturbances left

stored == <<sec, csec, cur, cm>>
worker == <<pc, new>>
vars == <<stored, torn, age, worker, budget>>

Init == /\ sec \in {None, Given} /\ csec = sec /\ cur = TRUE
        /\ cm = None /\ torn = FALSE
        /\ age = [c \in Certs |-> "fresh"]
        /\ pc = "idle" /\ new = None
        /\ budget = MaxDisturb

Disturb == budget > 0 /\ budget' = budget - 1

\* Mutant: a certificate is used until it expires.
metricsCertUsableToTheEnd(c) == c # None /\ age[c] # "expired"

\* metricsCertUsable: a certificate of any issuer that does not expire soon.
metricsCertUsable(c) == c # None /\ age[c] = "fresh"

\* generateMetricsCert: a new CA and leaf, like none in use.
generateMetricsCert ==
    /\ new' = CHOOSE c \in Certs : c \notin {Given, sec, csec, cm}
    /\ age' = [age EXCEPT ![new'] = "fresh"]

\* ensureMetricsTLS, the Secret read and usable: nothing is written.
EnsureUsable == /\ pc = "idle"
                /\ metricsCertUsable(csec)
                /\ UNCHANGED vars

\* ensureMetricsTLS, the Secret absent or not usable.  A read through the cache
\* fails only by not finding the Secret, which the code takes for absent.
Ensure == /\ pc = "idle"
          /\ ~metricsCertUsable(csec)
          /\ generateMetricsCert
          /\ pc' = "secret"
          /\ UNCHANGED <<stored, torn, budget>>

\* ensureMetricsTLS returns.
Return == pc' = "idle" /\ new' = None

\* CreateOrUpdate stores the certificate.
WriteSecret == /\ sec' = new
               /\ cur' = FALSE
               /\ torn' = TRUE
               /\ UNCHANGED <<csec, cm>>

\* applyObject on the Secret: CreateOrUpdate on a stale copy is refused.
ApplySecret == /\ pc = "secret"
               /\ cur
               /\ WriteSecret
               /\ pc' = "cm"
               /\ UNCHANGED <<age, new, budget>>

\* It is refused, lost, or made and not confirmed.
ApplySecretError == /\ pc = "secret"
                    /\ UNCHANGED <<stored, torn>> \/ (cur /\ WriteSecret)
                    /\ Return
                    /\ UNCHANGED <<age, budget>>

\* Mutant: the ConfigMap is created and never updated.
ApplyConfigMapOnce == /\ pc = "cm"
                      /\ cm' = IF cm = None THEN new ELSE cm
                      /\ torn' = FALSE
                      /\ Return
                      /\ UNCHANGED <<sec, csec, cur, age, budget>>

\* applyObject on the ConfigMap.
ApplyConfigMap == /\ pc = "cm"
                  /\ cm' = new
                  /\ torn' = FALSE
                  /\ Return
                  /\ UNCHANGED <<sec, csec, cur, age, budget>>

ApplyConfigMapError == /\ pc = "cm"
                       /\ cm' \in {cm, new}
                       /\ Return
                       /\ UNCHANGED <<torn, sec, csec, cur, age, budget>>

\* The operator dies; the next one lists the Secret.
Crash == /\ Disturb
         /\ Return
         /\ csec' = sec /\ cur' = TRUE
         /\ UNCHANGED <<sec, cm, torn, age>>

\* External: the watch event of the Secret.
CacheSync == /\ ~cur
             /\ csec' = sec
             /\ cur' = TRUE
             /\ UNCHANGED <<sec, cm, torn, age, worker, budget>>

\* External: time passes for a certificate, one threshold at a time.
GrowOld(c) == /\ Disturb
              /\ c \in {sec, csec, cm, new}
              /\ age[c] # "expired"
              /\ age' = [age EXCEPT ![c] =
                            IF age[c] = "fresh" THEN "renew" ELSE "expired"]
              /\ UNCHANGED <<stored, torn, worker>>

\* External: somebody deletes the Secret.
DeleteSecret == /\ Disturb
                /\ sec # None
                /\ sec' = None
                /\ cur' = FALSE
                /\ UNCHANGED <<csec, cm, torn, age, worker>>

\* External: somebody puts a certificate of their own into the Secret.
GiveSecret == /\ Disturb
              /\ sec # Given
              /\ age[Given] = "fresh"
              /\ sec' = Given
              /\ cur' = FALSE
              /\ UNCHANGED <<csec, cm, torn, age, worker>>

Next == \/ EnsureUsable \/ Ensure
        \/ ApplySecret \/ ApplySecretError
        \/ ApplyConfigMap \/ ApplyConfigMapError
        \/ Crash \/ CacheSync
        \/ \E c \in Certs : GrowOld(c)
        \/ DeleteSecret \/ GiveSecret

Spec == Init /\ [][Next]_vars

\* Fairness: failed reconciles are repeated, watch events arrive, and writes do
\* not fail for ever.
LiveSpec == /\ Spec
            /\ WF_vars(Ensure) /\ WF_vars(CacheSync)
            /\ SF_vars(ApplySecret)
            /\ WF_vars(ApplySecretError)
            /\ WF_vars(ApplyConfigMap \/ ApplyConfigMapError)

----------------------------------------------------------------------------
\* Types of the stored objects, the worker's state.
TypeOK ==
    /\ sec \in Certs \cup {None} /\ csec \in Certs \cup {None}
    /\ cm \in Certs \cup {None} /\ new \in Certs \cup {None}
    /\ cur \in BOOLEAN /\ torn \in BOOLEAN
    /\ cur => csec = sec
    /\ age \in [Certs -> {"fresh", "renew", "expired"}]
    /\ pc \in {"idle", "secret", "cm"}
    /\ pc = "idle" <=> new = None
    /\ budget \in Nat

\* The ConfigMap has the CA of the Secret's certificate unless the ConfigMap was
\* not written after the Secret: a stale cache, repeated renewals or deletions
\* alone do not part them.
CAFollows == sec \notin {None, Given} /\ ~torn => cm = sec

\* metricsCertRenewBefore: left alone, the Secret ends up with a certificate
\* that does not expire soon, whatever failed on the way.
SecretRenewed == <>[](sec # None /\ age[sec] = "fresh")

\* "the CA certificate is published in a ConfigMap for scrapers to pin"
\* (ensureMetricsTLS): left alone, the ConfigMap ends up with the CA of the
\* certificate the operator put into the Secret.
CAPublished == <>[](sec \notin {None, Given} => cm = sec)
=============================================================================
