----------------------- MODULE ClusterNetworksProofs -----------------------
(***************************************************************************)
(* Proofs, for any prefixes, specs and number of disturbances, that the    *)
(* deny list the operator applies has every network that was there all the *)
(* while it was derived, that agents are rolled only for another set of    *)
(* networks, and that a worker at rest has nothing left to do.             *)
(*                                                                         *)
(* The argument: a list that has been sorted is the only list of its       *)
(* elements, so that equal sets are equal lists; and each change of what   *)
(* is watched queues the key, so that with the key not queued all that     *)
(* this Reconcile has read of it is as it was.                             *)
(***************************************************************************)
EXTENDS ClusterNetworks, FiniteSetTheorems, TLAPS

Both == {"Network", "RouteAdvertisements"}
Past == {"validate", "network", "routes", "apply", "status"}

\* The types, in the form the steps need.
ClusterTypes ==
    /\ spec \in Specs
    /\ nets \in [Sources -> SUBSET [cidr : CIDRs, disabled : BOOLEAN]]
    /\ \A s \in Sources : nets[s] \subseteq Entries(s)
    /\ there \subseteq Sources /\ "nodes" \in there
    /\ inner \subseteq IPv4
    /\ network \in Networks
    /\ routes \in [api : {"ok", "absent", "forbidden"}, items : SUBSET Items]
    /\ watched \subseteq Both

LocalTypes ==
    /\ pc \in Sources \cup Past \cup {"idle"}
    /\ sn \in Specs \cup {Nothing}
    /\ out \in Seq(IPv4)
    /\ platform \in {"True", "Unknown", "False"}
    /\ shown \in {"True", "Unknown", "False"}
    /\ ds \in [deny : Seq(IPv4), nodeIP : BOOLEAN]
    /\ steady \subseteq Sources \X IPv4

FlagTypes ==
    /\ queue \in BOOLEAN /\ backoff \in BOOLEAN /\ poll \in BOOLEAN
    /\ failed \in BOOLEAN /\ fresh \in BOOLEAN
    /\ budget \in 0 .. MaxDisturb

\* The sources that this Reconcile has read.
HasRead == CASE pc \in {"idle", "config"} -> {}
             [] pc = "nodes" -> {"config"}
             [] pc = "service" -> {"config", "nodes"}
             [] pc = "calico" -> {"config", "nodes", "service"}
             [] pc = "cilium" -> {"config", "nodes", "service", "calico"}
             [] OTHER -> Sources

\* What makes DenyComplete inductive: steady is what sources still have, and of the
\* ones already read the list has it.
ListComplete ==
    /\ steady \subseteq Offered(nets, there)
    /\ \A o \in steady : o[1] \in HasRead => o[2] \in Range(out)

\* What makes NoSpuriousRoll inductive: a finished list, and the one of the
\* DaemonSet, is the only list of its networks.
Canonical(l) == l = Listed(l)
ListCanonical == (pc \in Past => Canonical(out)) /\ Canonical(ds.deny)

\* What makes AtRestCurrent inductive: whatever overtakes this Reconcile, of what is
\* watched, queues the key again.
Undisturbed ==
    ~queue =>
        /\ pc # "idle" =>
              /\ sn = spec /\ ~Invalid(spec)
              /\ (spec.forbidden \cup spec.underlay) \cap IPv4 \subseteq Range(out)
        /\ "nodes" \in HasRead => Of(nets, "nodes") \subseteq Range(out)
        /\ pc \in Past \ {"validate"} => ~OnUnderlay(spec)
        /\ watched = Both =>
              /\ pc = "routes" => classifyNetwork(network) = "True"
              /\ pc \in {"apply", "status"} /\ platform = "True" => Actual = "True"

\* Once it is applied, the DaemonSet is as rendered: only Reconcile writes it.
Applied == pc = "status" => ds = Rendered

\* The inductive invariant.
Inv == /\ ClusterTypes /\ LocalTypes /\ FlagTypes
       /\ ListComplete /\ ListCanonical
       /\ Undisturbed /\ Applied /\ AtRestCurrent

----------------------------------------------------------------------------
(* Lists                                                                   *)

Ascending(l) == \A i, j \in DOMAIN l : i < j => l[i] < l[j]

\* Induction takes the form of a smallest counterexample.
LEMMA Smallest == ASSUME NEW S \in SUBSET Nat, S # {}
                  PROVE  \E m \in S : \A k \in S : m <= k
<1>1. PICK m \in S : \A k \in S : <<k, m>> \notin OpToRel(<, Nat)
  BY NatLessThanWellFounded, WFMin, Zenon
<1>2. \A k \in S : ~(k < m)
  BY <1>1, Zenon DEF OpToRel
<1> QED
  BY <1>2

\* A list of a set's elements has them all.
LEMMA SeqOfSet ==
    ASSUME NEW S, IsFiniteSet(S), NEW l \in Listings(S)
    PROVE  l \in Seq(S) /\ Range(l) = S
<1>1. Cardinality(S) \in Nat
  BY FS_CardinalityType
<1>2. /\ l \in [1 .. Cardinality(S) -> S]
      /\ \A x \in S : \E i \in 1 .. Cardinality(S) : l[i] = x
  BY Zenon DEF Listings, Bijection, Surjection
<1> QED
  BY <1>1, <1>2 DEF Range

\* Every finite set of numbers can be sorted.
LEMMA Sortable ==
    ASSUME NEW S \in SUBSET Nat, IsFiniteSet(S)
    PROVE  \E l \in Listings(S) : Ascending(l)
<1> DEFINE Can(T) == \E l \in Listings(T) : Ascending(l)
           Cannot == {n \in Nat : \E T \in SUBSET Nat :
                         IsFiniteSet(T) /\ Cardinality(T) = n /\ ~Can(T)}
<1> SUFFICES ASSUME ~Can(S) PROVE FALSE
  OBVIOUS
<1>1. Cannot # {}
  BY FS_CardinalityType
<1>2. PICK n \in Cannot : \A k \in Cannot : n <= k
  <2> HIDE DEF Cannot
  <2>1. Cannot \in SUBSET Nat
    BY DEF Cannot
  <2> QED
    BY <1>1, <2>1, Smallest
<1>3. PICK T \in SUBSET Nat : IsFiniteSet(T) /\ Cardinality(T) = n /\ ~Can(T)
  BY <1>2
<1>4. CASE T = {}
  <2>1. n = 0
    BY <1>3, <1>4, FS_EmptySet
  <2>2. <<>> \in Listings(T)
    BY <1>3, <1>4, <2>1 DEF Listings, Bijection, Injection, Surjection, IsInjective
  <2>3. Ascending(<<>>)
    BY DEF Ascending
  <2> QED
    BY <1>3, <2>2, <2>3
<1>5. CASE T # {}
  <2>0. n \in Nat
    BY <1>2
  <2>1. PICK m \in T : \A k \in T : m <= k
    BY <1>5, Smallest
  <2> DEFINE U == T \ {m}
  <2>2. IsFiniteSet(U) /\ Cardinality(U) = n - 1 /\ n - 1 \in Nat
    <3>1. IsFiniteSet(U) /\ Cardinality(U) = Cardinality(T) - 1
      BY <1>3, <2>1, FS_RemoveElement
    <3>2. Cardinality(U) \in Nat
      BY <3>1, FS_CardinalityType
    <3> QED
      BY <1>3, <3>1, <3>2
  <2>3. Can(U)
    <3>1. n - 1 \notin Cannot
      <4> HIDE DEF Cannot
      <4> QED
        BY <1>2, <2>2, <2>0
    <3> QED
      BY <2>2, <3>1
  <2>4. PICK l \in Listings(U) : Ascending(l)
    BY <2>3
  <2> DEFINE k == [i \in 1 .. n |-> IF i = 1 THEN m ELSE l[i - 1]]
  <2>5. /\ l \in [1 .. n - 1 -> U]
        /\ \A x \in U : \E i \in 1 .. n - 1 : l[i] = x
        /\ \A i, j \in 1 .. n - 1 : i < j => l[i] < l[j]
    BY <2>2, <2>4, Zenon DEF Listings, Bijection, Surjection, Ascending
  <2>6. \A i \in 1 .. n : i # 1 => i - 1 \in 1 .. n - 1
    BY <2>2
  <2>7. k \in [1 .. n -> T]
    BY <2>5, <2>6
  <2>8. \A i, j \in 1 .. n : i < j => k[i] < k[j]
    <3> SUFFICES ASSUME NEW i \in 1 .. n, NEW j \in 1 .. n, i < j
                 PROVE  k[i] < k[j]
      OBVIOUS
    <3>1. k[j] = l[j - 1] /\ j - 1 \in 1 .. n - 1
      BY <2>6
    <3>2. CASE i = 1
      <4>1. l[j - 1] \in T /\ l[j - 1] # m /\ T \subseteq Nat
        BY <2>5, <3>1
      <4>2. k[i] = m
        BY <3>2
      <4>3. m <= l[j - 1] /\ m \in Nat /\ l[j - 1] \in Nat
        BY <2>1, <4>1, Zenon
      <4>4. m < l[j - 1]
        BY <4>1, <4>3
      <4> HIDE DEF k
      <4> QED
        BY <3>1, <4>2, <4>4
    <3>3. CASE i # 1
      <4>1. k[i] = l[i - 1] /\ i - 1 \in 1 .. n - 1
        BY <2>6, <3>3
      <4> HIDE DEF k
      <4> QED
        BY <2>5, <3>1, <4>1
    <3> QED
      BY <3>2, <3>3
  <2>9. k \in Injection(1 .. n, T)
    <3>1. \A i \in 1 .. n : k[i] \in Nat
      BY <2>7, Zenon
    <3> HIDE DEF k
    <3>2. \A i, j \in 1 .. n : k[i] = k[j] => i = j
      BY <2>8, <3>1
    <3> QED
      BY <2>7, <3>2 DEF Injection, IsInjective
  <2>10. k \in Listings(T)
    <3>1. ASSUME NEW x \in T PROVE \E i \in 1 .. n : k[i] = x
      <4>1. CASE x = m
        <5>1. 1 \in 1 .. n
          BY <2>2
        <5> QED
          BY <4>1, <5>1
      <4>2. CASE x # m
        <5>1. PICK i \in 1 .. n - 1 : l[i] = x
          BY <2>5, <4>2
        <5>2. i + 1 \in 1 .. n /\ k[i + 1] = x
          BY <2>2, <5>1
        <5> HIDE DEF k
        <5> QED
          BY <5>2
      <4> QED
        BY <4>1, <4>2
    <3> HIDE DEF k
    <3> QED
      BY <1>3, <2>7, <2>9, <3>1, Zenon DEF Listings, Bijection, Surjection
  <2>11. Ascending(k)
    BY <2>8 DEF Ascending
  <2> QED
    BY <1>3, <2>10, <2>11
<1> QED
  BY <1>4, <1>5

\* Sorted lists the elements of a set.
LEMMA SortedLists ==
    ASSUME NEW S \in SUBSET IPv4
    PROVE  Sorted(S) \in Seq(S) /\ Range(Sorted(S)) = S
<1>1. S \in SUBSET Nat /\ IsFiniteSet(S)
  BY NetworksAssumption, FS_Subset, Zenon
<1>2. Sorted(S) \in Listings(S)
  BY <1>1, Sortable, Zenon DEF Sorted, Ascending
<1> QED
  BY <1>1, <1>2, SeqOfSet

\* Concatenation joins the elements.
LEMMA JoinedLists ==
    ASSUME NEW a \in Seq(IPv4), NEW b \in Seq(IPv4)
    PROVE  a \o b \in Seq(IPv4) /\ Range(a \o b) = Range(a) \cup Range(b)
<1>1. a \o b \in Seq(IPv4)
  OBVIOUS
<1>2. ASSUME NEW x \in Range(a \o b) PROVE x \in Range(a) \cup Range(b)
  <2>1. PICK i \in 1 .. Len(a) + Len(b) : x = (a \o b)[i]
    BY <1>2 DEF Range
  <2>2. CASE i <= Len(a)
    BY <2>1, <2>2 DEF Range
  <2>3. CASE i > Len(a)
    <3>1. i - Len(a) \in 1 .. Len(b) /\ x = b[i - Len(a)]
      BY <2>1, <2>3
    <3> QED
      BY <3>1 DEF Range
  <2> QED
    BY <2>2, <2>3
<1>3. ASSUME NEW x \in Range(a) PROVE x \in Range(a \o b)
  <2>1. PICK i \in 1 .. Len(a) : x = a[i]
    BY <1>3 DEF Range
  <2>2. i \in 1 .. Len(a \o b) /\ x = (a \o b)[i]
    BY <2>1
  <2> QED
    BY <1>1, <2>2 DEF Range
<1>4. ASSUME NEW x \in Range(b) PROVE x \in Range(a \o b)
  <2>1. PICK i \in 1 .. Len(b) : x = b[i]
    BY <1>4 DEF Range
  <2>2. Len(a) + i \in 1 .. Len(a \o b) /\ x = (a \o b)[Len(a) + i]
    BY <2>1
  <2> QED
    BY <1>1, <2>2 DEF Range
<1> QED
  BY <1>1, <1>2, <1>3, <1>4

\* dedupe and slices.Sort keep the elements, and a list they made is the only one
\* they make of its elements.
LEMMA ListedLists ==
    ASSUME NEW o \in Seq(IPv4)
    PROVE  /\ Listed(o) \in Seq(IPv4) /\ Range(Listed(o)) = Range(o)
           /\ Canonical(Listed(o))
<1>1. Range(o) \in SUBSET IPv4
  BY DEF Range
<1>2. Listed(o) \in Seq(Range(o)) /\ Range(Listed(o)) = Range(o)
  BY <1>1, SortedLists DEF Listed
<1>3. Listed(o) \in Seq(IPv4)
  BY <1>1, <1>2
<1>4. Listed(Listed(o)) = Listed(o)
  BY <1>2, Zenon DEF Listed
<1> QED
  BY <1>2, <1>3, <1>4, Zenon DEF Canonical

\* The empty list is sorted.
LEMMA EmptyList == <<>> \in Seq(IPv4) /\ Range(<<>>) = {} /\ Canonical(<<>>)
<1>1. <<>> \in Seq(IPv4) /\ Range(<<>>) = {}
  BY DEF Range
<1>2. Sorted({}) \in Seq({})
  BY SortedLists
<1>3. Sorted({}) = <<>>
  BY <1>2
<1> QED
  BY <1>1, <1>3, Zenon DEF Canonical, Listed

\* What a source contributes are IPv4 prefixes.
LEMMA OfType == ASSUME ClusterTypes, NEW s \in Sources PROVE Of(nets, s) \in SUBSET IPv4
BY DEF Of

\* Reading a source adds what it contributes to the list; the last one sorts it.
LEMMA ReadLists ==
    ASSUME ClusterTypes, LocalTypes, Read
    PROVE  /\ out' \in Seq(IPv4)
           /\ Range(out') = Range(out) \cup (IF pc \in there THEN Of(nets, pc) ELSE {})
           /\ pc = "cilium" => Canonical(out')
<1> DEFINE S == IF pc \in there THEN Of(nets, pc) ELSE {}
<1>1. S \in SUBSET IPv4 /\ IsFiniteSet(S)
  <2>1. pc \in Sources
    BY DEF Read
  <2>2. S \in SUBSET IPv4
    BY <2>1, OfType
  <2> HIDE DEF S
  <2> QED
    BY <2>2, NetworksAssumption, FS_Subset, Zenon
<1>2. PICK items \in Listings(S) :
         out' = IF pc = "cilium" THEN Listed(out \o items) ELSE out \o items
  BY Zenon DEF Read
<1> HIDE DEF S
<1>3. items \in Seq(IPv4) /\ Range(items) = S
  <2>1. items \in Seq(S) /\ Range(items) = S
    BY <1>1, SeqOfSet, Zenon
  <2> QED
    BY <1>1, <2>1
<1>4. out \o items \in Seq(IPv4) /\ Range(out \o items) = Range(out) \cup S
  BY <1>3, JoinedLists, Zenon DEF LocalTypes
<1>5. out' \in Seq(IPv4) /\ Range(out') = Range(out) \cup S
  BY <1>2, <1>4, ListedLists, Zenon
<1>6. pc = "cilium" => Canonical(out')
  BY <1>2, <1>4, ListedLists, Zenon
<1> QED
  BY <1>5, <1>6, Zenon DEF S

\* The list Reconcile starts with is the spec's.
LEMMA SpecLists ==
    ASSUME ClusterTypes, Get
    PROVE  /\ out' \in Seq(IPv4)
           /\ Range(out') = (spec.forbidden \cup spec.underlay) \cap IPv4
<1> DEFINE a == Sorted(spec.forbidden \cap IPv4)
           b == Sorted(spec.underlay \cap IPv4)
<1>1. /\ a \in Seq(spec.forbidden \cap IPv4) /\ Range(a) = spec.forbidden \cap IPv4
      /\ b \in Seq(spec.underlay \cap IPv4) /\ Range(b) = spec.underlay \cap IPv4
  BY SortedLists, Zenon
<1>2. out' = a \o b
  BY DEF Get
<1> HIDE DEF a, b
<1>3. a \in Seq(IPv4) /\ b \in Seq(IPv4)
  BY <1>1
<1> QED
  BY <1>1, <1>2, <1>3, JoinedLists

----------------------------------------------------------------------------
(* Steps                                                                   *)

\* Reconcile ends in an error: the one of a refused spec, of a read, of the
\* validation or of apply, which may have written the DaemonSet.
Errs == /\ Return /\ backoff' = TRUE
        /\ queue' \in BOOLEAN /\ failed' \in BOOLEAN
        /\ \/ UNCHANGED ds
           \/ pc = "apply" /\ ds' = Rendered
        /\ UNCHANGED <<cluster, watched, poll, shown>>

\* The validation finds nothing.
Validated == /\ pc = "validate" /\ ~OnUnderlay(sn) /\ pc' = "network"
             /\ UNCHANGED <<cluster, watched, sn, fresh, out, platform, sched, ds,
                            status, steady>>

\* Every step is one of these.
LEMMA StepCases ==
    ASSUME FlagTypes, [Next]_vars
    PROVE  \/ Change \/ Get \/ Read \/ Validated \/ detectPodEgressPlatform
           \/ Apply \/ UpdateStatus \/ StatusError \/ Timer \/ Restart
           \/ Errs \/ UNCHANGED vars
<1>1. ASSUME NEW marked \in BOOLEAN, NEW event \in BOOLEAN, Fail(marked, event)
      PROVE  /\ Return /\ backoff' = TRUE
             /\ queue' \in BOOLEAN /\ failed' \in BOOLEAN
             /\ UNCHANGED <<poll, shown>>
  BY <1>1, Zenon DEF Fail, FlagTypes
<1>2. ASSUME NEW event \in BOOLEAN, Refuse(event)
      PROVE  \E marked \in BOOLEAN : Fail(marked, event)
  BY <1>2, Zenon DEF Refuse, FlagTypes
<1>3. CASE GetInvalid
  BY <1>1, <1>2, <1>3, Zenon DEF GetInvalid, Errs
<1>4. CASE ReadError
  BY <1>1, <1>4, Zenon DEF ReadError, Errs, FlagTypes
<1>5. CASE validateNodeIPAdvertisement
  BY <1>1, <1>2, <1>5, Zenon DEF validateNodeIPAdvertisement, Validated, Errs, FlagTypes
<1>6. CASE ApplyError
  <2>1. PICK marked \in BOOLEAN : Fail(marked, queue \/ ds' # ds)
    BY <1>6, Zenon DEF ApplyError, FlagTypes
  <2>2. (queue \/ ds' # ds) \in BOOLEAN
    BY Zenon
  <2> QED
    BY <1>1, <1>6, <2>1, <2>2, Zenon DEF ApplyError, Errs
<1> QED
  BY <1>3, <1>4, <1>5, <1>6, Zenon DEF Next, Worker

\* What a change of the cluster leaves alone, and what is told of it: with the key
\* not queued, nothing watched has changed.
LEMMA ChangeTold ==
    ASSUME ClusterTypes, FlagTypes, Change
    PROVE  /\ UNCHANGED <<watched, pc, sn, out, platform, backoff, poll, ds, status>>
           /\ \/ queue'
              \/ /\ UNCHANGED <<queue, spec, inner, Of(nets, "nodes")>>
                 /\ watched = Both => UNCHANGED <<network, routes>>
<1>1. UNCHANGED <<watched, pc, sn, out, platform, backoff, poll, ds, status>>
  BY Zenon DEF Change
<1> DEFINE Quiet == /\ UNCHANGED <<queue, spec, inner, Of(nets, "nodes")>>
                    /\ watched = Both => UNCHANGED <<network, routes>>
<1>2. ASSUME NEW s \in Specs, Edit(s) PROVE queue'
  BY <1>2, Zenon DEF Edit, Event
<1>3. ASSUME NEW s \in Sources, NEW e \in Entries(s), Allocate(s, e)
      PROVE  queue' \/ Quiet
  <2>1. CASE s = "nodes"
    BY <1>3, <2>1, Zenon DEF Allocate, Event
  <2>2. CASE s # "nodes"
    <3>1. nets'["nodes"] = nets["nodes"]
      BY <1>3, <2>2 DEF Allocate, ClusterTypes, Sources
    <3>2. UNCHANGED <<queue, spec, inner, network, routes>>
      BY <1>3, <2>2, Zenon DEF Allocate, Event, FlagTypes
    <3> QED
      BY <3>1, <3>2, Zenon DEF Of
  <2> QED
    BY <2>1, <2>2
<1>4. ASSUME NEW s \in Sources, Toggle(s) PROVE Quiet
  BY <1>4, Zenon DEF Toggle, Event, Of, FlagTypes
<1>5. ASSUME NEW c \in IPv4, NodeAddress(c) PROVE queue'
  BY <1>5, Zenon DEF NodeAddress, Event
<1>6. ASSUME NEW n \in Networks, SetNetwork(n) PROVE queue' \/ Quiet
  <2>1. UNCHANGED <<spec, inner, nets>> /\ queue' = (queue \/ "Network" \in watched)
    BY <1>6, Zenon DEF SetNetwork, Event
  <2>2. CASE "Network" \in watched
    BY <2>1, <2>2, Zenon
  <2>3. CASE "Network" \notin watched
    <3>1. UNCHANGED queue /\ watched # Both
      BY <2>1, <2>3, Zenon DEF FlagTypes, Both
    <3> QED
      BY <2>1, <3>1, Zenon DEF Of
  <2> QED
    BY <2>2, <2>3
<1>7. ASSUME NEW r, SetRoutes(r) PROVE queue' \/ Quiet
  <2>1. /\ UNCHANGED <<spec, inner, nets>>
        /\ queue' = (queue \/ "RouteAdvertisements" \in watched)
    BY <1>7, Zenon DEF SetRoutes, Event
  <2>2. CASE "RouteAdvertisements" \in watched
    BY <2>1, <2>2, Zenon
  <2>3. CASE "RouteAdvertisements" \notin watched
    <3>1. UNCHANGED queue /\ watched # Both
      BY <2>1, <2>3, Zenon DEF FlagTypes, Both
    <3> QED
      BY <2>1, <3>1, Zenon DEF Of
  <2> QED
    BY <2>2, <2>3
<1> HIDE DEF Quiet
<1>8. queue' \/ Quiet
  BY <1>2, <1>3, <1>4, <1>5, <1>6, <1>7, Zenon DEF Change
<1> QED
  BY <1>1, <1>8, Zenon DEF Quiet

\* Every step keeps the cluster's types.
LEMMA ClusterStep == ASSUME Inv, [Next]_vars PROVE ClusterTypes'
<1> USE DEF Inv, ClusterTypes
<1>1. ASSUME NEW s \in Specs, Edit(s), UNCHANGED watched PROVE ClusterTypes'
  BY <1>1, Zenon DEF Edit, Entries
<1>2. ASSUME NEW s \in Sources, NEW e \in Entries(s), Allocate(s, e), UNCHANGED watched
      PROVE  ClusterTypes'
  <2>1. e \in [cidr : CIDRs, disabled : BOOLEAN]
    BY Zenon DEF Entries
  <2>2. nets' = [nets EXCEPT ![s] = IF e \in nets[s] THEN nets[s] \ {e}
                                     ELSE nets[s] \cup {e}]
    BY <1>2 DEF Allocate
  <2>3. nets' \in [Sources -> SUBSET [cidr : CIDRs, disabled : BOOLEAN]]
    BY <2>1, <2>2
  <2>4. ASSUME NEW t \in Sources PROVE nets'[t] \subseteq Entries(t)
    BY <2>2
  <2> QED
    BY <1>2, <2>3, <2>4, Zenon DEF Allocate, Entries
<1>3. ASSUME NEW s \in Sources, Toggle(s), UNCHANGED watched PROVE ClusterTypes'
  BY <1>3, Zenon DEF Toggle, Entries
<1>4. ASSUME NEW c \in IPv4, NodeAddress(c), UNCHANGED watched PROVE ClusterTypes'
  BY <1>4, Zenon DEF NodeAddress, Entries
<1>5. ASSUME NEW n \in Networks, SetNetwork(n), UNCHANGED watched PROVE ClusterTypes'
  BY <1>5, Zenon DEF SetNetwork, Entries
<1>6. ASSUME NEW a \in {"ok", "absent", "forbidden"}, NEW i \in SUBSET Items,
             SetRoutes([api |-> a, items |-> i]), UNCHANGED watched
      PROVE  ClusterTypes'
  BY <1>6, Zenon DEF SetRoutes, Entries
<1>7. CASE Change
  BY <1>1, <1>2, <1>3, <1>4, <1>5, <1>6, <1>7, Zenon DEF Change
<1>8. CASE UNCHANGED <<cluster, watched>>
  BY <1>8, Zenon DEF cluster, Entries
<1>9. ASSUME \/ Get \/ Read \/ Validated \/ detectPodEgressPlatform \/ Apply
             \/ UpdateStatus \/ StatusError \/ Timer \/ Errs \/ UNCHANGED vars
      PROVE  UNCHANGED <<cluster, watched>>
  BY <1>9, Zenon DEF Get, Read, Validated, detectPodEgressPlatform, Apply, UpdateStatus,
     StatusError, Timer, Errs, vars
<1>10. CASE Restart
  BY <1>10, Zenon DEF Restart, Kinds, Both, cluster, Entries
<1> QED
  BY StepCases, <1>7, <1>8, <1>9, <1>10, Zenon

\* Every step keeps the types of the flags and of the bound.
LEMMA FlagStep == ASSUME Inv, [Next]_vars PROVE FlagTypes'
<1> USE DEF Inv, FlagTypes
<1>1. budget' \in 0 .. MaxDisturb
  <2>1. Calm \/ Disturb \/ UNCHANGED vars
    BY Zenon DEF Next, Worker, Change, Get, GetInvalid, Refuse, Read, ReadError,
       validateNodeIPAdvertisement, detectPodEgressPlatform, Apply, ApplyError,
       UpdateStatus, StatusError, Timer, Restart
  <2>2. Disturb => budget' \in 0 .. MaxDisturb
    BY NetworksAssumption DEF Disturb
  <2> QED
    BY <2>1, <2>2 DEF Calm, vars
<1>2. /\ queue' \in BOOLEAN /\ backoff' \in BOOLEAN /\ poll' \in BOOLEAN
      /\ failed' \in BOOLEAN /\ fresh' \in BOOLEAN
  <2>1. CASE Change
    BY <2>1, Zenon DEF Change, Edit, Toggle, Allocate, NodeAddress, SetNetwork,
       SetRoutes, Event, status
  <2>2. CASE Get \/ Read \/ Validated \/ detectPodEgressPlatform
    BY <2>2, Zenon DEF Get, Read, Validated, detectPodEgressPlatform, sched, status
  <2>3. CASE Apply \/ UpdateStatus \/ StatusError
    BY <2>3, Zenon DEF Apply, UpdateStatus, StatusError, Return, Event, status
  <2>4. CASE Timer \/ Restart \/ Errs
    BY <2>4, Zenon DEF Timer, Restart, Errs, Return, local, status
  <2>5. CASE UNCHANGED vars
    BY <2>5, Zenon DEF vars, local, sched, status
  <2> QED
    BY StepCases, <2>1, <2>2, <2>3, <2>4, <2>5, Zenon
<1> QED
  BY <1>1, <1>2, Zenon

\* What Reconcile leaves behind when it returns.
LEMMA Returned ==
    ASSUME Return
    PROVE  /\ pc' = "idle" /\ sn' = Nothing /\ out' = <<>> /\ platform' = "Unknown"
           /\ steady' = {}
BY DEF Return

\* Every step keeps the types of Reconcile's variables and of what it writes.
LEMMA LocalStep == ASSUME Inv, [Next]_vars PROVE LocalTypes'
<1> USE DEF Inv, LocalTypes
<1>0. Rendered \in [deny : Seq(IPv4), nodeIP : BOOLEAN]
  <2>1. \A s \in Specs : s.nodeIP \in BOOLEAN
    BY NetworksAssumption
  <2>2. Nothing.nodeIP = FALSE
    BY DEF Nothing
  <2>3. sn.nodeIP \in BOOLEAN
    BY <2>1, <2>2, Zenon
  <2> QED
    BY <2>3 DEF Rendered
<1>1. ASSUME Return, UNCHANGED ds \/ ds' = Rendered, shown' \in {shown, platform}
      PROVE  LocalTypes'
  BY <1>0, <1>1, EmptyList, Returned
<1>2. CASE Change
  <2>1. steady' \subseteq steady
    BY <1>2, Zenon DEF Change, Edit, Toggle, Allocate, NodeAddress, SetNetwork, SetRoutes
  <2> QED
    BY <1>2, <2>1, ChangeTold DEF status
<1>3. CASE Get
  <2>1. steady' \subseteq Sources \X IPv4
    BY <1>3, Zenon DEF Get, Offered, ClusterTypes
  <2>2. sn' \in Specs /\ pc' = "config" /\ UNCHANGED <<platform, ds, shown>>
    BY <1>3 DEF Get, ClusterTypes, status
  <2> QED
    BY <1>3, <2>1, <2>2, SpecLists DEF Sources
<1>4. CASE Read
  <2>1. pc' \in Sources \cup Past
    BY <1>4 DEF Read, Sources, Following, Past
  <2> QED
    BY <1>4, <2>1, ReadLists DEF Read, status
<1>5. CASE Validated
  BY <1>5 DEF Validated, Past, status
<1>6. CASE detectPodEgressPlatform
  <2>1. platform' \in {"True", "Unknown", "False"} /\ pc' \in {"routes", "apply"}
    BY <1>6, Zenon DEF detectPodEgressPlatform, classifyNetwork, classifyRoutes
  <2> QED
    BY <1>6, <2>1 DEF detectPodEgressPlatform, Past, status
<1>7. CASE Apply
  BY <1>0, <1>7 DEF Apply, Past, status
<1>8. CASE UpdateStatus \/ StatusError \/ Errs
  BY <1>1, <1>8, Zenon DEF UpdateStatus, StatusError, Errs, status
<1>9. CASE Restart
  BY <1>1, <1>9, Zenon DEF Restart, status
<1>10. CASE Timer \/ UNCHANGED vars
  <2>1. UNCHANGED <<pc, sn, out, platform, shown, ds, steady>>
    BY <1>10, Zenon DEF Timer, vars, local, status
  <2> QED
    BY <2>1
<1> QED
  BY StepCases, <1>2, <1>3, <1>4, <1>5, <1>6, <1>7, <1>8, <1>9, <1>10, Zenon

\* Every step keeps the list complete: a source is read as it is, and steady loses
\* what it no longer has.
LEMMA CompleteStep == ASSUME Inv, [Next]_vars PROVE ListComplete'
<1> USE DEF Inv, ListComplete
<1>1. CASE Return
  BY <1>1, Returned
<1>2. CASE Change
  <2>1. steady' \subseteq steady /\ steady' \subseteq Offered(nets', there')
    BY <1>2, Zenon DEF Change, Edit, Toggle, Allocate, NodeAddress, SetNetwork, SetRoutes
  <2>2. UNCHANGED <<pc, out>>
    BY <1>2, Zenon DEF Change
  <2> QED
    BY <2>1, <2>2 DEF HasRead, Offered, Of
<1>3. CASE Get
  BY <1>3 DEF Get, HasRead, cluster, Offered, Of
<1>4. CASE Read
  <2>1. UNCHANGED <<nets, there, steady>> /\ pc \in Sources
    BY <1>4, Zenon DEF Read, cluster
  <2>2. steady' \subseteq Offered(nets', there')
    BY <2>1, Zenon DEF Offered, Of
  <2>3. HasRead' = HasRead \cup {pc}
    BY <1>4, <2>1 DEF Read, Following, HasRead, Sources
  <2>4. ASSUME NEW o \in steady, o[1] \in HasRead' PROVE o[2] \in Range(out')
    <3>1. CASE o[1] \in HasRead
      BY <1>4, <3>1, ReadLists
    <3>2. CASE o[1] = pc
      <4>1. pc \in there /\ o[2] \in Of(nets, pc)
        BY <3>2 DEF Offered
      <4> QED
        BY <1>4, <4>1, ReadLists
    <3> QED
      BY <2>3, <2>4, <3>1, <3>2
  <2> QED
    BY <2>1, <2>2, <2>4
<1>5. CASE Validated \/ detectPodEgressPlatform \/ Apply
  <2>1. UNCHANGED <<nets, there, steady, out>> /\ HasRead' = HasRead
    BY <1>5 DEF Validated, detectPodEgressPlatform, Apply, HasRead, cluster
  <2> QED
    BY <2>1 DEF Offered, Of
<1>6. CASE UpdateStatus \/ StatusError \/ Errs \/ Restart
  BY <1>1, <1>6, Zenon DEF UpdateStatus, StatusError, Errs, Restart
<1>7. CASE Timer \/ UNCHANGED vars
  BY <1>7 DEF Timer, vars, cluster, local, HasRead, Offered, Of
<1> QED
  BY StepCases, <1>2, <1>3, <1>4, <1>5, <1>6, <1>7, Zenon

\* Every step keeps finished lists sorted.
LEMMA CanonicalStep == ASSUME Inv, [Next]_vars PROVE ListCanonical'
<1> USE DEF Inv, ListCanonical
<1>1. ASSUME UNCHANGED ds \/ (pc = "apply" /\ ds' = Rendered) PROVE Canonical(ds'.deny)
  BY <1>1 DEF Rendered, Past
<1>2. ASSUME Return, UNCHANGED ds \/ (pc = "apply" /\ ds' = Rendered)
      PROVE  ListCanonical'
  BY <1>1, <1>2, Returned DEF Past, Canonical, Listed
<1>3. CASE Read
  <2>1. pc' \in Past => Canonical(out')
    BY <1>3, ReadLists DEF Read, Following, Sources, Past
  <2> QED
    BY <1>1, <1>3, <2>1, Zenon DEF Read, Canonical, Listed
<1>4. CASE Get
  BY <1>1, <1>4 DEF Get, Past, Canonical, Listed
<1>5. CASE Validated \/ detectPodEgressPlatform \/ Apply
  <2>1. pc \in Past /\ UNCHANGED out
    BY <1>5 DEF Validated, detectPodEgressPlatform, Apply, Past
  <2>2. UNCHANGED ds \/ (pc = "apply" /\ ds' = Rendered)
    BY <1>5, Zenon DEF Validated, detectPodEgressPlatform, Apply
  <2> QED
    BY <1>1, <2>1, <2>2, Zenon DEF Canonical, Listed
<1>6. CASE UpdateStatus \/ StatusError \/ Errs \/ Restart
  BY <1>2, <1>6, Zenon DEF UpdateStatus, StatusError, Errs, Restart
<1>7. CASE UNCHANGED <<pc, out, ds>>
  BY <1>1, <1>7, Zenon DEF Canonical, Listed
<1>8. ASSUME Change \/ Timer \/ UNCHANGED vars PROVE UNCHANGED <<pc, out, ds>>
  BY <1>8, Zenon DEF Change, Timer, vars, local
<1> QED
  BY StepCases, <1>3, <1>4, <1>5, <1>6, <1>7, <1>8, Zenon

\* Every step keeps Reconcile undisturbed, or queues the key.
LEMMA UndisturbedStep == ASSUME Inv, [Next]_vars PROVE Undisturbed'
<1> USE DEF Inv
<1>1. CASE queue'
  BY <1>1 DEF Undisturbed
<1>2. CASE Return
  BY <1>2, Returned DEF Undisturbed, HasRead, Past
<1>3. CASE Change
  <2> SUFFICES ASSUME ~queue' PROVE Undisturbed'
    BY <1>1
  <2>1. /\ UNCHANGED <<watched, pc, sn, out, platform>>
        /\ UNCHANGED <<queue, spec, inner, Of(nets, "nodes")>>
        /\ watched = Both => UNCHANGED <<network, routes>>
    BY <1>3, ChangeTold, Zenon
  <2>2. HasRead' = HasRead
    BY <2>1 DEF HasRead
  <2>3. watched = Both => UNCHANGED <<classifyNetwork(network), Actual>>
    BY <2>1 DEF classifyNetwork, Actual, classifyRoutes, hasAcceptedDefaultPodAdvertisement
  <2> QED
    BY <2>1, <2>2, <2>3 DEF Undisturbed, OnUnderlay, Invalid
<1>4. CASE Get
  <2>1. /\ pc' = "config" /\ sn' = spec /\ UNCHANGED <<spec, nets, inner>>
        /\ ~Invalid(spec)
    BY <1>4 DEF Get, cluster
  <2> QED
    BY <1>4, <2>1, SpecLists DEF Undisturbed, HasRead, Past, Invalid
<1>5. CASE Read
  <2>1. /\ UNCHANGED <<spec, nets, inner, sn, queue>> /\ pc \in Sources
        /\ pc' \in (Sources \ {"config"}) \cup {"validate"}
        /\ pc = "nodes" => pc \in there
    BY <1>5 DEF Read, cluster, sched, Following, Sources, ClusterTypes
  <2>2. Range(out) \subseteq Range(out')
        /\ (pc = "nodes" => Of(nets, "nodes") \subseteq Range(out'))
    BY <1>5, <2>1, ReadLists
  <2>3. "nodes" \in HasRead' => pc = "nodes" \/ "nodes" \in HasRead
    BY <1>5, <2>1 DEF Read, Following, HasRead, Sources
  <2>4. ~queue' =>
           /\ sn' = spec' /\ ~Invalid(spec')
           /\ (spec'.forbidden \cup spec'.underlay) \cap IPv4 \subseteq Range(out')
    BY <2>1, <2>2 DEF Undisturbed, Sources
  <2>5. ~queue' /\ "nodes" \in HasRead' => Of(nets', "nodes") \subseteq Range(out')
    BY <2>1, <2>2, <2>3 DEF Undisturbed
  <2>6. pc' \notin Past \ {"validate"}
    BY <2>1 DEF Sources, Past
  <2> QED
    BY <2>4, <2>5, <2>6 DEF Undisturbed, Past, Invalid
<1>6. CASE Validated
  <2>1. /\ UNCHANGED <<spec, nets, inner, sn, out, queue>>
        /\ pc = "validate" /\ pc' = "network"
    BY <1>6 DEF Validated, cluster, sched
  <2>2. ~queue' => ~OnUnderlay(spec)
    BY <1>6, <2>1 DEF Validated, Undisturbed
  <2> QED
    BY <2>1, <2>2 DEF Undisturbed, HasRead, Past, Invalid, OnUnderlay, Of
<1>7. CASE detectPodEgressPlatform
  <2>1. /\ UNCHANGED <<spec, nets, inner, network, routes, sn, out, queue, watched>>
        /\ pc \in {"network", "routes"} /\ pc' \in {"routes", "apply"}
    BY <1>7, Zenon DEF detectPodEgressPlatform, cluster, sched
  <2>2. ASSUME ~queue', watched = Both
        PROVE  /\ pc' = "routes" => classifyNetwork(network) = "True"
               /\ pc' = "apply" /\ platform' = "True" => Actual = "True"
    BY <1>7, <2>1, <2>2 DEF detectPodEgressPlatform, Undisturbed, Actual
  <2>3. UNCHANGED <<classifyNetwork(network), Actual>>
    BY <2>1 DEF classifyNetwork, Actual, classifyRoutes, hasAcceptedDefaultPodAdvertisement
  <2> QED
    BY <2>1, <2>2, <2>3 DEF Undisturbed, HasRead, Past, Invalid, OnUnderlay, Of
<1>8. CASE Apply
  <2>1. /\ UNCHANGED <<spec, nets, inner, network, routes, sn, out, platform, watched>>
        /\ pc = "apply" /\ pc' = "status"
        /\ ~queue' => ~queue
    BY <1>8, Zenon DEF Apply, Event, cluster
  <2>2. UNCHANGED Actual
    BY <2>1 DEF classifyNetwork, Actual, classifyRoutes, hasAcceptedDefaultPodAdvertisement
  <2> QED
    BY <2>1, <2>2 DEF Undisturbed, HasRead, Past, Invalid, OnUnderlay, Of
<1>9. CASE UpdateStatus \/ StatusError \/ Errs \/ Restart
  BY <1>2, <1>9, Zenon DEF UpdateStatus, StatusError, Errs, Restart
<1>10. CASE Timer
  BY <1>1, <1>10, Zenon DEF Timer
<1>11. CASE UNCHANGED vars
  BY <1>11 DEF vars, cluster, local, sched, Undisturbed, HasRead, Invalid, OnUnderlay, Of,
     classifyNetwork, Actual, classifyRoutes, hasAcceptedDefaultPodAdvertisement
<1> QED
  BY StepCases, <1>3, <1>4, <1>5, <1>6, <1>7, <1>8, <1>9, <1>10, <1>11, Zenon

\* Every step keeps the DaemonSet as it was applied.
LEMMA AppliedStep == ASSUME Inv, [Next]_vars PROVE Applied'
<1> USE DEF Inv, Applied
<1>1. CASE Return
  BY <1>1, Returned
<1>2. CASE Apply
  BY <1>2 DEF Apply, Rendered
<1>3. CASE Get \/ Read \/ Validated \/ detectPodEgressPlatform
  <2>1. pc' # "status"
    BY <1>3 DEF Get, Read, Validated, detectPodEgressPlatform, Following, Sources
  <2> QED
    BY <2>1
<1>4. CASE UpdateStatus \/ StatusError \/ Errs \/ Restart
  BY <1>1, <1>4, Zenon DEF UpdateStatus, StatusError, Errs, Restart
<1>5. CASE UNCHANGED <<pc, sn, out, ds>>
  BY <1>5 DEF Rendered
<1>6. ASSUME Change \/ Timer \/ UNCHANGED vars PROVE UNCHANGED <<pc, sn, out, ds>>
  BY <1>6, Zenon DEF Change, Timer, vars, local
<1> QED
  BY StepCases, <1>2, <1>3, <1>4, <1>5, <1>6, Zenon

\* Every step keeps a worker at rest current: it gets there only through an
\* UpdateStatus that nothing has overtaken, and leaves by any event.
LEMMA RestStep == ASSUME Inv, [Next]_vars PROVE AtRestCurrent'
<1> USE DEF Inv
<1> SUFFICES ASSUME pc' = "idle", ~queue', ~backoff' PROVE AtRestCurrent'
  BY DEF AtRestCurrent
<1>1. CASE Change
  <2>1. /\ UNCHANGED <<watched, pc, backoff, poll, ds, failed, shown>>
        /\ UNCHANGED <<queue, spec, inner, Of(nets, "nodes")>>
        /\ watched = Both => UNCHANGED <<network, routes>>
    BY <1>1, ChangeTold, Zenon DEF status
  <2>2. UNCHANGED Told
    BY <2>1 DEF Told
  <2>3. watched = Both => UNCHANGED Actual
    BY <2>1 DEF classifyNetwork, Actual, classifyRoutes, hasAcceptedDefaultPodAdvertisement
  <2> QED
    BY <2>1, <2>2, <2>3 DEF AtRestCurrent, OnUnderlay, Invalid, Both
<1>2. CASE UpdateStatus
  <2>1. /\ pc = "status" /\ ~queue /\ ~failed /\ shown = platform
        /\ ~failed' /\ shown' = platform
        /\ poll' \/ platform = "True"
        /\ UNCHANGED <<cluster, watched, ds>>
    BY <1>2, Zenon DEF UpdateStatus, Event
  <2>2. /\ ~Invalid(spec) /\ ~OnUnderlay(spec) /\ ds = Rendered /\ sn = spec
        /\ Told \subseteq Range(out)
        /\ watched = Both /\ platform = "True" => Actual = "True"
    <3>1. HasRead = Sources
      BY <2>1 DEF HasRead, Sources
    <3> QED
      BY <2>1, <3>1 DEF Undisturbed, Applied, Told, Past, Sources
  <2>3. ds.nodeIP = spec.nodeIP /\ ds.deny = out
    BY <2>2 DEF Rendered
  <2>4. UNCHANGED <<Told, Actual>>
    BY <2>1 DEF cluster, Told, Of, classifyNetwork, Actual, classifyRoutes,
       hasAcceptedDefaultPodAdvertisement
  <2> QED
    BY <2>1, <2>2, <2>3, <2>4 DEF AtRestCurrent, cluster, OnUnderlay, Invalid, Both
<1>3. ASSUME StatusError \/ Timer \/ Restart \/ Errs PROVE FALSE
  BY <1>3, Zenon DEF StatusError, Timer, Restart, Errs
<1>4. ASSUME Get \/ Read \/ Validated \/ detectPodEgressPlatform \/ Apply PROVE FALSE
  BY <1>4 DEF Get, Read, Validated, detectPodEgressPlatform, Apply, Following, Sources
<1>5. CASE UNCHANGED vars
  BY <1>5 DEF vars, cluster, local, sched, status, AtRestCurrent, Invalid, OnUnderlay,
     Told, Of, classifyNetwork, Actual, classifyRoutes, hasAcceptedDefaultPodAdvertisement
<1> QED
  BY StepCases, <1>1, <1>2, <1>3, <1>4, <1>5, Zenon

\* Init establishes the invariant.
LEMMA InitInv == Init => Inv
<1> SUFFICES ASSUME Init PROVE Inv
  OBVIOUS
<1>1. ClusterTypes
  <2>1. SomeEntry \in [cidr : IPv4, disabled : {FALSE}]
    BY NetworksAssumption DEF SomeEntry
  <2>2. nets \in [Sources -> {{SomeEntry}, {}}]
    BY DEF Init
  <2>3. \A s \in Sources : SomeEntry \in Entries(s)
    BY <2>1, NetworksAssumption, Zenon DEF Entries
  <2>4. SomeEntry \in [cidr : CIDRs, disabled : BOOLEAN]
    BY <2>1, NetworksAssumption, Zenon
  <2>5. /\ routes \in [api : {"ok", "absent", "forbidden"}, items : SUBSET Items]
        /\ network \in Networks /\ watched \subseteq Both
    BY DEF Init, Networks, Kinds, Both
  <2>6. there \subseteq Sources /\ "nodes" \in there
    BY DEF Init, Sources
  <2> HIDE DEF SomeEntry
  <2> QED
    BY <2>2, <2>3, <2>4, <2>5, <2>6 DEF Init, ClusterTypes
<1>2. LocalTypes
  BY EmptyList DEF Init, LocalTypes
<1>3. FlagTypes
  <2>1. budget \in 0 .. MaxDisturb
    BY NetworksAssumption DEF Init
  <2> QED
    BY <2>1, Zenon DEF Init, FlagTypes
<1>4. ListComplete /\ Undisturbed /\ Applied /\ AtRestCurrent
  BY DEF Init, ListComplete, Undisturbed, Applied, AtRestCurrent
<1>5. ListCanonical
  BY EmptyList DEF Init, ListCanonical, Past
<1> QED
  BY <1>1, <1>2, <1>3, <1>4, <1>5 DEF Inv

----------------------------------------------------------------------------
\* The invariant holds, for any prefixes, specs, routes and disturbances.
THEOREM Invariance == Spec => []Inv
<1>1. Inv /\ [Next]_vars => Inv'
  BY ClusterStep, LocalStep, FlagStep, CompleteStep, CanonicalStep, UndisturbedStep,
     AppliedStep, RestStep DEF Inv
<1> QED
  BY InitInv, <1>1, PTL DEF Spec

\* Types; in particular, only IPv4 prefixes reach the agents.
THEOREM TypeCorrect == Spec => []TypeOK
<1>1. Inv => TypeOK
  <2> SUFFICES ASSUME Inv PROVE TypeOK
    OBVIOUS
  <2>1. Range(out) \subseteq IPv4 /\ Range(ds.deny) \subseteq IPv4
    BY DEF Inv, LocalTypes, Range
  <2>2. {queue, backoff, poll, failed, fresh, ds.nodeIP} \subseteq BOOLEAN
    BY Zenon DEF Inv, FlagTypes, LocalTypes
  <2>3. routes.items \subseteq Items /\ watched \subseteq {"Network", "RouteAdvertisements"}
    BY DEF Inv, ClusterTypes, Both
  <2> QED
    BY <2>1, <2>2, <2>3 DEF Inv, ClusterTypes, LocalTypes, FlagTypes, TypeOK, Past
<1> QED
  BY Invariance, <1>1, PTL

\* A worker at rest has nothing to do, whatever failed, restarted or changed before:
\* no watched change and no error path of Reconcile is lost.
THEOREM RestIsCurrent == Spec => []AtRestCurrent
<1>1. Inv => AtRestCurrent
  BY DEF Inv
<1> QED
  BY Invariance, <1>1, PTL

\* No network that was there all the while is missing from the list applied.
THEOREM DeniesAll == Spec => DenyComplete
<1>1. Inv /\ [Next]_vars =>
        (pc = "apply" /\ ds' = Rendered => \A o \in steady : o[2] \in Range(ds'.deny))
  <2> SUFFICES ASSUME Inv, pc = "apply", ds' = Rendered, NEW o \in steady
               PROVE  o[2] \in Range(ds'.deny)
    BY Zenon
  <2>1. o[1] \in HasRead
    BY DEF Inv, LocalTypes, HasRead, Sources
  <2> QED
    BY <2>1 DEF Inv, ListComplete, Rendered
<1> QED
  BY Invariance, <1>1, PTL DEF Spec, DenyComplete

\* No order in which sources are read or list their networks rolls the agents.
THEOREM RollsOnlyForNetworks == Spec => NoSpuriousRoll
<1>1. Inv /\ Inv' => (ds'.deny # ds.deny => Range(ds'.deny) # Range(ds.deny))
  BY Zenon DEF Inv, ListCanonical, Canonical, Listed
<1> QED
  BY Invariance, <1>1, PTL DEF Spec, NoSpuriousRoll
=============================================================================
