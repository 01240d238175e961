-------------------------- MODULE ClusterNetworks --------------------------
(***************************************************************************)
(* How the operator's reconcile loop derives the deny list of the agents   *)
(* from the cluster (clusterForbiddenCIDRs), refuses to advertise node IPs *)
(* of the underlay, and classifies the platform (platform.go), while the   *)
(* objects it reads change between its reads, reads fail, and only some of *)
(* the objects are watched.  The ScionNetwork exists all the time;         *)
(* ScionNetworkController models its life, its registrar and its status.   *)
(*                                                                         *)
(* A CIDR is a number, in the order of the strings; a list is a sequence.  *)
(***************************************************************************)
EXTENDS Naturals, FiniteSets, Sequences, Functions

CONSTANTS
    CIDRs,       \* the prefixes in use
    IPv4,        \* those that are IPv4
    Bad,         \* an entry of a spec that is no prefix
    Specs,       \* the specs in use: both lists, and whether to advertise node IPs
    Items,       \* RouteAdvertisements objects, [accepted, exports, networks]
    MaxDisturb   \* bound on disturbances (see Disturb)

Sources == {"config", "nodes", "service", "calico", "cilium"}
Networks == {"absent", "other", "shared", "unadvertised", "enabled"}

ASSUME NetworksAssumption ==
    /\ CIDRs \subseteq Nat /\ IsFiniteSet(CIDRs)
    /\ IPv4 \subseteq CIDRs /\ IPv4 # {} /\ Bad \notin CIDRs
    /\ Specs \subseteq [forbidden : SUBSET (CIDRs \cup {Bad}),
                        underlay : SUBSET (CIDRs \cup {Bad}), nodeIP : BOOLEAN]
    /\ MaxDisturb \in Nat

VARIABLES
    spec,      \* of the ScionNetwork
    nets,      \* nets[s]: entries [cidr, disabled] of a source
    there,     \* sources whose API exists and is readable
    inner,     \* CIDRs that hold the InternalIP of a selected node
    network,   \* the operator.openshift.io Network object, by what it says
    routes,    \* the RouteAdvertisements: their API and the objects
    watched,   \* the optional APIs found at the operator's start
    pc,        \* the next call of Reconcile
    sn,        \* the spec Reconcile works on
    fresh,     \* the ScionNetwork has not been written since it was read
    out,       \* the deny list being built
    platform,  \* the result of detectPodEgressPlatform
    queue,     \* an event has put the key in the work queue
    backoff,   \* an error has, after a delay
    poll,      \* a RequeueAfter is running
    ds,        \* the DaemonSet's SCION_FORBIDDEN_CIDRS and SCION_ADVERTISE_NODE_IP
    failed,    \* status: Degraded with reason ApplyFailed
    shown,     \* status: the platform's result it was written from
    steady,    \* history: what sources had at every moment of this Reconcile
    budget     \* disturbances left

cluster == <<spec, nets, there, inner, network, routes>>
local == <<pc, sn, fresh, out, platform>>
sched == <<queue, backoff, poll>>
status == <<failed, shown>>
vars == <<cluster, watched, local, sched, ds, status, steady, budget>>

Disturb == budget > 0 /\ budget' = budget - 1
Calm == UNCHANGED budget

\* Mutant: prefixes of both families.
OfUnfiltered(n, s) == {e.cidr : e \in {x \in n[s] : ~x.disabled}}

\* What a source contributes: IPv4 prefixes; of Calico, those of enabled pools.
Of(n, s) == {e.cidr : e \in {x \in n[s] : x.cidr \in IPv4 /\ ~x.disabled}}
Offered(n, t) == {o \in t \X IPv4 : o[2] \in Of(n, o[1])}

\* optionalWatch, for the kinds that are there.
Kinds == (IF network # "absent" THEN {"Network"} ELSE {})
         \cup (IF routes.api = "ok" THEN {"RouteAdvertisements"} ELSE {})

SomeEntry == [cidr |-> CHOOSE c \in IPv4 : TRUE, disabled |-> FALSE]
Nothing == [forbidden |-> {}, underlay |-> {}, nodeIP |-> FALSE]

Init == /\ spec \in Specs /\ spec.forbidden \cup spec.underlay \subseteq CIDRs
        /\ \E full \in {{}, Sources} :
              /\ there = full \cup {"nodes"}
              /\ nets = [s \in Sources |-> IF s \in full THEN {SomeEntry} ELSE {}]
        /\ inner = {}
        /\ \/ network = "absent" /\ routes = [api |-> "absent", items |-> {}]
           \/ network = "enabled" /\ routes \in {[api |-> "absent", items |-> {}],
                                                 [api |-> "ok", items |-> Items]}
        /\ watched = Kinds
        /\ pc = "idle" /\ sn = Nothing /\ fresh = TRUE /\ out = <<>> /\ platform = "Unknown"
        /\ queue = TRUE /\ backoff = FALSE /\ poll = FALSE
        /\ ds = [deny |-> <<>>, nodeIP |-> FALSE]
        /\ failed = FALSE /\ shown = "Unknown"
        /\ steady = {}
        /\ budget = MaxDisturb

----------------------------------------------------------------------------
(* The cluster changes.  An event of a watched object queues the key.      *)

Event(watches) == queue' = (queue \/ watches)

Edit(s) == /\ s # spec
           /\ spec' = s
           /\ fresh' = (pc = "idle")
           /\ Event(TRUE)
           /\ UNCHANGED <<nets, there, inner, network, routes, steady>>

\* A source gains or loses an entry; only nodes are watched.
Entries(s) == [cidr : CIDRs, disabled : IF s = "calico" THEN BOOLEAN ELSE {FALSE}]

Allocate(s, e) == /\ s \in there
                  /\ nets' = [nets EXCEPT ![s] = IF e \in @ THEN @ \ {e} ELSE @ \cup {e}]
                  /\ steady' = steady \cap Offered(nets', there)
                  /\ Event(s = "nodes")
                  /\ UNCHANGED <<spec, fresh, there, inner, network, routes>>

\* An API is removed or made unreadable, or the other way round; the configuration
\* of OpenShift is only removed, since its read tolerates nothing else.
Toggle(s) == /\ s # "nodes"
             /\ there' = IF s \in there THEN there \ {s} ELSE there \cup {s}
             /\ steady' = steady \cap Offered(nets, there')
             /\ Event(FALSE)
             /\ UNCHANGED <<spec, fresh, nets, inner, network, routes>>

\* A node joins or leaves with an address in c.
NodeAddress(c) == /\ inner' = IF c \in inner THEN inner \ {c} ELSE inner \cup {c}
                  /\ Event(TRUE)
                  /\ UNCHANGED <<spec, fresh, nets, there, network, routes, steady>>

SetNetwork(n) == /\ n # network
                 /\ network' = n
                 /\ Event("Network" \in watched)
                 /\ UNCHANGED <<spec, fresh, nets, there, inner, routes, steady>>

SetRoutes(r) == /\ r # routes
                /\ routes' = r
                /\ Event("RouteAdvertisements" \in watched)
                /\ UNCHANGED <<spec, fresh, nets, there, inner, network, steady>>

Change == /\ \/ \E s \in Specs : Edit(s)
             \/ \E s \in Sources : Toggle(s) \/ \E e \in Entries(s) : Allocate(s, e)
             \/ \E c \in IPv4 : NodeAddress(c)
             \/ \E n \in Networks : SetNetwork(n)
             \/ \E a \in {"ok", "absent", "forbidden"}, i \in SUBSET Items :
                    SetRoutes([api |-> a, items |-> i])
          /\ UNCHANGED <<watched, pc, sn, out, platform, backoff, poll, ds, status>>
          /\ Disturb

----------------------------------------------------------------------------
(* Reconcile                                                               *)

\* Reconcile returns.
Return == /\ pc' = "idle"
          /\ sn' = Nothing /\ fresh' = TRUE /\ out' = <<>> /\ platform' = "Unknown"
          /\ steady' = {}

\* Mutant: the error is reported, but not returned.
FailQuietly(marked, event) == /\ Return
                            /\ failed' = (failed \/ marked)
                            /\ queue' = (event \/ (marked /\ ~failed))
                            /\ UNCHANGED <<backoff, poll, shown>>


\* Reconcile returns an error after markApplyFailed, whose write of the status
\* fails if the copy is not fresh, or for another reason.
Fail(marked, event) == /\ Return
                     /\ failed' = (failed \/ marked)
                     /\ queue' = (event \/ (marked /\ ~failed))
                     /\ backoff' = TRUE
                     /\ UNCHANGED <<poll, shown>>

Refuse(event) == \/ Fail(fresh, event) /\ Calm
                 \/ Fail(FALSE, event) /\ Disturb

\* The lists of the elements of a set, and the one in order.
Listings(S) == Bijection(1 .. Cardinality(S), S)
Sorted(S) == CHOOSE l \in Listings(S) : \A i, j \in DOMAIN l : i < j => l[i] < l[j]

Invalid(s) == Bad \in s.forbidden \cup s.underlay

\* The worker takes the key; specIPv4CIDRs of both lists.
Get == /\ pc = "idle" /\ queue
       /\ ~Invalid(spec)
       /\ queue' = FALSE
       /\ sn' = spec /\ fresh' = TRUE
       /\ out' = Sorted(spec.forbidden \cap IPv4) \o Sorted(spec.underlay \cap IPv4)
       /\ steady' = Offered(nets, there)
       /\ pc' = "config"
       /\ UNCHANGED <<cluster, watched, platform, backoff, poll, ds, status>>
       /\ Calm

GetInvalid == /\ pc = "idle" /\ queue
              /\ Invalid(spec)
              /\ Refuse(FALSE)
              /\ UNCHANGED <<cluster, watched, ds>>

\* Mutant: the list as it was put together.
ListedAsRead(o) == o

\* dedupe and slices.Sort.
Listed(o) == Sorted(Range(o))

Following == [config |-> "nodes", nodes |-> "service", service |-> "calico",
              calico |-> "cilium", cilium |-> "validate"]

\* One source is read; items come in any order, and a missing API has none.
Read == /\ pc \in Sources
        /\ pc' = Following[pc]
        /\ \E items \in Listings(IF pc \in there THEN Of(nets, pc) ELSE {}) :
              out' = IF pc = "cilium" THEN Listed(out \o items) ELSE out \o items
        /\ UNCHANGED <<cluster, watched, sn, fresh, platform, sched, ds, status, steady>>
        /\ Calm

\* Mutant: a failed read is like a missing API.
ReadErrorTolerated == /\ pc \in Sources
                      /\ pc' = Following[pc]
                      /\ out' = IF pc = "cilium" THEN Listed(out) ELSE out
                      /\ UNCHANGED <<cluster, watched, sn, fresh, platform, sched, ds,
                                     status, steady>>
                      /\ Disturb

\* Any other error of a read.
ReadError == /\ pc \in Sources
             /\ \E marked \in {fresh, FALSE} : Fail(marked, queue)
             /\ UNCHANGED <<cluster, watched, ds>>
             /\ Disturb

OnUnderlay(s) == s.nodeIP /\ s.underlay \cap inner # {}

validateNodeIPAdvertisement ==
    /\ pc = "validate"
    /\ \/ /\ ~OnUnderlay(sn)
          /\ pc' = "network"
          /\ UNCHANGED <<sn, fresh, out, platform, sched, status, steady>>
          /\ Calm
       \/ OnUnderlay(sn) /\ Refuse(queue)
       \/ /\ sn.nodeIP /\ sn.underlay # {}   \* the nodes cannot be listed
          /\ \E marked \in {fresh, FALSE} : Fail(marked, queue)
          /\ Disturb
    /\ UNCHANGED <<cluster, watched, ds>>

\* classifyPodEgressPlatform and the checks around it; True: see the routes.
classifyNetwork(n) == CASE n \in {"absent", "other"} -> "Unknown"
                        [] n \in {"shared", "unadvertised"} -> "False"
                        [] OTHER -> "True"

hasAcceptedDefaultPodAdvertisement(items) ==
    \E i \in items : i.accepted /\ "PodNetwork" \in i.exports
                                /\ "DefaultNetwork" \in i.networks

classifyRoutes(r) == CASE r.api = "absent" -> "False"
                       [] r.api = "forbidden" -> "Unknown"
                       [] OTHER -> IF hasAcceptedDefaultPodAdvertisement(r.items)
                                   THEN "True" ELSE "False"

Actual == IF classifyNetwork(network) = "True" THEN classifyRoutes(routes)
          ELSE classifyNetwork(network)

\* detectPodEgressPlatform: two reads, whose errors end in Unknown.
detectPodEgressPlatform ==
    /\ \/ /\ pc = "network" /\ platform' = classifyNetwork(network)
          /\ pc' = IF platform' = "True" THEN "routes" ELSE "apply"
          /\ Calm
       \/ /\ pc = "routes" /\ platform' = classifyRoutes(routes) /\ pc' = "apply"
          /\ Calm
       \/ /\ pc \in {"network", "routes"} /\ platform' = "Unknown" /\ pc' = "apply"
          /\ Disturb
    /\ UNCHANGED <<cluster, watched, sn, fresh, out, sched, ds, status, steady>>

Rendered == [deny |-> out, nodeIP |-> sn.nodeIP]

\* apply; a DaemonSet that changes is an event of its own.
Apply == /\ pc = "apply"
         /\ ds' = Rendered
         /\ Event(ds # Rendered)
         /\ pc' = "status"
         /\ UNCHANGED <<cluster, watched, sn, fresh, out, platform, backoff, poll, status,
                        steady>>
         /\ Calm

\* It fails before or after the DaemonSet.
ApplyError == /\ pc = "apply"
              /\ ds' \in {ds, Rendered}
              /\ \E marked \in {fresh, FALSE} : Fail(marked, queue \/ ds' # ds)
              /\ UNCHANGED <<cluster, watched>>
              /\ Disturb

\* updateStatus, and what Reconcile returns: a RequeueAfter if the agents are not
\* ready, the registrar has failed, or the platform is not True.
UpdateStatus == /\ pc = "status" /\ fresh
                /\ failed' = FALSE /\ shown' = platform
                /\ Event(failed \/ shown # platform)
                /\ \E unready \in BOOLEAN :
                      poll' = (poll \/ unready \/ platform # "True")
                /\ Return
                /\ UNCHANGED <<cluster, watched, backoff, ds>>
                /\ Calm

\* A conflict, which is queued again, or another error.
StatusError == /\ pc = "status"
               /\ \/ ~fresh /\ queue' = TRUE /\ UNCHANGED backoff /\ Calm
                  \/ backoff' = TRUE /\ UNCHANGED queue /\ Disturb
               /\ Return
               /\ UNCHANGED <<cluster, watched, poll, ds, status>>

\* A delay is over.
Timer == /\ backoff \/ poll
         /\ queue' = TRUE
         /\ \/ backoff /\ backoff' = FALSE /\ UNCHANGED poll
            \/ poll /\ poll' = FALSE /\ UNCHANGED backoff
         /\ UNCHANGED <<cluster, watched, local, ds, status, steady>>
         /\ Calm

\* The operator starts anew: its watches, and a first event.
Restart == /\ Return
           /\ watched' = Kinds
           /\ queue' = TRUE /\ backoff' = FALSE /\ poll' = FALSE
           /\ UNCHANGED <<cluster, ds, status>>
           /\ Disturb

Worker == \/ Get \/ GetInvalid \/ Read \/ validateNodeIPAdvertisement
          \/ detectPodEgressPlatform \/ Apply \/ UpdateStatus \/ StatusError

Next == Change \/ Worker \/ ReadError \/ ApplyError \/ Timer \/ Restart

Spec == Init /\ [][Next]_vars

\* Fairness: the one worker goes on, and delays end.
LiveSpec == Spec /\ WF_vars(Worker) /\ WF_vars(Timer)

----------------------------------------------------------------------------
\* Types; only IPv4 prefixes reach the agents, whose policy engine takes no other.
TypeOK ==
    /\ pc \in Sources \cup {"idle", "validate", "network", "routes", "apply", "status"}
    /\ spec \in Specs /\ sn \in Specs \cup {Nothing}
    /\ \A s \in Sources : nets[s] \subseteq Entries(s)
    /\ there \subseteq Sources /\ inner \subseteq IPv4
    /\ network \in Networks /\ routes.items \subseteq Items
    /\ watched \subseteq {"Network", "RouteAdvertisements"}
    /\ Range(out) \subseteq IPv4 /\ Range(ds.deny) \subseteq IPv4
    /\ {platform, shown} \subseteq {"True", "Unknown", "False"}
    /\ {queue, backoff, poll, failed, fresh, ds.nodeIP} \subseteq BOOLEAN
    /\ steady \subseteq Sources \X IPv4
    /\ budget \in 0..MaxDisturb

\* "Without this ... a remote AS could advertise prefixes overlapping the pod or
\* service network" (clusterForbiddenCIDRs): the list that is applied has every
\* network that some source had while it was derived, whatever failed meanwhile.
DenyComplete ==
    [][pc = "apply" /\ ds' = Rendered =>
          \A o \in steady : o[2] \in Range(ds'.deny)]_vars

\* "any ordering flip between reconciles rolls every agent pod": the agents are
\* rolled for a deny list only if it has another network, or one less.
NoSpuriousRoll == [][ds'.deny # ds.deny => Range(ds'.deny) # Range(ds.deny)]_vars

\* What events tell of: the spec's and the nodes' networks.
Told == ((spec.forbidden \cup spec.underlay) \cap IPv4) \cup Of(nets, "nodes")

\* A worker at rest has nothing to do: the agents have the spec's choice and the
\* networks of watched objects, no node IP of the underlay is advertised, nothing
\* is reported as failed, and no timer runs only if the platform was True, and
\* still is as far as watches tell.
AtRestCurrent ==
    pc = "idle" /\ ~queue /\ ~backoff =>
        /\ ~Invalid(spec) /\ ~OnUnderlay(spec) /\ ~failed
        /\ ds.nodeIP = spec.nodeIP /\ Told \subseteq Range(ds.deny)
        /\ poll \/ shown = "True"
        /\ poll \/ watched # {"Network", "RouteAdvertisements"} \/ Actual = "True"

=============================================================================
