---------------------------- MODULE AgentPolicy ----------------------------
(***************************************************************************)
(* How a node agent (cmd/agent) keeps the policy of its gateway current.   *)
(* Three goroutines and two channels with a buffer of one:                 *)
(*                                                                         *)
(*   bootstrap.Run  --topoChanged-->  policy loop  --reload-->  gateway    *)
(*                                                                         *)
(* bootstrap.Run refreshes topology.json; the policy loop renders the      *)
(* policy files from it and from the node's pod prefixes, which it looks   *)
(* up on a ticker; the gateway (external) reads the files when triggered,  *)
(* and once at its own start.  The agent can die at any step.              *)
(*                                                                         *)
(* A topology is abstracted to its ISD-AS and a routing policy to the ISD- *)
(* AS and prefixes it was rendered from.  The traffic policy depends on    *)
(* configuration only, so its file is whole or torn.                       *)
(***************************************************************************)
EXTENDS Naturals

CONSTANTS
    IAs,          \* ISD-AS numbers a topology can carry
    Blocks,       \* prefixes Calico or Cilium can allocate to the node
    NodeCIDRs,    \* the node's own spec.podCIDRs or OVN subnets
    CNI,          \* the BlockAffinity or CiliumNode API exists
    MaxDisturb,   \* bound on disturbances (see Disturb)
    Torn,         \* a file truncated or half written
    None          \* no policy loaded, rendered or downloaded

Policies == [ia : IAs, nets : SUBSET (Blocks \cup NodeCIDRs)]

ASSUME AgentAssumption ==
    /\ CNI \in BOOLEAN
    /\ MaxDisturb \in Nat
    /\ None \notin IAs
    /\ None # Torn
    /\ {Torn, None} \cap Policies = {}

VARIABLES
    up,           \* the agent is past its startup
    remote,       \* external: the ISD-AS the discovery server serves
    cni,          \* external: the prefixes the CNI has allocated to the node
    topo,         \* topology.json
    traffic,      \* the traffic policy file: "ok" or "torn"
    routing,      \* the routing policy file: a policy or Torn
    bpc, got,     \* bootstrap.Run: next step, topology downloaded
    topoChanged,  \* an element is in the channel
    ppc, in,      \* policy loop: next step, policy.Input
    info,         \* policy loop: the prefixes of nodeInfo last used
    reload,       \* an element is in the channel
    initial,      \* the gateway's own first send is still to happen
    gpc,          \* the gateway's loader: next step
    loaded,       \* the routing policy the gateway runs with
    failed,       \* history: the last re-render that ended failed
    budget        \* disturbances left

outside == <<remote, cni>>
files == <<traffic, routing>>
boot == <<bpc, got>>
loop == <<ppc, in, info, failed>>
gateway == <<initial, gpc, loaded>>
vars == <<up, outside, topo, files, boot, topoChanged, loop, reload, gateway,
          budget>>

----------------------------------------------------------------------------
\* nodeInfo: what the CNI has allocated, if anything, else the Node's.
nodeInfo == IF CNI /\ cni # {} THEN cni ELSE NodeCIDRs

\* policyInput, with advertisedNets, from topology.json and nodeInfo.
policyInput(ia, nets) == [ia |-> ia, nets |-> nets]

\* checkAdvertisable: nothing to advertise is fatal without dynamic IPAM.
checkAdvertisable(nets) == CNI \/ nets # {}

Init == /\ up = FALSE
        /\ remote \in IAs
        /\ cni \in SUBSET Blocks
        /\ topo = None
        /\ traffic = "torn" /\ routing = Torn
        /\ bpc = "off" /\ got = None
        /\ topoChanged = FALSE
        /\ ppc = "off" /\ in = None /\ info = {}
        /\ reload = FALSE
        /\ initial = FALSE /\ gpc = "off" /\ loaded = None
        /\ failed = FALSE
        /\ budget = MaxDisturb

Disturb == budget > 0 /\ budget' = budget - 1

\* run up to the goroutines: nodeInfo, Fetch, guardrail, first render.
Start == /\ ~up
         /\ up' = TRUE
         /\ info' = nodeInfo
         /\ checkAdvertisable(info')
         /\ topo' = remote
         /\ traffic' = "ok"
         /\ routing' = policyInput(topo', info')
         /\ bpc' = "wait" /\ ppc' = "select" /\ gpc' = "wait"
         /\ initial' = TRUE
         /\ UNCHANGED <<outside, got, topoChanged, in, reload, loaded, failed,
                        budget>>

\* The process ends, on an error of its startup or of a goroutine, on a
\* signal or by being killed.  Only files survive.
Stop == /\ up' = FALSE
        /\ bpc' = "off" /\ got' = None /\ topoChanged' = FALSE
        /\ ppc' = "off" /\ in' = None /\ info' = {} /\ failed' = FALSE
        /\ reload' = FALSE
        /\ initial' = FALSE /\ gpc' = "off" /\ loaded' = None

StartError == /\ ~up
              /\ topo' \in {topo, remote}
              /\ Stop
              /\ traffic' \in {traffic, "torn", "ok"}
              /\ routing' \in {routing, Torn}
              /\ Disturb
              /\ UNCHANGED outside

Crash == /\ up
         /\ Stop
         /\ Disturb
         /\ UNCHANGED <<outside, topo, files>>

----------------------------------------------------------------------------
(* bootstrap.Run                                                           *)

\* fetch, the download; any failure of Fetch leaves topology.json alone.
Download == /\ bpc = "wait"
            /\ got' = remote
            /\ bpc' = "write"
            /\ UNCHANGED <<up, outside, topo, files, topoChanged, loop, reload,
                           gateway, budget>>

FetchError == /\ bpc = "write"
              /\ got' = None
              /\ bpc' = "wait"
              /\ UNCHANGED <<up, outside, topo, files, topoChanged, loop, reload,
                             gateway, budget>>

\* Mutant: `before` is read after Fetch, so that no change is seen.
FetchOkUnnoticed == /\ bpc = "write"
                    /\ topo' = got
                    /\ bpc' = "wait"
                    /\ got' = None
                    /\ UNCHANGED <<up, outside, files, topoChanged, loop, reload,
                                   gateway, budget>>

\* atomicWrite of topology.json, compared with what was there before.
FetchOk == /\ bpc = "write"
           /\ topo' = got
           /\ bpc' = IF got = topo THEN "wait" ELSE "notify"
           /\ got' = None
           /\ UNCHANGED <<up, outside, files, topoChanged, loop, reload, gateway,
                          budget>>

\* The send on `changed` that gives up when the buffer is full.
Notify == /\ bpc = "notify"
          /\ topoChanged' = TRUE
          /\ bpc' = "wait"
          /\ UNCHANGED <<up, outside, topo, files, got, loop, reload, gateway,
                         budget>>

----------------------------------------------------------------------------
(* The policy loop.                                                        *)

OnTopoChanged == /\ ppc = "select"
                 /\ topoChanged
                 /\ topoChanged' = FALSE
                 /\ ppc' = "input"
                 /\ UNCHANGED <<up, outside, topo, files, boot, in, info, failed,
                                reload, gateway, budget>>


\* The ticker, where nodeInfo succeeds and differs; otherwise nothing happens.
OnTick == /\ ppc = "select"
          /\ CNI
          /\ nodeInfo # info
          /\ info' = nodeInfo
          /\ ppc' = "input"
          /\ UNCHANGED <<up, outside, topo, files, boot, topoChanged, in, failed,
                         reload, gateway, budget>>

\* Mutant: policyInput's error is logged, and rendering goes on.
InputUnchecked == /\ ppc = "input"
                  /\ in' \in {None, policyInput(topo, info)}
                  /\ ppc' = "traffic"
                  /\ UNCHANGED <<up, outside, topo, files, boot, topoChanged, info,
                                 failed, reload, gateway, budget>>

\* rerender: policyInput reads topology.json.
Input == /\ ppc = "input"
         /\ in' = policyInput(topo, info)
         /\ ppc' = "traffic"
         /\ UNCHANGED <<up, outside, topo, files, boot, topoChanged, info, failed,
                        reload, gateway, budget>>

\* renderPolicies: os.WriteFile truncates, then writes.
TruncateTraffic == /\ ppc = "traffic"
                   /\ traffic' = "torn"
                   /\ ppc' = "trafficOpen"
                   /\ UNCHANGED <<up, outside, topo, routing, boot, topoChanged,
                                  in, info, failed, reload, gateway, budget>>

WriteTraffic == /\ ppc = "trafficOpen"
                /\ traffic' = "ok"
                /\ ppc' = "routing"
                /\ UNCHANGED <<up, outside, topo, routing, boot, topoChanged,
                               in, info, failed, reload, gateway, budget>>

TruncateRouting == /\ ppc = "routing"
                   /\ routing' = Torn
                   /\ ppc' = "routingOpen"
                   /\ UNCHANGED <<up, outside, topo, traffic, boot, topoChanged,
                                  in, info, failed, reload, gateway, budget>>

WriteRouting == /\ ppc = "routingOpen"
                /\ routing' = in
                /\ ppc' = "send"
                /\ UNCHANGED <<up, outside, topo, traffic, boot, topoChanged,
                               in, info, failed, reload, gateway, budget>>

\* The send on `reload` that gives up when the buffer is full.
Send == /\ ppc = "send"
        /\ reload' = TRUE
        /\ ppc' = "select"
        /\ in' = None
        /\ failed' = FALSE
        /\ UNCHANGED <<up, outside, topo, files, boot, topoChanged, info, gateway,
                       budget>>

\* policyInput or a write fails: logged, and the loop goes on.
RerenderError == /\ ppc \in {"input", "traffic", "trafficOpen", "routing",
                             "routingOpen"}
                 /\ Disturb
                 /\ ppc' = "select"
                 /\ in' = None
                 /\ failed' = TRUE
                 /\ UNCHANGED <<up, outside, topo, files, boot, topoChanged, info,
                                reload, gateway>>

----------------------------------------------------------------------------
(* External: the gateway's config loader.                                  *)

\* Its own first trigger, a blocking send into the same channel.
InitialSend == /\ initial
               /\ ~reload
               /\ reload' = TRUE
               /\ initial' = FALSE
               /\ UNCHANGED <<up, outside, topo, files, boot, topoChanged, loop,
                              gpc, loaded, budget>>

Trigger == /\ gpc = "wait"
           /\ reload
           /\ reload' = FALSE
           /\ gpc' = "traffic"
           /\ UNCHANGED <<up, outside, topo, files, boot, topoChanged, loop,
                          initial, loaded, budget>>

\* A torn JSON file does not parse: the load is given up.
LoadTraffic == /\ gpc = "traffic"
               /\ gpc' = IF traffic = "ok" THEN "routing" ELSE "wait"
               /\ UNCHANGED <<up, outside, topo, files, boot, topoChanged, loop,
                              reload, initial, loaded, budget>>

\* A torn list of rules may parse, as a shorter list.
LoadRouting == /\ gpc = "routing"
               /\ gpc' = "wait"
               /\ \/ loaded' = routing
                  \/ routing = Torn /\ UNCHANGED loaded
               /\ UNCHANGED <<up, outside, topo, files, boot, topoChanged, loop,
                              reload, initial, budget>>

----------------------------------------------------------------------------
(* External: the discovery server's topology and the CNI's allocation.     *)

RemoteChange(ia) == /\ Disturb
                    /\ ia # remote
                    /\ remote' = ia
                    /\ UNCHANGED <<up, cni, topo, files, boot, topoChanged, loop,
                                   reload, gateway>>

AllocationChange(nets) == /\ Disturb
                          /\ CNI
                          /\ nets # cni
                          /\ cni' = nets
                          /\ UNCHANGED <<up, remote, topo, files, boot,
                                         topoChanged, loop, reload, gateway>>

Bootstrap == Download \/ FetchError \/ FetchOk \/ Notify

Rerender == Input \/ TruncateTraffic \/ WriteTraffic \/ TruncateRouting
            \/ WriteRouting \/ Send

Gateway == InitialSend \/ Trigger \/ LoadTraffic \/ LoadRouting

Next == \/ Start \/ StartError \/ Crash
        \/ Bootstrap
        \/ OnTopoChanged \/ OnTick \/ Rerender \/ RerenderError
        \/ Gateway
        \/ \E ia \in IAs : RemoteChange(ia)
        \/ \E nets \in SUBSET Blocks : AllocationChange(nets)

Spec == Init /\ [][Next]_vars

(***************************************************************************)
(* Fairness: the kubelet restarts the agent, goroutines run, tickers fire, *)
(* Go's select takes every ready case in the end, and fetching does not    *)
(* fail for ever.                                                          *)
(***************************************************************************)
LiveSpec == /\ Spec
            /\ WF_vars(Start) /\ WF_vars(Bootstrap) /\ SF_vars(FetchOk)
            /\ SF_vars(OnTopoChanged) /\ SF_vars(OnTick) /\ WF_vars(Rerender)
            /\ WF_vars(InitialSend) /\ WF_vars(Trigger)
            /\ WF_vars(LoadTraffic) /\ WF_vars(LoadRouting)

----------------------------------------------------------------------------
\* Types of files, channels, goroutines and surroundings.
TypeOK ==
    /\ up \in BOOLEAN
    /\ remote \in IAs /\ cni \in SUBSET Blocks
    /\ topo \in IAs \cup {None}
    /\ traffic \in {"ok", "torn"}
    /\ routing \in Policies \cup {Torn}
    /\ bpc \in {"off", "wait", "write", "notify"}
    /\ got \in IAs \cup {None}
    /\ topoChanged \in BOOLEAN /\ reload \in BOOLEAN /\ initial \in BOOLEAN
    /\ ppc \in {"off", "select", "input", "traffic", "trafficOpen", "routing",
                "routingOpen", "send"}
    /\ in \in Policies \cup {None}
    /\ info \in SUBSET (Blocks \cup NodeCIDRs)
    /\ gpc \in {"off", "wait", "traffic", "routing"}
    /\ loaded \in Policies \cup {Torn, None}
    /\ failed \in BOOLEAN
    /\ budget \in Nat

\* A re-render is under way or due.
Due == bpc = "notify" \/ topoChanged \/ ppc # "select"

\* A load is under way or due.
LoadDue == initial \/ reload \/ gpc # "wait"

\* The two one-element channels lose no update: when neither a re-render nor a
\* load is due and the last re-render did not fail, the gateway runs with the
\* policy of the topology on disk and the prefixes last looked up, whatever
\* sends found the buffer full and whichever reads overlapped writes (the
\* gateway can take up a torn file, and always reads again).
NoLostUpdate ==
    up /\ ~failed /\ ~Due /\ ~LoadDue => loaded = policyInput(topo, info)

=============================================================================
