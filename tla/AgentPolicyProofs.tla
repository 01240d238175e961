------------------------- MODULE AgentPolicyProofs -------------------------
(***************************************************************************)
(* Proof that the agent's two one-element channels lose no update, for any *)
(* topologies, prefixes and number of disturbances.                        *)
(*                                                                         *)
(* The argument follows a topology or a prefix down the pipeline: until    *)
(* its notification is consumed nothing is claimed; from then on the       *)
(* policy input, then the files, then the loaded policy are current, or a  *)
(* trigger sent after the files were written is still to be served.        *)
(***************************************************************************)
EXTENDS AgentPolicy, TLAPS

\* The policy of the topology on disk and the prefixes last looked up.
Current == policyInput(topo, info)

\* No change of topology.json is still to be picked up.
TopoSeen == bpc # "notify" /\ ~topoChanged

\* Goroutines and channels exist exactly while the agent is up.
Running ==
    /\ IF up THEN ppc # "off" /\ bpc # "off" /\ gpc # "off" /\ topo \in IAs
             ELSE ppc = "off" /\ bpc = "off" /\ gpc = "off" /\ ~failed
    /\ bpc = "write" => got \in IAs
    /\ ppc \in {"traffic", "trafficOpen", "routing", "routingOpen"}
       => in \in Policies

\* rerender's input is current while the files are written.
InputCurrent ==
    TopoSeen /\ ppc \in {"traffic", "trafficOpen", "routing", "routingOpen"}
    => in = Current

\* The files are current when the trigger is due, and from then on until the
\* next re-render.
FilesCurrent ==
    /\ ppc \in {"routing", "routingOpen", "send"} => traffic = "ok"
    /\ TopoSeen /\ ppc = "send" => routing = Current
    /\ TopoSeen /\ ppc = "select" /\ ~failed => routing = Current /\ traffic = "ok"

Pipeline == Running /\ InputCurrent /\ FilesCurrent /\ NoLostUpdate

\* The inductive invariant.
Inv == TypeOK /\ Pipeline

\* What is rendered from a topology and prefixes is a policy, not Torn.
LEMMA InputType ==
    ASSUME NEW ia \in IAs, NEW nets \in SUBSET (Blocks \cup NodeCIDRs)
    PROVE  policyInput(ia, nets) \in Policies
  BY DEF policyInput, Policies

\* nodeInfo gives prefixes.
LEMMA NodeInfoType == TypeOK => nodeInfo \in SUBSET (Blocks \cup NodeCIDRs)
  BY DEF TypeOK, nodeInfo

\* The initial states satisfy the invariant.
LEMMA InitInv == Init => Inv
  <1> SUFFICES ASSUME Init PROVE Inv
    OBVIOUS
  <1>1. up = FALSE /\ topoChanged = FALSE /\ reload = FALSE
        /\ initial = FALSE /\ failed = FALSE
    BY DEF Init
  <1>2. TypeOK
    <2>1. /\ up \in BOOLEAN /\ topoChanged \in BOOLEAN /\ reload \in BOOLEAN
          /\ initial \in BOOLEAN /\ failed \in BOOLEAN
      BY <1>1, Zenon
    <2> QED
      BY <2>1, AgentAssumption DEF Init, TypeOK
  <1>3. Pipeline
    BY <1>1 DEF Init, Pipeline, Running, InputCurrent, FilesCurrent, NoLostUpdate
  <1> QED
    BY <1>2, <1>3 DEF Inv

\* Every step keeps the types.
LEMMA TypeStep == Inv /\ [Next]_vars => TypeOK'
  <1> SUFFICES ASSUME Inv, [Next]_vars PROVE TypeOK'
    OBVIOUS
  <1> USE DEF Inv, TypeOK, outside, files, boot, loop, gateway
  <1>1. CASE Start
    <2>1. up' \in BOOLEAN /\ initial' \in BOOLEAN
      BY <1>1, Zenon DEF Start
    <2>2. info' \in SUBSET (Blocks \cup NodeCIDRs) /\ topo' \in IAs
      BY <1>1, NodeInfoType DEF Start
    <2>3. routing' \in Policies
      BY <1>1, <2>2, InputType DEF Start
    <2> QED
      BY <1>1, <2>1, <2>2, <2>3 DEF Start
  <1>2. CASE StartError \/ Crash
    <2>1. /\ up' \in BOOLEAN /\ topoChanged' \in BOOLEAN /\ reload' \in BOOLEAN
          /\ initial' \in BOOLEAN /\ failed' \in BOOLEAN
      BY <1>2, Zenon DEF StartError, Crash, Stop
    <2> QED
      BY <1>2, <2>1 DEF StartError, Crash, Stop, Disturb
  <1>3. CASE Bootstrap
    <2>1. topoChanged' \in BOOLEAN
      BY <1>3, Zenon DEF Bootstrap, Download, FetchError, FetchOk, Notify
    <2> QED
      BY <1>3, <2>1 DEF Bootstrap, Download, FetchError, FetchOk, Notify
  <1>4. CASE OnTopoChanged
    <2>1. topoChanged' \in BOOLEAN
      BY <1>4, Zenon DEF OnTopoChanged
    <2> QED
      BY <1>4, <2>1 DEF OnTopoChanged
  <1>5. CASE OnTick
    BY <1>5, NodeInfoType DEF OnTick
  <1>6. CASE Input
    <2>1. topo \in IAs
      BY <1>6 DEF Input, Pipeline, Running
    <2>2. in' \in Policies
      BY <1>6, <2>1, InputType DEF Input
    <2> QED
      BY <1>6, <2>2 DEF Input
  <1>7. CASE TruncateTraffic \/ WriteTraffic \/ TruncateRouting
    BY <1>7 DEF TruncateTraffic, WriteTraffic, TruncateRouting
  <1>8. CASE WriteRouting
    BY <1>8 DEF WriteRouting, Pipeline, Running
  <1>9. CASE Send \/ RerenderError
    <2>1. reload' \in BOOLEAN /\ failed' \in BOOLEAN
      BY <1>9, Zenon DEF Send, RerenderError
    <2> QED
      BY <1>9, <2>1 DEF Send, RerenderError, Disturb
  <1>10. CASE Gateway
    <2>1. reload' \in BOOLEAN /\ initial' \in BOOLEAN
      BY <1>10, Zenon DEF Gateway, InitialSend, Trigger, LoadTraffic, LoadRouting
    <2> QED
      BY <1>10, <2>1 DEF Gateway, InitialSend, Trigger, LoadTraffic, LoadRouting
  <1>11. ASSUME NEW ia \in IAs, RemoteChange(ia) PROVE TypeOK'
    BY <1>11 DEF RemoteChange, Disturb
  <1>12. ASSUME NEW nets \in SUBSET Blocks, AllocationChange(nets) PROVE TypeOK'
    BY <1>12 DEF AllocationChange, Disturb
  <1>13. CASE UNCHANGED vars
    BY <1>13 DEF vars
  <1> QED
    BY <1>1, <1>2, <1>3, <1>4, <1>5, <1>6, <1>7, <1>8, <1>9, <1>10, <1>11,
       <1>12, <1>13 DEF Next, Rerender

\* Every step keeps the pipeline's claims.
LEMMA PipelineStep == Inv /\ [Next]_vars => Pipeline'
  <1> SUFFICES ASSUME Inv, [Next]_vars PROVE Pipeline'
    OBVIOUS
  <1> USE DEF Inv, TypeOK, Pipeline, Running, InputCurrent, FilesCurrent,
              NoLostUpdate, TopoSeen, Due, LoadDue, Current,
              outside, files, boot, loop, gateway
  <1>1. CASE Start
    BY <1>1 DEF Start
  <1>2. CASE StartError \/ Crash
    BY <1>2 DEF StartError, Crash, Stop
  <1>3. CASE Download \/ FetchError
    BY <1>3 DEF Download, FetchError
  <1>4. CASE FetchOk
    BY <1>4 DEF FetchOk
  <1>5. CASE Notify
    BY <1>5 DEF Notify
  <1>6. CASE OnTopoChanged
    BY <1>6 DEF OnTopoChanged
  <1>7. CASE OnTick
    BY <1>7 DEF OnTick
  <1>8. CASE Input
    <2>1. in' = Current /\ Current \in Policies
      BY <1>8, InputType DEF Input
    <2> QED
      BY <1>8, <2>1 DEF Input
  <1>9. CASE TruncateTraffic \/ WriteTraffic \/ TruncateRouting \/ WriteRouting
    BY <1>9 DEF TruncateTraffic, WriteTraffic, TruncateRouting, WriteRouting
  <1>10. CASE Send
    <2>1. reload' /\ ~failed'
      BY <1>10, Zenon DEF Send
    <2>2. FilesCurrent'
      <3>1. TopoSeen => routing = Current
        BY <1>10 DEF Send
      <3>2. traffic = "ok"
        BY <1>10 DEF Send
      <3>3. UNCHANGED <<bpc, topoChanged, routing, traffic, topo, info>>
        BY <1>10 DEF Send
      <3>4. ppc' = "select"
        BY <1>10 DEF Send
      <3> QED
        BY <3>1, <3>2, <3>3, <3>4
    <2>3. Running' /\ InputCurrent'
      BY <1>10 DEF Send
    <2>4. NoLostUpdate'
      BY <2>1
    <2> QED
      BY <2>2, <2>3, <2>4
  <1>11. CASE RerenderError
    BY <1>11 DEF RerenderError
  <1>12. CASE InitialSend \/ Trigger
    BY <1>12 DEF InitialSend, Trigger
  <1>13. CASE LoadTraffic
    BY <1>13 DEF LoadTraffic
  <1>14. CASE LoadRouting
    <2>1. up => Current # Torn
      BY InputType, AgentAssumption
    <2> QED
      BY <1>14, <2>1 DEF LoadRouting
  <1>15. ASSUME NEW ia, RemoteChange(ia) PROVE Pipeline'
    BY <1>15 DEF RemoteChange
  <1>16. ASSUME NEW nets, AllocationChange(nets) PROVE Pipeline'
    BY <1>16 DEF AllocationChange
  <1>17. CASE UNCHANGED vars
    BY <1>17 DEF vars
  <1> HIDE DEF Inv, Pipeline
  <1> QED
    BY <1>1, <1>2, <1>3, <1>4, <1>5, <1>6, <1>7, <1>8, <1>9, <1>10, <1>11,
       <1>12, <1>13, <1>14, <1>15, <1>16, <1>17
       DEF Next, Bootstrap, Rerender, Gateway

\* Inv is an invariant of the agent.
THEOREM Invariance == Spec => []Inv
  <1>1. Inv /\ [Next]_vars => Inv'
    BY TypeStep, PipelineStep DEF Inv
  <1> QED
    BY InitInv, <1>1, PTL DEF Spec

\* The agent's state keeps its types.
THEOREM TypeCorrect == Spec => []TypeOK
  <1>1. Inv => TypeOK
    BY DEF Inv
  <1> QED
    BY Invariance, <1>1, PTL

\* No topology or prefix change is lost between discovery server, files and
\* gateway, short of a failed re-render.
THEOREM UpdatesArrive == Spec => []NoLostUpdate
  <1>1. Inv => NoLostUpdate
    BY DEF Inv, Pipeline
  <1> QED
    BY Invariance, <1>1, PTL
=============================================================================
