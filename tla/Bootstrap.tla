----------------------------- MODULE Bootstrap -----------------------------
(***************************************************************************)
(* One node agent's endhost bootstrap (internal/agent/bootstrap).  Fetch   *)
(* tries the discovery servers in order.  fetchFrom downloads topology and *)
(* TRCs from one server, compares them with the pins, writes the TRCs and  *)
(* then topology.json, each by an atomic rename.  Every request and every  *)
(* write can fail, servers may serve something else on every request, and  *)
(* the agent may die at any step; the files outlive it.                    *)
(*                                                                         *)
(* A trust anchor re-created by its AS keeps its name and changes its      *)
(* content, so a name does not determine what is served under it.          *)
(***************************************************************************)
EXTENDS Naturals, TRCDirectory

CONSTANTS
    Topologies,  \* contents of topology.json with an isd_as
    Pins,        \* Pins[n]: the pinned content of n, or None
    MaxBases     \* bound on the servers discovered

ASSUME BootstrapAssumption ==
    /\ None \notin Contents \cup Topologies
    /\ Pins \in TRCs
    /\ MaxBases \in Nat

VARIABLES
    topo,      \* topology.json
    bases,     \* servers left to try, the current one included
    pc,        \* the next step of fetchFrom
    gotTopo,   \* the topology downloaded
    gotTRCs,   \* the TRCs downloaded
    unwritten, \* names of those still to be written
    listed     \* history: names of the TRCs that came with topology.json

disk == <<topo, certs>>
got == <<gotTopo, gotTRCs>>
fetchVars == <<disk, bases, pc, got, unwritten, listed>>

----------------------------------------------------------------------------
\* The TRCs of a download.
Listed(trcs) == {n \in Names : trcs[n] # None}

FetchInit == /\ topo = None
             /\ certs = NoTRCs
             /\ bases = 0
             /\ pc = "idle"
             /\ gotTopo = None
             /\ gotTRCs = NoTRCs
             /\ unwritten = {}
             /\ listed = {}

\* Fetch: BaseURLs returns the servers; without one, nothing happens.
Fetch == /\ pc = "idle"
         /\ bases' \in 1 .. MaxBases
         /\ pc' = "topology"
         /\ UNCHANGED <<disk, got, unwritten, listed>>

\* fetchFrom is left, with b servers still to try.
Leave(b) == /\ bases' = b
            /\ pc' = IF b = 0 THEN "idle" ELSE "topology"
            /\ gotTopo' = None
            /\ gotTRCs' = NoTRCs
            /\ unwritten' = {}

GetTopology == /\ pc = "topology"
               /\ gotTopo' \in Topologies
               /\ pc' = "trcs"
               /\ UNCHANGED <<disk, bases, gotTRCs, unwritten, listed>>

\* The list, possibly empty, and every TRC on it.
GetTRCs == /\ pc = "trcs"
           /\ gotTRCs' \in TRCs
           /\ pc' = "pins"
           /\ UNCHANGED <<disk, bases, gotTopo, unwritten, listed>>

\* Creating the directory, a request, its decoding or reading a pin fails.
DownloadError == /\ pc \in {"topology", "trcs", "pins"}
                 /\ Leave(bases - 1)
                 /\ UNCHANGED <<disk, listed>>

\* Mutant: a pinned TRC is compared with the cached copy (before D9).
PinsMatchCached(trcs) ==
    \A n \in Listed(trcs) : Pins[n] # None => certs[n] \in {None, trcs[n]}

\* The pinning guard.
PinsMatch(trcs) == \A n \in Listed(trcs) : Pins[n] \in {None, trcs[n]}

CheckPins == /\ pc = "pins"
             /\ PinsMatch(gotTRCs)
             /\ pc' = "write"
             /\ unwritten' = Listed(gotTRCs)
             /\ UNCHANGED <<disk, bases, got, listed>>

PinViolation == /\ pc = "pins"
                /\ ~PinsMatch(gotTRCs)
                /\ Leave(bases - 1)
                /\ UNCHANGED <<disk, listed>>

\* atomicWrite of a TRC; they are written in no particular order.
WriteTRC(n) == /\ pc = "write"
               /\ n \in unwritten
               /\ certs' = [certs EXCEPT ![n] = gotTRCs[n]]
               /\ unwritten' = unwritten \ {n}
               /\ UNCHANGED <<topo, bases, pc, got, listed>>

\* Mutant: topology.json is written as soon as it can be.
WriteTopologyFirst == /\ pc = "write"
                      /\ topo' = gotTopo
                      /\ listed' = Listed(gotTRCs)
                      /\ Leave(0)
                      /\ UNCHANGED certs

\* atomicWrite of topology.json after all TRCs: Fetch is done.
WriteTopology == /\ pc = "write"
                 /\ unwritten = {}
                 /\ topo' = gotTopo
                 /\ listed' = Listed(gotTRCs)
                 /\ Leave(0)
                 /\ UNCHANGED certs

\* An atomicWrite fails, and leaves its file as it was.
WriteError == /\ pc = "write"
              /\ Leave(bases - 1)
              /\ UNCHANGED <<disk, listed>>

\* The agent dies; its successor begins with a Fetch.
Crash == /\ pc # "idle"
         /\ Leave(0)
         /\ UNCHANGED <<disk, listed>>

FetchNext == \/ Fetch \/ GetTopology \/ GetTRCs \/ DownloadError
             \/ CheckPins \/ PinViolation
             \/ \E n \in Names : WriteTRC(n)
             \/ WriteTopology \/ WriteError \/ Crash

FetchSpec == FetchInit /\ [][FetchNext]_fetchVars

----------------------------------------------------------------------------
\* Types of the files and of fetchFrom's variables.
FetchTypes ==
    /\ topo \in Topologies \cup {None}
    /\ certs \in TRCs
    /\ bases \in 0 .. MaxBases
    /\ bases = 0 <=> pc = "idle"
    /\ pc \in {"idle", "topology", "trcs", "pins", "write"}
    /\ gotTopo \in Topologies \cup {None}
    /\ gotTRCs \in TRCs
    /\ unwritten \in SUBSET Names
    /\ listed \in SUBSET Names

\* The pinning guard of fetchFrom: no sequence of failures, fallbacks and
\* restarts puts a TRC on disk that differs from its pin.
PinnedStays == \A n \in Names : Pins[n] # None => certs[n] \in {None, Pins[n]}

\* "the TRCs it needs must already be in place when [topology.json] appears"
\* (fetchFrom), and stay in place: those that came with the topology on disk are
\* on disk, whatever later fetches leave half done.
TRCsInPlace == \A n \in listed : certs[n] # None
=============================================================================
