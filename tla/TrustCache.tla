----------------------------- MODULE TrustCache ----------------------------
(***************************************************************************)
(* The databases of the embedded daemon API (daemonapi): sd.trust.db and   *)
(* sd.path.db in the state directory, which outlives the agent's process.  *)
(* The TRCs of the bootstrap are loaded into the trust database; one whose *)
(* identity is there with another content cannot be, which is how          *)
(* resetStaleTrustCache finds out that the AS has re-created its trust     *)
(* material.  AgentProcess says when each operation happens.               *)
(*                                                                         *)
(* A database and its -wal and -shm files are one; a path segment is the   *)
(* TRC it was verified with.                                               *)
(***************************************************************************)
EXTENDS TRCDirectory

VARIABLES
    trustDB,   \* the TRCs of sd.trust.db
    pathDB,    \* the segments of sd.path.db
    todo,      \* TRCs that the load under way has still to insert
    minted,    \* history: TRCs that changed on disk since they were loaded
    torn       \* history: the trust database was removed, the other not

databases == <<trustDB, pathDB>>
cache == <<certs, databases, todo, minted, torn>>

CacheInit == /\ certs \in TRCs
             /\ trustDB = NoTRCs /\ pathDB = {}
             /\ todo = {} /\ minted = {} /\ torn = FALSE

\* External: the trust database takes a TRC that is new or as it has it.
Fits(n) == certs[n] = None \/ trustDB[n] \in {None, certs[n]}

\* External: the trust database after inserting the TRCs in S.
Loaded(S) == [n \in Names |-> IF n \in S /\ certs[n] # None THEN certs[n]
                              ELSE trustDB[n]]

Conflict == \E n \in todo : ~Fits(n)

BeginLoad == todo' = Names

\* trust.LoadTRCs inserts one TRC.
Load(n) == /\ n \in todo
           /\ Fits(n)
           /\ trustDB' = Loaded({n})
           /\ todo' = todo \ {n}
           /\ minted' = minted \ {n}
           /\ UNCHANGED <<certs, pathDB, torn>>

\* The periodic task: a TRC that does not fit is logged, and ends the load.
PeriodicLoad == /\ \E S \in SUBSET {n \in Names : Fits(n)} :
                      /\ (\A n \in Names : Fits(n)) => S = Names
                      /\ trustDB' = Loaded(S)
                      /\ minted' = minted \ S
                /\ UNCHANGED <<certs, pathDB, todo, torn>>

\* resetStaleTrustCache, the loop's first turn.
RemoveTrust == trustDB' = NoTRCs /\ UNCHANGED <<certs, pathDB, todo, minted, torn>>

\* Mutant: only the trust database is removed.
RemovePathNot == /\ BeginLoad
                 /\ torn' = FALSE
                 /\ UNCHANGED <<certs, databases, minted>>

\* resetStaleTrustCache, the second turn; the engine's load comes next.
RemovePath == /\ pathDB' = {}
              /\ BeginLoad
              /\ torn' = FALSE
              /\ UNCHANGED <<certs, trustDB, minted>>

\* Mutant: a segment is stored without a TRC to verify it with.
StoreUnverified(n) == /\ pathDB' = pathDB \cup {<<n, trustDB[n]>>}
                      /\ UNCHANGED <<certs, trustDB, todo, minted, torn>>

\* External: the daemon verifies a segment and stores it, or removes an old one.
StoreSegment(n) == /\ trustDB[n] # None
                   /\ pathDB' = pathDB \cup {<<n, trustDB[n]>>}
                   /\ UNCHANGED <<certs, trustDB, todo, minted, torn>>

RemoveSegment == /\ \E s \in pathDB : pathDB' = pathDB \ {s}
                 /\ UNCHANGED <<certs, trustDB, todo, minted, torn>>

\* Fetch writes a TRC that the AS has added or re-created.
Mint(n) == /\ Replace(n)
           /\ minted' = minted \cup {n}
           /\ UNCHANGED <<databases, todo, torn>>

\* daemonapi.Run is left, at a point between the two removals or not.
Abandon(between) == /\ todo' = {}
                    /\ torn' = (torn \/ between)
                    /\ UNCHANGED <<certs, databases, minted>>
=============================================================================
