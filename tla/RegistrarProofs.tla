-------------------------- MODULE RegistrarProofs --------------------------
(***************************************************************************)
(* Proofs, for any number of connections, node names and documents, of the *)
(* registrar's safety properties and of its refinement of SigRegistry.     *)
(*                                                                         *)
(* The mutex carries the argument: a handler past mu.Lock() is the only    *)
(* one (MutexHeldByHandler), so what it put in the file by rename is there *)
(* until it answers (PutWinsWholesale), which is what makes a 204 or a 502 *)
(* a step of the atomic register.                                          *)
(***************************************************************************)
EXTENDS Registrar, TLAPS

\* The inductive invariant.
Inv == /\ TypeOK
       /\ HandlerLocals
       /\ MutexHeldByHandler
       /\ PutWinsWholesale
       /\ LoadedAfter204

\* The initial states satisfy the invariant.
LEMMA InitInv == Init => Inv
  <1> SUFFICES ASSUME Init PROVE Inv
    OBVIOUS
  <1>1. TypeOK
    BY Zenon DEF Init, TypeOK, NoAnswer
  <1>2. HandlerLocals
    BY Zenon DEF Init, HandlerLocals
  <1>3. MutexHeldByHandler
    BY ConstAssumption, Zenon DEF Init, MutexHeldByHandler, Critical
  <1>4. PutWinsWholesale /\ LoadedAfter204
    BY DEF Init, PutWinsWholesale, LoadedAfter204
  <1> QED
    BY <1>1, <1>2, <1>3, <1>4 DEF Inv

\* What Reload leaves behind, however its command ended.
LEMMA ReloadOutcome ==
    ASSUME NEW c, Reload(c)
    PROVE  /\ hup' \in BOOLEAN
           /\ \E code \in {204, 502} : Reply(c, code, NoSet)
           /\ lastPut' \in {"204", "failed"}
           /\ mu' = NoConn
           /\ topo' = topo /\ cs' = cs
  <1>1. hup' \in BOOLEAN
    BY Zenon DEF Reload
  <1>2. \/ Reply(c, 204, NoSet) /\ lastPut' = "204"
        \/ Reply(c, 502, NoSet) /\ lastPut' = "failed"
    BY Zenon DEF Reload
  <1>3. mu' = NoConn /\ topo' = topo /\ cs' = cs
    BY Zenon DEF Reload, Unlock
  <1> QED
    BY <1>1, <1>2, <1>3

\* Every step of the registrar, a handler's, a crash, the control service's or
\* the AS operator's, keeps the types.
LEMMA TypeStep == Inv /\ [Next]_vars => TypeOK'
  <1> SUFFICES ASSUME Inv, [Next]_vars PROVE TypeOK'
    OBVIOUS
  <1> USE ConstAssumption DEF Inv, TypeOK, Critical
  <1>1. ASSUME NEW c \in Conns, auth(c) PROVE TypeOK'
    BY <1>1 DEF auth, Reply, Goto, control, NoRequest
  <1>2. ASSUME NEW c \in Conns, Lock(c) PROVE TypeOK'
    BY <1>2 DEF Lock, Goto, control
  <1>3. ASSUME NEW c \in Conns, getSigs(c) PROVE TypeOK'
    BY <1>3 DEF getSigs, Reply, Goto, Unlock, control, Topologies
  <1>4. ASSUME NEW c \in Conns, methodNotAllowed(c) PROVE TypeOK'
    BY <1>4 DEF methodNotAllowed, Reply, Goto, Unlock, control
  <1>5. ASSUME NEW c \in Conns, putSigs(c) PROVE TypeOK'
    BY <1>5 DEF putSigs, Reply, Goto, Unlock, control
  <1>6. ASSUME NEW c \in Conns, PatchRead(c) PROVE TypeOK'
    <2>1. CASE PatchError(c)
      BY <1>6, <2>1 DEF PatchRead, PatchError, Reply, Goto, Unlock, control
    <2>2. CASE ~PatchError(c)
      BY <1>6, <2>2 DEF PatchRead, Goto, control
    <2> QED
      BY <2>1, <2>2
  <1>7. ASSUME NEW c \in Conns, PatchRename(c) PROVE TypeOK'
    <2>1. CASE PatchError(c)
      BY <1>7, <2>1 DEF PatchRename, PatchError, Reply, Goto, Unlock, control
    <2>2. CASE ~PatchError(c)
      <3>1. topo' \in Topologies
        BY <1>7, <2>2 DEF PatchRename, Patched, HandlerLocals, Topologies
      <3> QED
        BY <1>7, <2>2, <3>1 DEF PatchRename, Goto, control
    <2> QED
      BY <2>1, <2>2
  <1>8. ASSUME NEW c \in Conns, Reload(c) PROVE TypeOK'
    BY <1>8, ReloadOutcome DEF Reply, Goto
  <1>9. CASE Crash
    BY <1>9 DEF Crash, control
  <1>10. CASE ControlReload
    <2>1. hup' = FALSE
      BY <1>10 DEF ControlReload
    <2>2. hup' \in BOOLEAN
      BY <2>1, ZenonT(40)
    <2> QED
      BY <1>10, <2>2 DEF ControlReload
  <1>11. ASSUME NEW r \in Rests, HandEdit(r) PROVE TypeOK'
    BY <1>11 DEF HandEdit, Topologies
  <1>12. CASE UNCHANGED vars
    BY <1>12 DEF vars
  <1> QED
    BY <1>1, <1>2, <1>3, <1>4, <1>5, <1>6, <1>7, <1>8, <1>9, <1>10, <1>11,
       <1>12 DEF Next, Handler

\* A handler's local variables are what its next step expects.
LEMMA LocalsStep == Inv /\ [Next]_vars => HandlerLocals'
  <1> SUFFICES ASSUME Inv, [Next]_vars PROVE HandlerLocals'
    OBVIOUS
  <1> USE ConstAssumption DEF Inv, TypeOK, HandlerLocals
  <1>1. ASSUME NEW c \in Conns, auth(c) PROVE HandlerLocals'
    BY <1>1 DEF auth, Reply, Goto, NoRequest, Requests
  <1>2. ASSUME NEW c \in Conns, Lock(c) PROVE HandlerLocals'
    BY <1>2 DEF Lock, Goto
  <1>3. ASSUME NEW c \in Conns, getSigs(c) PROVE HandlerLocals'
    BY <1>3 DEF getSigs, Reply, Goto
  <1>4. ASSUME NEW c \in Conns, methodNotAllowed(c) PROVE HandlerLocals'
    BY <1>4 DEF methodNotAllowed, Reply, Goto
  <1>5. ASSUME NEW c \in Conns, putSigs(c) PROVE HandlerLocals'
    BY <1>5 DEF putSigs, Reply, Goto, Requests, NoRequest
  <1>6. ASSUME NEW c \in Conns, PatchRead(c) PROVE HandlerLocals'
    BY <1>6 DEF PatchRead, PatchError, Reply, Goto
  <1>7. ASSUME NEW c \in Conns, PatchRename(c) PROVE HandlerLocals'
    BY <1>7 DEF PatchRename, PatchError, Reply, Goto
  <1>8. ASSUME NEW c \in Conns, Reload(c) PROVE HandlerLocals'
    BY <1>8 DEF Reload, Reply, Goto
  <1>9. CASE Crash
    BY <1>9 DEF Crash
  <1>10. CASE ControlReload
    BY <1>10 DEF ControlReload
  <1>11. ASSUME NEW r \in Rests, HandEdit(r) PROVE HandlerLocals'
    BY <1>11 DEF HandEdit
  <1>12. CASE UNCHANGED vars
    BY <1>12 DEF vars
  <1> QED
    BY <1>1, <1>2, <1>3, <1>4, <1>5, <1>6, <1>7, <1>8, <1>9, <1>10, <1>11,
       <1>12 DEF Next, Handler

\* The mutex names the one handler past mu.Lock(), through every path on
\* which that handler returns and through a crash.
LEMMA MutexStep == Inv /\ [Next]_vars => MutexHeldByHandler'
  <1> SUFFICES ASSUME Inv, [Next]_vars PROVE MutexHeldByHandler'
    OBVIOUS
  <1> USE ConstAssumption DEF Inv, TypeOK, MutexHeldByHandler, Critical
  <1>1. ASSUME NEW c \in Conns, auth(c) PROVE MutexHeldByHandler'
    BY <1>1 DEF auth, Reply, Goto
  <1>2. ASSUME NEW c \in Conns, Lock(c) PROVE MutexHeldByHandler'
    BY <1>2 DEF Lock, Goto
  <1>3. ASSUME NEW c \in Conns, getSigs(c) PROVE MutexHeldByHandler'
    BY <1>3 DEF getSigs, Reply, Goto, Unlock
  <1>4. ASSUME NEW c \in Conns, methodNotAllowed(c) PROVE MutexHeldByHandler'
    BY <1>4 DEF methodNotAllowed, Reply, Goto, Unlock
  <1>5. ASSUME NEW c \in Conns, putSigs(c) PROVE MutexHeldByHandler'
    BY <1>5 DEF putSigs, Reply, Goto, Unlock
  <1>6. ASSUME NEW c \in Conns, PatchRead(c) PROVE MutexHeldByHandler'
    BY <1>6 DEF PatchRead, PatchError, Unlock, Reply, Goto
  <1>7. ASSUME NEW c \in Conns, PatchRename(c) PROVE MutexHeldByHandler'
    BY <1>7 DEF PatchRename, PatchError, Unlock, Reply, Goto
  <1>8. ASSUME NEW c \in Conns, Reload(c) PROVE MutexHeldByHandler'
    BY <1>8 DEF Reload, Reply, Goto, Unlock
  <1>9. CASE Crash
    BY <1>9 DEF Crash
  <1>10. CASE ControlReload
    BY <1>10 DEF ControlReload
  <1>11. ASSUME NEW r \in Rests, HandEdit(r) PROVE MutexHeldByHandler'
    BY <1>11 DEF HandEdit
  <1>12. CASE UNCHANGED vars
    BY <1>12 DEF vars
  <1> QED
    BY <1>1, <1>2, <1>3, <1>4, <1>5, <1>6, <1>7, <1>8, <1>9, <1>10, <1>11,
       <1>12 DEF Next, Handler

\* While a PUT waits for its reload command no other handler replaces the
\* file, because none is past mu.Lock(), and a hand edit keeps the managed
\* entries.
LEMMA PutStep == Inv /\ [Next]_vars => PutWinsWholesale'
  <1> SUFFICES ASSUME Inv, [Next]_vars PROVE PutWinsWholesale'
    OBVIOUS
  <1> USE ConstAssumption DEF Inv, TypeOK, PutWinsWholesale
  <1>1. ASSUME NEW c \in Conns, auth(c) PROVE PutWinsWholesale'
    BY <1>1 DEF auth, Reply, Goto
  <1>2. ASSUME NEW c \in Conns, Lock(c) PROVE PutWinsWholesale'
    BY <1>2 DEF Lock, Goto
  <1>3. ASSUME NEW c \in Conns, getSigs(c) PROVE PutWinsWholesale'
    BY <1>3 DEF getSigs, Reply, Goto
  <1>4. ASSUME NEW c \in Conns, methodNotAllowed(c) PROVE PutWinsWholesale'
    BY <1>4 DEF methodNotAllowed, Reply, Goto
  <1>5. ASSUME NEW c \in Conns, putSigs(c) PROVE PutWinsWholesale'
    BY <1>5 DEF putSigs, Reply, Goto
  <1>6. ASSUME NEW c \in Conns, PatchRead(c) PROVE PutWinsWholesale'
    BY <1>6 DEF PatchRead, PatchError, Reply, Goto
  <1>7. ASSUME NEW c \in Conns, PatchRename(c) PROVE PutWinsWholesale'
    BY <1>7 DEF PatchRename, PatchError, Reply, Goto,
       Patched, HandlerLocals, MutexHeldByHandler, Critical, Topologies
  <1>8. ASSUME NEW c \in Conns, Reload(c) PROVE PutWinsWholesale'
    BY <1>8 DEF Reload, Reply, Goto
  <1>9. CASE Crash
    BY <1>9 DEF Crash
  <1>10. CASE ControlReload
    BY <1>10 DEF ControlReload
  <1>11. ASSUME NEW r \in Rests, HandEdit(r) PROVE PutWinsWholesale'
    BY <1>11 DEF HandEdit, Topologies
  <1>12. CASE UNCHANGED vars
    BY <1>12 DEF vars
  <1> QED
    BY <1>1, <1>2, <1>3, <1>4, <1>5, <1>6, <1>7, <1>8, <1>9, <1>10, <1>11,
       <1>12 DEF Next, Handler

\* Whatever replaces the file is followed by a signal before lastPut can be
\* "204" again.
LEMMA LoadedStep == Inv /\ [Next]_vars => LoadedAfter204'
  <1> SUFFICES ASSUME Inv, [Next]_vars PROVE LoadedAfter204'
    OBVIOUS
  <1> USE ConstAssumption DEF Inv, TypeOK, LoadedAfter204
  <1>1. ASSUME NEW c \in Conns, auth(c) PROVE LoadedAfter204'
    BY <1>1 DEF auth, control
  <1>2. ASSUME NEW c \in Conns, Lock(c) PROVE LoadedAfter204'
    BY <1>2 DEF Lock, control
  <1>3. ASSUME NEW c \in Conns, getSigs(c) PROVE LoadedAfter204'
    BY <1>3 DEF getSigs, control
  <1>4. ASSUME NEW c \in Conns, methodNotAllowed(c) PROVE LoadedAfter204'
    BY <1>4 DEF methodNotAllowed, control
  <1>5. ASSUME NEW c \in Conns, putSigs(c) PROVE LoadedAfter204'
    BY <1>5 DEF putSigs, control
  <1>6. ASSUME NEW c \in Conns, PatchRead(c) PROVE LoadedAfter204'
    BY <1>6 DEF PatchRead, PatchError, control
  <1>7. ASSUME NEW c \in Conns, PatchRename(c) PROVE LoadedAfter204'
    BY <1>7 DEF PatchRename, PatchError, control
  <1>8. ASSUME NEW c \in Conns, Reload(c) PROVE LoadedAfter204'
    BY <1>8 DEF Reload, Reply
  <1>9. CASE Crash
    BY <1>9 DEF Crash, control
  <1>10. CASE ControlReload
    BY <1>10 DEF ControlReload
  <1>11. ASSUME NEW r \in Rests, HandEdit(r) PROVE LoadedAfter204'
    BY <1>11 DEF HandEdit, Topologies
  <1>12. CASE UNCHANGED vars
    BY <1>12 DEF vars
  <1> QED
    BY <1>1, <1>2, <1>3, <1>4, <1>5, <1>6, <1>7, <1>8, <1>9, <1>10, <1>11,
       <1>12 DEF Next, Handler

\* The invariant holds in every reachable state.
THEOREM Invariance == Spec => []Inv
  <1>1. Inv /\ [Next]_vars => Inv'
    BY TypeStep, LocalsStep, MutexStep, PutStep, LoadedStep DEF Inv
  <1> QED
    BY InitInv, <1>1, PTL DEF Spec

\* The types, for every number of connections and every document.
THEOREM TypeCorrect == Spec => []TypeOK
  BY Invariance, PTL DEF Inv

\* At most one handler is past mu.Lock(), and it is the one holding mu.
THEOREM MutualExclusion == Spec => []MutexHeldByHandler
  BY Invariance, PTL DEF Inv

\* From its rename to its answer a PUT's set is the managed set on disk.
THEOREM LastPutWins == Spec => []PutWinsWholesale
  BY Invariance, PTL DEF Inv

\* Once a 204 is out and its signal served, the control service runs with the
\* managed set of the file.
THEOREM ConfirmedIsLoaded == Spec => []LoadedAfter204
  BY Invariance, PTL DEF Inv

----------------------------------------------------------------------------
\* The register's view of the calls and of the sets they carry.
Calls == [c \in Conns |-> AbsCall(c)]
Wants == [c \in Conns |-> AbsWant(c)]

\* The register's state of a call whose handler is at `label`.
CallAt(label) == IF label = "idle" THEN "idle"
                 ELSE IF label = "reload" THEN "taken" ELSE "open"

\* A handler that moves changes its own call and no other.
LEMMA CallMoves ==
    ASSUME TypeOK, NEW c \in Conns, NEW label, Goto(c, label)
    PROVE  Calls' = [Calls EXCEPT ![c] = CallAt(label)]
  <1>1. DOMAIN pc = Conns /\ pc' = [pc EXCEPT ![c] = label]
    BY DEF TypeOK, Goto
  <1>2. \A d \in Conns : pc'[d] = IF d = c THEN label ELSE pc[d]
    BY <1>1
  <1>3. Calls' = [d \in Conns |-> CallAt(pc'[d])]
    BY DEF Calls, AbsCall, CallAt
  <1>4. Calls = [d \in Conns |-> CallAt(pc[d])]
    BY DEF Calls, AbsCall, CallAt
  <1> HIDE DEF Calls, CallAt
  <1> QED
    BY <1>2, <1>3, <1>4

\* The set that a request carries into the register.
WantOf(r) == IF r.body = BadBody THEN NoSet ELSE r.body

\* A handler's request determines what its own call wants and no other's.
LEMMA WantMoves ==
    ASSUME TypeOK, NEW c \in Conns, NEW r, req' = [req EXCEPT ![c] = r]
    PROVE  Wants' = [Wants EXCEPT ![c] = WantOf(r)]
  <1>1. DOMAIN req = Conns
    BY DEF TypeOK
  <1>2. \A d \in Conns : req'[d] = IF d = c THEN r ELSE req[d]
    BY <1>1
  <1>3. Wants' = [d \in Conns |-> WantOf(req'[d])]
    BY DEF Wants, AbsWant, WantOf
  <1>4. Wants = [d \in Conns |-> WantOf(req[d])]
    BY DEF Wants, AbsWant, WantOf
  <1> HIDE DEF Wants, WantOf
  <1> QED
    BY <1>2, <1>3, <1>4

\* A handler that answers ends its call of the register.
LEMMA ReplyEndsCall ==
    ASSUME Inv, NEW c \in Conns, NEW code, NEW sigs, Reply(c, code, sigs),
           topo' = topo
    PROVE  Registry!Answered(c, code, sigs)
  <1>1. Calls' = [Calls EXCEPT ![c] = "idle"]
    BY CallMoves DEF Inv, Reply, CallAt
  <1>2. Wants' = [Wants EXCEPT ![c] = NoSet]
    <2>1. WantOf(NoRequest) = NoSet
      BY DEF WantOf, NoRequest
    <2> QED
      BY <2>1, WantMoves, Zenon DEF Inv, Reply
  <1> QED
    BY <1>1, <1>2 DEF Calls, Wants, Registry!Answered, Reply

\* A handler that moves on without answering and without replacing the file
\* is invisible in the register.
LEMMA MoveIsInvisible ==
    ASSUME Inv, NEW c \in Conns, NEW label, Goto(c, label),
           pc[c] \notin {"idle", "reload"}, label \notin {"idle", "reload"},
           topo' = topo, req' = req, answer' = answer
    PROVE  UNCHANGED Registry!regVars
  <1>1. Calls' = Calls
    <2>1. Calls' = [Calls EXCEPT ![c] = "open"]
      BY CallMoves DEF Inv, CallAt
    <2>2. Calls \in [Conns -> {"idle", "taken", "open"}] /\ Calls[c] = "open"
      BY DEF Calls, AbsCall
    <2> HIDE DEF Calls
    <2> QED
      BY <2>1, <2>2
  <1>2. Wants' = Wants
    BY DEF Wants, AbsWant
  <1> QED
    BY <1>1, <1>2 DEF Calls, Wants, Registry!regVars

\* Every step of the registrar is a step of the register or invisible there.
LEMMA AbsStep == Inv /\ [Next]_vars => [Registry!RegNext]_(Registry!regVars)
  <1> SUFFICES ASSUME Inv, [Next]_vars
               PROVE  Registry!RegNext \/ UNCHANGED Registry!regVars
    OBVIOUS
  <1>1. ASSUME NEW c \in Conns, auth(c) PROVE Registry!RegNext
    <2>1. CASE Reply(c, 401, NoSet)
      <3>1. AbsCall(c) = "idle" /\ topo' = topo
        BY <1>1 DEF auth, AbsCall
      <3> QED
        BY <2>1, <3>1, ReplyEndsCall DEF Registry!RegNext, Registry!Deny
    <2>2. ASSUME NEW r \in Requests, req' = [req EXCEPT ![c] = r],
                 Goto(c, "lock"), UNCHANGED <<raw, answer>>
          PROVE  Registry!RegNext
      <3> DEFINE s == IF r.body = BadBody THEN NoSet ELSE r.body
      <3>1. s \in SigSets \cup {NoSet}
        BY DEF Requests
      <3>2. Calls' = [Calls EXCEPT ![c] = "open"]
        BY <2>2, CallMoves DEF Inv, CallAt
      <3>3. Wants' = [Wants EXCEPT ![c] = s]
        BY <2>2, WantMoves, Zenon DEF Inv, WantOf
      <3>4. AbsCall(c) = "idle" /\ topo' = topo
        BY <1>1 DEF auth, AbsCall
      <3>5. Registry!Open(c, s)
        BY <2>2, <3>2, <3>3, <3>4 DEF Calls, Wants, Registry!Open
      <3> QED
        BY <3>1, <3>5 DEF Registry!RegNext
    <2> QED
      BY <1>1, <2>1, <2>2 DEF auth
  <1>2. ASSUME NEW c \in Conns, Lock(c) PROVE UNCHANGED Registry!regVars
    BY <1>2, MoveIsInvisible DEF Lock
  <1>3. ASSUME NEW c \in Conns, getSigs(c) PROVE Registry!RegNext
    <2>1. AbsCall(c) = "open" /\ topo' = topo /\ AbsWant(c) = NoSet
      BY <1>3, ConstAssumption
         DEF getSigs, AbsCall, AbsWant, Inv, TypeOK, Requests, NoRequest
    <2>2. CASE Reply(c, 200, topo.managed)
      BY <2>1, <2>2, ReplyEndsCall DEF Registry!RegNext, Registry!Show
    <2>3. CASE Reply(c, 500, NoSet)
      BY <2>1, <2>3, ReplyEndsCall
         DEF Registry!RegNext, Registry!Refuse, Registry!Refusals
    <2> QED
      BY <1>3, <2>2, <2>3 DEF getSigs
  <1>4. ASSUME NEW c \in Conns, NEW code \in {400, 405, 500},
               Reply(c, code, NoSet), topo' = topo,
               pc[c] \in {"sigs", "patch", "rename"}
        PROVE  Registry!RegNext
    <2>1. AbsCall(c) = "open"
      BY <1>4 DEF AbsCall
    <2> QED
      BY <1>4, <2>1, ReplyEndsCall
         DEF Registry!RegNext, Registry!Refuse, Registry!Refusals
  <1>5. ASSUME NEW c \in Conns, methodNotAllowed(c) PROVE Registry!RegNext
    BY <1>4, <1>5 DEF methodNotAllowed
  <1>6. ASSUME NEW c \in Conns, putSigs(c)
        PROVE  Registry!RegNext \/ UNCHANGED Registry!regVars
    BY <1>4, <1>6, MoveIsInvisible DEF putSigs
  <1>7. ASSUME NEW c \in Conns, PatchRead(c)
        PROVE  Registry!RegNext \/ UNCHANGED Registry!regVars
    BY <1>4, <1>7, MoveIsInvisible DEF PatchRead, PatchError
  <1>8. ASSUME NEW c \in Conns, PatchRename(c) PROVE Registry!RegNext
    <2>1. CASE PatchError(c)
      BY <1>4, <1>8, <2>1 DEF PatchRename, PatchError
    <2>2. CASE ~PatchError(c)
      <3>1. /\ pc[c] = "rename" /\ Goto(c, "reload")
            /\ topo' = Patched(raw[c], req[c].body)
            /\ req' = req /\ answer' = answer
        BY <1>8, <2>2 DEF PatchRename
      <3>2. Calls' = [Calls EXCEPT ![c] = "taken"]
        BY <3>1, CallMoves DEF Inv, CallAt
      <3>3. Wants' = Wants
        BY <3>1 DEF Wants, AbsWant
      <3>4. /\ AbsWant(c) = req[c].body /\ AbsWant(c) # NoSet
            /\ AbsCall(c) = "open"
        BY <3>1, ConstAssumption
           DEF Inv, HandlerLocals, AbsWant, AbsCall, SigSets
      <3>5. topo'.managed = req[c].body
        BY <3>1, ConstAssumption
           DEF Inv, HandlerLocals, Topologies, Patched
      <3>6. Registry!Take(c)
        BY <3>1, <3>2, <3>3, <3>4, <3>5 DEF Calls, Wants, Registry!Take
      <3> QED
        BY <3>6 DEF Registry!RegNext
    <2> QED
      BY <2>1, <2>2
  <1>9. ASSUME NEW c \in Conns, Reload(c) PROVE Registry!RegNext
    <2>1. /\ AbsCall(c) = "taken" /\ topo' = topo
          /\ topo.managed = AbsWant(c)
      BY <1>9, ConstAssumption
         DEF Reload, AbsCall, AbsWant, Inv, HandlerLocals, PutWinsWholesale,
             SigSets
    <2>2. CASE Reply(c, 204, NoSet)
      BY <2>1, <2>2, ReplyEndsCall DEF Registry!RegNext, Registry!Confirm
    <2>3. CASE Reply(c, 502, NoSet)
      BY <2>1, <2>3, ReplyEndsCall DEF Registry!RegNext, Registry!ReloadError
    <2> QED
      BY <1>9, <2>2, <2>3, Zenon DEF Reload
  <1>10. CASE Crash
    <2>1. Calls' = [c \in Conns |-> "idle"]
      BY <1>10 DEF Crash, Calls, AbsCall
    <2>2. Wants' = [c \in Conns |-> NoSet]
      BY <1>10 DEF Crash, Wants, AbsWant, NoRequest
    <2> QED
      BY <1>10, <2>1, <2>2
         DEF Crash, Calls, Wants, Registry!RegNext, Registry!Vanish
  <1>11. ASSUME topo'.managed = topo.managed,
                pc' = pc, req' = req, answer' = answer
         PROVE  UNCHANGED Registry!regVars
    BY <1>11 DEF AbsCall, AbsWant, Registry!regVars
  <1>12. CASE ControlReload
    BY <1>11, <1>12 DEF ControlReload
  <1>13. ASSUME NEW r \in Rests, HandEdit(r)
         PROVE  UNCHANGED Registry!regVars
    BY <1>11, <1>13 DEF HandEdit, Inv, TypeOK, Topologies
  <1>14. CASE UNCHANGED vars
    BY <1>11, <1>14 DEF vars
  <1> QED
    BY <1>1, <1>2, <1>3, <1>5, <1>6, <1>7, <1>8, <1>9, <1>10, <1>12, <1>13,
       <1>14 DEF Next, Handler

\* The registrar, with its mutex, its file and its reload command, implements
\* the atomic register: for every PUT, GET, crash and hand edit.
THEOREM Refinement == Spec => ImplementsRegistry
  <1>1. Init => Registry!RegInit
    BY DEF Init, Registry!RegInit, AbsCall, AbsWant, NoRequest, NoAnswer,
       Registry!NoAnswer, Topologies
  <1> QED
    BY <1>1, Invariance, AbsStep, PTL DEF Spec, ImplementsRegistry,
       Registry!RegSpec
=============================================================================
