----------------------------- MODULE Registrar -----------------------------
(***************************************************************************)
(* The AS-side registrar (internal/registrar, cmd/registrar): an HTTP      *)
(* service beside the SCION control service that owns the entries of       *)
(* topology.json's `sigs` map whose name carries a prefix.                 *)
(*                                                                         *)
(* A connection runs one handler: auth, then the mutex, then GET or PUT.   *)
(* A PUT decodes its body, reads topology.json, replaces it by rename and  *)
(* runs the reload command, a signal after which the control service       *)
(* re-reads the file in its own time.  The process can die at any step.    *)
(* An AS operator edits the rest of the file by hand at any time, outside  *)
(* the mutex.                                                              *)
(*                                                                         *)
(* topology.json is [managed, rest]: `managed` maps a node name (prefix    *)
(* stripped) to its SIG address or NoSIG, `rest` stands for every other    *)
(* field and every entry without the prefix.                               *)
(***************************************************************************)
CONSTANTS Conns, Names, Addrs, Rests,
          NoSIG,      \* a name with no entry
          NoConn,     \* the mutex is free
          BadBody,    \* a PUT body that is not a JSON map of SIGs
          NoSet,      \* no body, no set in an answer
          NoTopo      \* nothing read yet

ASSUME ConstAssumption ==
    /\ NoSIG \notin Addrs
    /\ NoConn \notin Conns
    /\ {BadBody, NoSet} \cap [Names -> Addrs \cup {NoSIG}] = {}
    /\ BadBody # NoSet
    /\ NoTopo \notin [managed : [Names -> Addrs \cup {NoSIG}], rest : Rests]

VARIABLES
    topo,     \* topology.json
    mu,       \* Server.mu: the connection holding it, or NoConn
    pc,       \* pc[c]: the next step of the handler on c
    req,      \* req[c]: the request being served on c
    raw,      \* raw[c]: topology.json as PatchSigs read it
    answer,   \* the last answer sent, and on which connection
    hup,      \* a reload signal the control service has not yet served
    cs,       \* the topology the control service runs with
    lastPut   \* history: outcome of the last PUT to replace the file

vars == <<topo, mu, pc, req, raw, answer, hup, cs, lastPut>>
control == <<hup, cs>>

SigSets == [Names -> Addrs \cup {NoSIG}]
Topologies == [managed : SigSets, rest : Rests]
\* Only a PUT has a body.
Requests == [method : {"GET", "OTHER"}, body : {NoSet}]
            \cup [method : {"PUT"}, body : SigSets \cup {BadBody}]
NoRequest == [method |-> "NONE", body |-> NoSet]
NoAnswer == [conn |-> NoConn, code |-> 0, sigs |-> NoSet]

\* The steps at which a handler holds the mutex.
Critical == {"sigs", "patch", "rename", "reload"}

Init == /\ topo \in Topologies
        /\ mu = NoConn
        /\ pc = [c \in Conns |-> "idle"]
        /\ req = [c \in Conns |-> NoRequest]
        /\ raw = [c \in Conns |-> NoTopo]
        /\ answer = NoAnswer
        /\ hup = FALSE
        /\ cs = topo
        /\ lastPut = "none"

Goto(c, label) == pc' = [pc EXCEPT ![c] = label]

\* The handler answers and returns; its local variables are gone.
Reply(c, code, sigs) ==
    /\ Goto(c, "idle")
    /\ req' = [req EXCEPT ![c] = NoRequest]
    /\ raw' = [raw EXCEPT ![c] = NoTopo]
    /\ answer' = [conn |-> c, code |-> code, sigs |-> sigs]

\* The deferred mu.Unlock() of sigs.
Unlock == mu' = NoConn

\* A request arrives; without the bearer token it goes no further.
auth(c) == /\ pc[c] = "idle"
           /\ \/ /\ \E r \in Requests : req' = [req EXCEPT ![c] = r]
                 /\ Goto(c, "lock")
                 /\ UNCHANGED <<raw, answer>>
              \/ Reply(c, 401, NoSet)
           /\ UNCHANGED <<topo, mu, control, lastPut>>

\* Mutant: no mutex.
LockFree(c) == /\ pc[c] = "lock"
               /\ mu' = c
               /\ Goto(c, "sigs")
               /\ UNCHANGED <<topo, req, raw, answer, control, lastPut>>

Lock(c) == /\ pc[c] = "lock"
           /\ mu = NoConn
           /\ mu' = c
           /\ Goto(c, "sigs")
           /\ UNCHANGED <<topo, req, raw, answer, control, lastPut>>

\* Mutant: the error path of GET returns without unlocking.
getSigsKeepsLock(c) == /\ pc[c] = "sigs"
                       /\ req[c].method = "GET"
                       /\ \/ Reply(c, 200, topo.managed) /\ Unlock
                          \/ Reply(c, 500, NoSet) /\ UNCHANGED mu
                       /\ UNCHANGED <<topo, control, lastPut>>

\* GET: the managed entries as the file has them, or 500 if it is unreadable.
getSigs(c) == /\ pc[c] = "sigs"
              /\ req[c].method = "GET"
              /\ \/ Reply(c, 200, topo.managed)
                 \/ Reply(c, 500, NoSet)
              /\ Unlock
              /\ UNCHANGED <<topo, control, lastPut>>

methodNotAllowed(c) == /\ pc[c] = "sigs"
                       /\ req[c].method = "OTHER"
                       /\ Reply(c, 405, NoSet)
                       /\ Unlock
                       /\ UNCHANGED <<topo, control, lastPut>>

\* Mutant: a body that does not decode is not refused.
putSigsAnyBody(c) == /\ pc[c] = "sigs"
                     /\ req[c].method = "PUT"
                     /\ Goto(c, "patch")
                     /\ UNCHANGED <<topo, mu, req, raw, answer, control, lastPut>>

\* PUT, first step: decode the body.
putSigs(c) == /\ pc[c] = "sigs"
              /\ req[c].method = "PUT"
              /\ IF req[c].body = BadBody
                    THEN Reply(c, 400, NoSet) /\ Unlock
                    ELSE Goto(c, "patch") /\ UNCHANGED <<mu, req, raw, answer>>
              /\ UNCHANGED <<topo, control, lastPut>>

\* PatchSigs fails (read, parse, temporary file, rename) leaving the file as
\* it was.
PatchError(c) == /\ Reply(c, 500, NoSet)
                 /\ Unlock
                 /\ UNCHANGED <<topo, lastPut>>

\* PatchSigs, os.ReadFile.
PatchRead(c) == /\ pc[c] = "patch"
                /\ \/ /\ raw' = [raw EXCEPT ![c] = topo]
                      /\ Goto(c, "rename")
                      /\ UNCHANGED <<topo, mu, req, answer, lastPut>>
                   \/ PatchError(c)
                /\ UNCHANGED control

\* Mutant: entries of earlier PUTs are kept.
PatchedMerge(doc, desired) ==
    [doc EXCEPT !.managed = [n \in Names |->
        IF desired[n] = NoSIG THEN doc.managed[n] ELSE desired[n]]]

\* PatchSigs on the document read: every managed entry is dropped, the
\* desired ones are added, the rest is kept.
Patched(doc, desired) == [doc EXCEPT !.managed = desired]

\* Mutant: an error after the rename is answered 500.
PatchRenameThenFail(c) == /\ pc[c] = "rename"
                          /\ topo' = Patched(raw[c], req[c].body)
                          /\ \/ /\ Goto(c, "reload")
                                /\ lastPut' = "open"
                                /\ UNCHANGED <<mu, req, raw, answer>>
                             \/ /\ Reply(c, 500, NoSet)
                                /\ Unlock
                                /\ lastPut' = "failed"
                          /\ UNCHANGED control

\* PatchSigs, os.Rename of the rewritten document over the file.
PatchRename(c) == /\ pc[c] = "rename"
                  /\ \/ /\ topo' = Patched(raw[c], req[c].body)
                        /\ Goto(c, "reload")
                        /\ lastPut' = "open"
                        /\ UNCHANGED <<mu, req, raw, answer>>
                     \/ PatchError(c)
                  /\ UNCHANGED control

\* Mutant: the outcome of the command is not looked at.
ReloadUnchecked(c) == /\ pc[c] = "reload"
                      /\ \E delivered \in BOOLEAN : hup' = (hup \/ delivered)
                      /\ Reply(c, 204, NoSet)
                      /\ lastPut' = "204"
                      /\ Unlock
                      /\ UNCHANGED <<topo, cs>>

\* Reload runs the command.  A failed or killed command may have delivered
\* its signal all the same.
Reload(c) == /\ pc[c] = "reload"
             /\ \/ /\ hup' = TRUE
                   /\ Reply(c, 204, NoSet)
                   /\ lastPut' = "204"
                \/ /\ \E delivered \in BOOLEAN : hup' = (hup \/ delivered)
                   /\ Reply(c, 502, NoSet)
                   /\ lastPut' = "failed"
             /\ Unlock
             /\ UNCHANGED <<topo, cs>>

\* The process dies and is started again: handlers and mutex are gone, the
\* file is not.  Graceful shutdown cuts handlers off after 5 seconds.
Crash == /\ pc' = [c \in Conns |-> "idle"]
         /\ mu' = NoConn
         /\ req' = [c \in Conns |-> NoRequest]
         /\ raw' = [c \in Conns |-> NoTopo]
         /\ lastPut' = IF lastPut = "open" THEN "failed" ELSE lastPut
         /\ UNCHANGED <<topo, answer, control>>

\* External: the control service serves SIGHUP and re-reads the file.
ControlReload == /\ hup
                 /\ hup' = FALSE
                 /\ cs' = topo
                 /\ UNCHANGED <<topo, mu, pc, req, raw, answer, lastPut>>

\* External: the AS operator edits the file outside the managed entries and
\* signals the control service.
HandEdit(r) == /\ r # topo.rest
               /\ topo' = [topo EXCEPT !.rest = r]
               /\ hup' = TRUE
               /\ UNCHANGED <<mu, pc, req, raw, answer, cs, lastPut>>

Handler(c) == Lock(c) \/ getSigs(c) \/ methodNotAllowed(c)
              \/ putSigs(c) \/ PatchRead(c) \/ PatchRename(c) \/ Reload(c)

Next == \/ \E c \in Conns : auth(c) \/ Handler(c)
        \/ Crash
        \/ ControlReload
        \/ \E r \in Rests : HandEdit(r)

Spec == Init /\ [][Next]_vars

(***************************************************************************)
(* Fairness: goroutines that can run do run; sync.Mutex hands itself to a  *)
(* waiter that has waited a millisecond, so a waiter is not starved; the   *)
(* reload command is killed at ReloadTimeout, so Reload always returns.    *)
(***************************************************************************)
Fairness == \A c \in Conns : WF_vars(Handler(c)) /\ SF_vars(Lock(c))

LiveSpec == Spec /\ Fairness /\ WF_vars(ControlReload)

----------------------------------------------------------------------------
\* Types of the registrar's state: the file, the mutex, the handlers, the
\* control service.
TypeOK ==
    /\ topo \in Topologies
    /\ mu \in Conns \cup {NoConn}
    /\ pc \in [Conns -> {"idle", "lock"} \cup Critical]
    /\ req \in [Conns -> Requests \cup {NoRequest}]
    /\ raw \in [Conns -> Topologies \cup {NoTopo}]
    /\ answer \in [conn : Conns \cup {NoConn},
                   code : {0, 200, 204, 400, 401, 405, 500, 502},
                   sigs : SigSets \cup {NoSet}]
    /\ hup \in BOOLEAN
    /\ cs \in Topologies
    /\ lastPut \in {"none", "open", "204", "failed"}

\* The handler past mu.Lock() is the one the mutex names, so two handlers
\* are never past it together; and the mutex is never left locked by a
\* handler that has returned (server.go: the deferred Unlock).
MutexHeldByHandler == \A c \in Conns : pc[c] \in Critical <=> mu = c

\* A handler's local variables at each of its steps: the request once
\* authorized, a decoded body from "patch" on, the document read at "rename".
HandlerLocals == \A c \in Conns :
    /\ pc[c] = "idle" <=> req[c] = NoRequest
    /\ pc[c] \in {"patch", "rename", "reload"} => req[c].body \in SigSets
    /\ pc[c] = "rename" => raw[c] \in Topologies

\* "With the mutex the last completed PUT wins wholesale" (server.go): from
\* the rename until its answer, a PUT's set is exactly the managed set in
\* topology.json, whatever other requests, crashes and hand edits happen.
PutWinsWholesale == \A c \in Conns :
    pc[c] = "reload" => topo.managed = req[c].body

\* The control service runs with the managed set of topology.json unless a
\* signal is still to be served or the last PUT to replace the file was not
\* answered 204.  A 204 is therefore final: no crash, hand edit or later
\* failing PUT that changed nothing leaves the control service behind.
LoadedAfter204 == lastPut \in {"none", "204"} /\ ~hup => cs.managed = topo.managed

\* A request that passed into the server is answered (or its process died):
\* no error path of sigs keeps the mutex, and nobody waits for ever.
RequestsAnswered == \A c \in Conns : pc[c] # "idle" ~> pc[c] = "idle"

----------------------------------------------------------------------------
(***************************************************************************)
(* The registrar implements SigRegistry: the rename is the instant a PUT   *)
(* takes effect, and lock, file and signal are hidden.                     *)
(***************************************************************************)
AbsCall(c) == IF pc[c] = "idle" THEN "idle"
              ELSE IF pc[c] = "reload" THEN "taken" ELSE "open"

AbsWant(c) == IF req[c].body = BadBody THEN NoSet ELSE req[c].body

Registry == INSTANCE SigRegistry WITH
    Sets <- SigSets,
    managed <- topo.managed,
    call <- [c \in Conns |-> AbsCall(c)],
    want <- [c \in Conns |-> AbsWant(c)]

\* Every step of the registrar is a step of the atomic register or changes
\* nothing there: PUTs are atomic, 204 and 502 mean the set is in place,
\* every other error means nothing was changed, GET reads the register.
ImplementsRegistry == Registry!RegSpec
=============================================================================
