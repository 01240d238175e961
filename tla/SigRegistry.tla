---------------------------- MODULE SigRegistry ----------------------------
(***************************************************************************)
(* What the registrar's HTTP API promises, without its lock, its file and  *)
(* its reload command: one register holding the operator-managed SIG set,  *)
(* read and replaced as a whole by requests that overlap in time.          *)
(*                                                                         *)
(*   - a PUT replaces the set at one instant or not at all, never in part; *)
(*   - 204 is sent only while the register still holds that PUT's set, so  *)
(*     the last PUT to complete wins wholesale;                            *)
(*   - 502 is the only error of a PUT that took effect, and 400, 401, 405  *)
(*     and 500 mean that nothing was changed;                              *)
(*   - a GET returns the register as it stands when the answer is made;    *)
(*   - a request may vanish without an answer (the process dies), with or  *)
(*     without having taken effect.                                        *)
(***************************************************************************)
CONSTANTS Conns,     \* connections a request can be open on
          Sets,      \* the managed sets a PUT can carry
          NoConn,    \* no connection
          NoSet      \* "not a PUT with a set", "no set in the answer"

VARIABLES managed,   \* the register
          call,      \* call[c]: "idle", "open" or "taken" (took effect)
          want,      \* want[c]: the set of the PUT open on c, or NoSet
          answer     \* the last answer sent, and on which connection

regVars == <<managed, call, want, answer>>

\* Error answers of a request that changed nothing.
Refusals == {400, 405, 500}

NoAnswer == [conn |-> NoConn, code |-> 0, sigs |-> NoSet]

RegInit == /\ managed \in Sets
           /\ call = [c \in Conns |-> "idle"]
           /\ want = [c \in Conns |-> NoSet]
           /\ answer = NoAnswer

Open(c, s) == /\ call[c] = "idle"
              /\ call' = [call EXCEPT ![c] = "open"]
              /\ want' = [want EXCEPT ![c] = s]
              /\ UNCHANGED <<managed, answer>>

\* The instant a PUT takes effect.
Take(c) == /\ call[c] = "open"
           /\ want[c] # NoSet
           /\ managed' = want[c]
           /\ call' = [call EXCEPT ![c] = "taken"]
           /\ UNCHANGED <<want, answer>>

Answered(c, code, sigs) ==
    /\ call' = [call EXCEPT ![c] = "idle"]
    /\ want' = [want EXCEPT ![c] = NoSet]
    /\ answer' = [conn |-> c, code |-> code, sigs |-> sigs]
    /\ UNCHANGED managed

Confirm(c) == /\ call[c] = "taken"
              /\ managed = want[c]
              /\ Answered(c, 204, NoSet)

ReloadError(c) == /\ call[c] = "taken"
                  /\ managed = want[c]
                  /\ Answered(c, 502, NoSet)

Show(c) == /\ call[c] = "open"
           /\ want[c] = NoSet
           /\ Answered(c, 200, managed)

\* A request without the bearer token.
Deny(c) == /\ call[c] = "idle"
           /\ Answered(c, 401, NoSet)

Refuse(c) == /\ call[c] = "open"
             /\ \E code \in Refusals : Answered(c, code, NoSet)

Vanish == /\ call' = [c \in Conns |-> "idle"]
          /\ want' = [c \in Conns |-> NoSet]
          /\ UNCHANGED <<managed, answer>>

RegNext == \/ Vanish
           \/ \E c \in Conns :
                 \/ \E s \in Sets \cup {NoSet} : Open(c, s)
                 \/ Take(c)
                 \/ Confirm(c)
                 \/ ReloadError(c)
                 \/ Show(c)
                 \/ Deny(c)
                 \/ Refuse(c)

RegSpec == RegInit /\ [][RegNext]_regVars
=============================================================================
