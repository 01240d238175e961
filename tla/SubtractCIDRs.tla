--------------------------- MODULE SubtractCIDRs ---------------------------
(***************************************************************************)
(* The prefixes a gateway accepts (package policy): prepare subtracts the  *)
(* forbidden CIDRs from the whole address space by recursive halving and   *)
(* validates the result.                                                   *)
(*                                                                         *)
(* An address is a function from bit positions, 1 the most significant, to *)
(* bits.  The calls of walk still to be made are a set: the order in which *)
(* walk visits them is lost when its result is sorted.                     *)
(***************************************************************************)
EXTENDS Naturals

CONSTANTS
    W,        \* bits of an address; 32
    Inputs,   \* the possible values of ForbiddenCIDRs
    Bad       \* a CIDR that does not parse, or is not IPv4

Addrs == [1 .. W -> {0, 1}]
Prefixes == [addr : Addrs, bits : 0 .. W]

ASSUME PrefixAssumption ==
    /\ W \in Nat
    /\ Inputs \subseteq SUBSET (Prefixes \cup {Bad})
    /\ Bad \notin Prefixes

VARIABLES
    forbidden,   \* ForbiddenCIDRs
    complete,    \* the input has a LocalIA and AcceptISDASes
    pc,          \* prepare: next step
    ex, todo,    \* subtractCIDRs: masked excludes, calls of walk to be made
    out          \* subtractCIDRs: the result so far

vars == <<forbidden, complete, pc, ex, todo, out>>

----------------------------------------------------------------------------
(* netip.Prefix (external)                                                 *)

Agree(a, b, n) == \A i \in 1 .. n : a[i] = b[i]
Contains(p, a) == Agree(p.addr, a, p.bits)
Overlaps(p, q) == IF p.bits < q.bits THEN Agree(p.addr, q.addr, p.bits)
                  ELSE Agree(p.addr, q.addr, q.bits)
Masked(p) == [p EXCEPT !.addr = [i \in 1 .. W |-> IF i <= p.bits THEN p.addr[i]
                                                  ELSE 0]]

----------------------------------------------------------------------------
\* 0.0.0.0/0
Base == [addr |-> [i \in 1 .. W |-> 0], bits |-> 0]

\* Mutant: the bit set is the last one of p.
upperHalfAddrOff(p) == [p.addr EXCEPT ![p.bits] = 1]

\* upperHalfAddr: the first bit after those of p is set.
upperHalfAddr(p) == [p.addr EXCEPT ![p.bits + 1] = 1]

\* Mutant: the halves are as long as p.
HalvesSame(p) == {[addr |-> p.addr, bits |-> p.bits],
                  [addr |-> upperHalfAddr(p), bits |-> p.bits]}

Halves(p) == {[addr |-> p.addr, bits |-> p.bits + 1],
              [addr |-> upperHalfAddr(p), bits |-> p.bits + 1]}

\* Mutant: an exclude within p is not seen.
OverlappingWider(p) == \E e \in ex : e.bits <= p.bits /\ Overlaps(p, e)

Overlapping(p) == \E e \in ex : Overlaps(p, e)

\* The comment on subtractCIDRs: e covers all of p.
Covered(p) == \E e \in ex : e.bits <= p.bits /\ Contains(e, p.addr)

Init == /\ forbidden \in Inputs
        /\ complete \in BOOLEAN
        /\ pc = "prepare"
        /\ ex = {} /\ todo = {} /\ out = {}

\* prepare, with the parsing of subtractCIDRs: excludes are masked.
Prepare == /\ pc = "prepare"
           /\ complete /\ Bad \notin forbidden
           /\ ex' = {Masked(e) : e \in forbidden}
           /\ todo' = {Masked(Base)}
           /\ pc' = "walk"
           /\ UNCHANGED <<forbidden, complete, out>>

PrepareError == /\ pc = "prepare"
                /\ ~complete \/ Bad \in forbidden
                /\ pc' = "error"
                /\ UNCHANGED <<forbidden, complete, ex, todo, out>>

\* walk(p), fully excluded; the test for the last bit is never needed.
WalkExcluded(p) == /\ Covered(p) \/ (Overlapping(p) /\ p.bits >= W)
                   /\ todo' = todo \ {p}
                   /\ UNCHANGED out

\* walk(p), no exclude in p.
WalkKeep(p) == /\ ~Overlapping(p)
               /\ todo' = todo \ {p}
               /\ out' = out \cup {p}

\* Mutant: p is split before it is known to be covered.
WalkSplitFirst(p) == /\ Overlapping(p)
                     /\ todo' = (todo \ {p}) \cup Halves(p)
                     /\ UNCHANGED out

\* Mutant: p is split whatever it overlaps.
WalkSplitAll(p) == /\ ~Covered(p) /\ p.bits < W
                   /\ todo' = (todo \ {p}) \cup Halves(p)
                   /\ UNCHANGED out

\* walk(p), some of p excluded: both halves.
WalkSplit(p) == /\ ~Covered(p) /\ Overlapping(p) /\ p.bits < W
                /\ todo' = (todo \ {p}) \cup Halves(p)
                /\ UNCHANGED out

Walk(p) == /\ pc = "walk"
           /\ p \in todo
           /\ WalkExcluded(p) \/ WalkKeep(p) \/ WalkSplit(p)
           /\ UNCHANGED <<forbidden, complete, pc, ex>>

\* ValidateNoOverlap(accepted, in.ForbiddenCIDRs)
ValidateNoOverlap == \A p \in out : p.bits # 0 /\ \A f \in forbidden : ~Overlaps(p, f)

\* The end of prepare: its result, or its guardrail's error.
Validate == /\ pc = "walk"
            /\ todo = {}
            /\ pc' = IF ValidateNoOverlap THEN "accepted" ELSE "error"
            /\ UNCHANGED <<forbidden, complete, ex, todo, out>>

Returned == pc \in {"accepted", "error"} /\ UNCHANGED vars

Next == \/ Prepare \/ PrepareError
        \/ \E p \in todo : Walk(p)
        \/ Validate \/ Returned

Spec == Init /\ [][Next]_vars

\* Fairness: the code is sequential and never waits.
LiveSpec == Spec /\ WF_vars(Next)

----------------------------------------------------------------------------
\* Types of the prefixes, and of the CIDRs once they are parsed.
TypeOK ==
    /\ forbidden \subseteq Prefixes \cup {Bad} /\ complete \in BOOLEAN
    /\ pc \in {"prepare", "walk", "accepted", "error"}
    /\ pc \in {"walk", "accepted"} => Bad \notin forbidden
    /\ ex \subseteq Prefixes /\ todo \subseteq Prefixes /\ out \subseteq Prefixes

\* "equal to base minus excludes" (subtractCIDRs): what is accepted is exactly
\* every address outside the forbidden CIDRs, for every bit pattern and not only
\* the samples of TestSubtractCIDRsProperties.
ExactlyTheRest ==
    pc = "accepted" =>
        \A a \in Addrs : (\E p \in out : Contains(p, a))
                         <=> ~\E f \in forbidden : Contains(f, a)

\* "a minimal covering prefix set" (subtractCIDRs): prefixes of the result do not
\* overlap, and every prefix free of forbidden addresses lies within one of them,
\* so that no other set has as few.
Minimal ==
    pc = "accepted" =>
        /\ \A p, q \in out : p = q \/ ~Overlaps(p, q)
        /\ \A q \in Prefixes : (\A f \in forbidden : ~Overlaps(q, f))
              => \E p \in out : p.bits <= q.bits /\ Contains(p, q.addr)

\* "the subtraction must never yield an overlap or a default route (the latter is
\* possible only when ForbiddenCIDRs is empty)" (prepare): the guardrail rejects
\* no other input.
GuardrailQuiet ==
    pc = "error" => ~complete \/ Bad \in forbidden \/ forbidden = {}

\* prepare returns: the halving ends at single addresses.
Terminates == <>(pc \in {"accepted", "error"})
=============================================================================
