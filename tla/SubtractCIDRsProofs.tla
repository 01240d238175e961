------------------------ MODULE SubtractCIDRsProofs ------------------------
(* Proofs that subtractCIDRs computes the least prefixes of what is left,   *)
(* for addresses of any length and any forbidden CIDRs.                     *)
EXTENDS SubtractCIDRs, FiniteSetTheorems, TLAPS

\* The bits after those of a prefix are zero.
Canonical(p) == \A i \in 1 .. W : i > p.bits => p.addr[i] = 0

\* An exclude overlaps what p is a half of.
Halved(p) == p.bits > 0 => \E e \in ex : \A i \in 1 .. e.bits :
                                 i < p.bits => p.addr[i] = e.addr[i]

\* The state of subtractCIDRs: todo and out hold prefixes of which no two
\* overlap, that arose by halving and that have every address not excluded; out
\* has no address that is.
Walking ==
    /\ ex = {Masked(e) : e \in forbidden}
    /\ complete
    /\ \A p \in todo \cup out : Canonical(p) /\ Halved(p)
    /\ \A p, q \in todo \cup out : p = q \/ ~Overlaps(p, q)
    /\ \A p \in out, e \in ex : ~Overlaps(p, e)
    /\ \A a \in Addrs : (\A e \in ex : ~Contains(e, a))
                        => \E p \in todo \cup out : Contains(p, a)

\* The inductive invariant.
Inv == /\ TypeOK
       /\ pc = "prepare" => out = {}
       /\ pc \in {"walk", "accepted"} => Walking
       /\ pc = "accepted" => todo = {}
       /\ GuardrailQuiet

----------------------------------------------------------------------------
(* Lemmas about prefixes                                                   *)

\* Overlaps compares the bits that both prefixes have.
LEMMA OverlapsBits ==
    ASSUME NEW p \in Prefixes, NEW q \in Prefixes
    PROVE  Overlaps(p, q) <=> \A i \in 1 .. W : i <= p.bits /\ i <= q.bits
                                                => p.addr[i] = q.addr[i]
BY PrefixAssumption DEF Overlaps, Agree, Prefixes

\* Contains compares the bits of the prefix.
LEMMA ContainsBits ==
    ASSUME NEW p \in Prefixes, NEW a \in Addrs
    PROVE  Contains(p, a) <=> \A i \in 1 .. W : i <= p.bits => p.addr[i] = a[i]
BY PrefixAssumption DEF Contains, Agree, Prefixes

\* Masked keeps the bits of the prefix and clears the others.
LEMMA MaskedBits ==
    ASSUME NEW p \in Prefixes
    PROVE  /\ Masked(p) \in Prefixes
           /\ Masked(p).bits = p.bits
           /\ \A i \in 1 .. W :
                 Masked(p).addr[i] = IF i <= p.bits THEN p.addr[i] ELSE 0
BY PrefixAssumption, Zenon DEF Masked, Prefixes, Addrs

\* Masked changes neither what a prefix contains nor what it overlaps.
LEMMA MaskedSame ==
    ASSUME NEW p \in Prefixes
    PROVE  /\ \A a \in Addrs : Contains(Masked(p), a) <=> Contains(p, a)
           /\ \A q \in Prefixes : Overlaps(q, Masked(p)) <=> Overlaps(q, p)
BY MaskedBits, ContainsBits, OverlapsBits

\* The base is a canonical prefix of length 0.
LEMMA BaseBits ==
    /\ Masked(Base) \in Prefixes /\ Masked(Base).bits = 0
    /\ Canonical(Masked(Base))
<1>1. Base \in Prefixes /\ Base.bits = 0
  BY PrefixAssumption DEF Base, Prefixes, Addrs
<1> QED
  BY <1>1, MaskedBits, PrefixAssumption DEF Canonical

\* The halves of a canonical prefix: they have its bits and one more, in which
\* they differ.
LEMMA HalfBits ==
    ASSUME NEW p \in Prefixes, p.bits < W, Canonical(p), NEW h \in Halves(p)
    PROVE  /\ h \in Prefixes /\ h.bits = p.bits + 1
           /\ Canonical(h)
           /\ \A i \in 1 .. W : i # p.bits + 1 => h.addr[i] = p.addr[i]
<1>1. p.bits + 1 \in 1 .. W /\ p.addr \in Addrs
  BY PrefixAssumption DEF Prefixes
<1>2. /\ h.bits = p.bits + 1 /\ h.addr \in {p.addr, upperHalfAddr(p)}
      /\ h = [addr |-> h.addr, bits |-> h.bits]
  BY DEF Halves
<1>3. upperHalfAddr(p) \in Addrs
  BY <1>1 DEF upperHalfAddr, Addrs
<1>4. h \in Prefixes
  BY <1>1, <1>2, <1>3, PrefixAssumption DEF Prefixes
<1>5. \A i \in 1 .. W : i # p.bits + 1 => h.addr[i] = p.addr[i]
  BY <1>1, <1>2, Zenon DEF upperHalfAddr, Addrs
<1>6. Canonical(h)
  BY <1>1, <1>2, <1>5, PrefixAssumption DEF Canonical, Prefixes
<1> QED
  BY <1>2, <1>4, <1>5, <1>6

\* Between them the halves have every address of the prefix, and no two overlap.
LEMMA HalvesPart ==
    ASSUME NEW p \in Prefixes, p.bits < W, Canonical(p)
    PROVE  /\ \A a \in Addrs : Contains(p, a) => \E h \in Halves(p) : Contains(h, a)
           /\ \A g, h \in Halves(p) : g = h \/ ~Overlaps(g, h)
<1> DEFINE n == p.bits + 1
           lo == [addr |-> p.addr, bits |-> n]
           up == [addr |-> upperHalfAddr(p), bits |-> n]
<1>1. n \in 1 .. W /\ p.addr \in Addrs /\ p.bits \in Nat
  BY PrefixAssumption DEF Prefixes
<1>2. Halves(p) = {lo, up}
  BY DEF Halves
<1>3. lo.addr[n] = 0 /\ up.addr[n] = 1
  <2>1. p.addr[n] = 0
    BY <1>1 DEF Canonical
  <2>2. upperHalfAddr(p)[n] = 1
    BY <1>1, Zenon DEF upperHalfAddr, Addrs
  <2> QED
    BY <2>1, <2>2
<1>4. \A h \in {lo, up} : h \in Prefixes /\ h.bits = n
                          /\ \A i \in 1 .. W : i # n => h.addr[i] = p.addr[i]
  <2>1. ASSUME NEW h \in Halves(p)
        PROVE  h \in Prefixes /\ h.bits = n
               /\ \A i \in 1 .. W : i # n => h.addr[i] = p.addr[i]
    BY <2>1, HalfBits
  <2> QED
    BY <1>2, <2>1, Zenon
<1>5. ASSUME NEW a \in Addrs, Contains(p, a)
      PROVE  \E h \in {lo, up} : Contains(h, a)
  <2>1. \A i \in 1 .. W : i <= p.bits => p.addr[i] = a[i]
    BY <1>5, ContainsBits
  <2>2. a[n] \in {0, 1}
    BY <1>1 DEF Addrs
  <2>3. PICK h \in {lo, up} : h.addr[n] = a[n]
    BY <1>3, <2>2
  <2>4. \A i \in 1 .. W : i <= n => h.addr[i] = a[i]
    <3> HIDE DEF lo, up
    <3> QED
      BY <1>1, <1>4, <2>1, <2>3
  <2>5. h \in Prefixes /\ h.bits = n
    BY <1>4
  <2>6. Contains(h, a)
    BY <2>4, <2>5, ContainsBits
  <2> QED
    BY <2>6
<1>6. ~Overlaps(lo, up) /\ ~Overlaps(up, lo)
  <2> HIDE DEF lo, up
  <2>1. lo \in Prefixes /\ up \in Prefixes /\ lo.bits = n /\ up.bits = n
    BY <1>4
  <2>2. lo.addr[n] # up.addr[n]
    BY <1>3
  <2> QED
    BY <1>1, <2>1, <2>2, OverlapsBits
<1> QED
  BY <1>2, <1>5, <1>6

\* What overlaps a half overlaps the prefix.
LEMMA HalfWithin ==
    ASSUME NEW p \in Prefixes, p.bits < W, Canonical(p), NEW h \in Halves(p),
           NEW q \in Prefixes, Overlaps(h, q) \/ Overlaps(q, h)
    PROVE  Overlaps(p, q) /\ Overlaps(q, p)
<1>1. h \in Prefixes /\ h.bits = p.bits + 1 /\ p.bits \in Nat
      /\ \A i \in 1 .. W : i # p.bits + 1 => h.addr[i] = p.addr[i]
  BY HalfBits DEF Prefixes
<1>2. \A i \in 1 .. W : i <= h.bits /\ i <= q.bits => h.addr[i] = q.addr[i]
  BY <1>1, OverlapsBits
<1>3. \A i \in 1 .. W : i <= p.bits /\ i <= q.bits => p.addr[i] = q.addr[i]
  BY <1>1, <1>2, PrefixAssumption DEF Prefixes
<1> QED
  BY <1>3, OverlapsBits

----------------------------------------------------------------------------
\* Init establishes the invariant.
LEMMA InitInv == Init => Inv
BY PrefixAssumption DEF Init, Inv, TypeOK, GuardrailQuiet

\* Prepare establishes the state of subtractCIDRs.
LEMMA PrepareStep == Inv /\ Prepare => Walking' /\ TypeOK'
<1> SUFFICES ASSUME Inv, Prepare PROVE Walking' /\ TypeOK'
  OBVIOUS
<1> DEFINE b == Masked(Base)
<1>1. b \in Prefixes /\ b.bits = 0 /\ Canonical(b)
  BY BaseBits
<1>2. todo' \cup out' = {b} /\ out' = {} /\ todo' = {b}
  BY DEF Prepare, Inv
<1>3. forbidden' = forbidden /\ complete' = complete /\ complete /\ pc' = "walk"
      /\ Bad \notin forbidden /\ ex' = {Masked(e) : e \in forbidden}
  BY DEF Prepare
<1>4. forbidden \subseteq Prefixes
  BY <1>3 DEF Inv, TypeOK
<1>5. ex' \subseteq Prefixes
  BY <1>3, <1>4, MaskedBits
<1>6. TypeOK'
  BY <1>1, <1>2, <1>3, <1>5 DEF Inv, TypeOK
<1>7. Halved(b)'
  BY <1>1 DEF Halved
<1>8. \A a \in Addrs : Contains(b, a)
  BY <1>1, ContainsBits, PrefixAssumption
<1> HIDE DEF b
<1>9. Canonical(b)'
  BY <1>1 DEF Canonical
<1> QED
  BY <1>2, <1>3, <1>6, <1>7, <1>8, <1>9 DEF Walking

\* A call of walk that drops p: no address of p is free.
LEMMA ExcludedStep ==
    ASSUME Inv, Walking, NEW p \in todo, WalkExcluded(p),
           UNCHANGED <<forbidden, complete, ex>>
    PROVE  Walking'
<1>1. p \in Prefixes /\ ex \subseteq Prefixes
  BY DEF Inv, TypeOK
<1>2. PICK e \in ex : /\ e.bits <= p.bits
                    /\ \A i \in 1 .. W : i <= e.bits => e.addr[i] = p.addr[i]
  <2>1. CASE Covered(p)
    <3>1. PICK e \in ex : e.bits <= p.bits /\ Contains(e, p.addr)
      BY <2>1 DEF Covered
    <3>2. p.addr \in Addrs /\ e \in Prefixes
      BY <1>1 DEF Prefixes
    <3> QED
      BY <3>1, <3>2, ContainsBits
  <2>2. CASE Overlapping(p) /\ p.bits >= W
    <3>1. PICK e \in ex : Overlaps(p, e)
      BY <2>2 DEF Overlapping
    <3>2. e \in Prefixes /\ e.bits <= p.bits /\ e.bits \in Nat /\ p.bits \in Nat
      BY <1>1, <2>2, PrefixAssumption DEF Prefixes
    <3>3. \A i \in 1 .. W : i <= p.bits /\ i <= e.bits => p.addr[i] = e.addr[i]
      BY <1>1, <3>1, <3>2, OverlapsBits
    <3> QED
      BY <3>2, <3>3, PrefixAssumption
  <2> QED
    BY <2>1, <2>2 DEF WalkExcluded
<1>3. ASSUME NEW a \in Addrs, Contains(p, a) PROVE Contains(e, a)
  <2>1. e \in Prefixes /\ e.bits \in Nat /\ p.bits \in Nat
    BY <1>1 DEF Prefixes
  <2>2. \A i \in 1 .. W : i <= p.bits => p.addr[i] = a[i]
    BY <1>1, <1>3, ContainsBits
  <2>3. \A i \in 1 .. W : i <= e.bits => e.addr[i] = a[i]
    BY <1>2, <2>1, <2>2
  <2> QED
    BY <2>1, <2>3, ContainsBits
<1>4. todo' = todo \ {p} /\ out' = out
  BY DEF WalkExcluded
<1> QED
  BY <1>3, <1>4 DEF Walking, Halved, Canonical

\* A call of walk that keeps p.
LEMMA KeepStep ==
    ASSUME Inv, Walking, NEW p \in todo, WalkKeep(p),
           UNCHANGED <<forbidden, complete, ex>>
    PROVE  Walking'
<1>1. todo' \cup out' = todo \cup out /\ out' = out \cup {p}
  BY DEF WalkKeep
<1>2. \A e \in ex : ~Overlaps(p, e)
  BY DEF WalkKeep, Overlapping
<1> QED
  BY <1>1, <1>2 DEF Walking, Halved, Canonical

\* A call of walk that splits p.
LEMMA SplitStep ==
    ASSUME Inv, Walking, NEW p \in todo, WalkSplit(p),
           UNCHANGED <<forbidden, complete, ex>>
    PROVE  Walking' /\ todo' \subseteq Prefixes
<1> DEFINE all == todo \cup out
           H == Halves(p)
<1>1. /\ all \subseteq Prefixes /\ ex \subseteq Prefixes /\ p \in Prefixes
      /\ p.bits < W /\ Canonical(p) /\ out' = out
  BY DEF Inv, TypeOK, WalkSplit, Walking
<1>2. todo' = (todo \ {p}) \cup H /\ p \notin out
  <2>1. p \notin out
    BY <1>1 DEF WalkSplit, Overlapping, Walking
  <2> QED
    BY <2>1 DEF WalkSplit
<1>3. \A h \in H : h \in Prefixes /\ Canonical(h)
  BY <1>1, HalfBits, Zenon
<1>4. ASSUME NEW h \in H PROVE Halved(h)
  <2>1. PICK e \in ex : Overlaps(p, e)
    BY DEF WalkSplit, Overlapping
  <2>2. \A i \in 1 .. W : i <= p.bits /\ i <= e.bits => p.addr[i] = e.addr[i]
    BY <1>1, <2>1, OverlapsBits
  <2>3. /\ h.bits = p.bits + 1 /\ p.bits \in 0 .. W /\ e.bits \in 0 .. W
        /\ \A i \in 1 .. W : i # p.bits + 1 => h.addr[i] = p.addr[i]
    BY <1>1, <1>4, HalfBits DEF Prefixes
  <2>4. \A i \in 1 .. e.bits : i < h.bits => h.addr[i] = e.addr[i]
    BY <2>2, <2>3, PrefixAssumption
  <2> QED
    BY <2>4 DEF Halved
<1>5. todo' \cup out' = (all \ {p}) \cup H
  BY <1>1, <1>2
<1>6. ASSUME NEW q \in all \ {p}, NEW h \in H
      PROVE  ~Overlaps(q, h) /\ ~Overlaps(h, q)
  <2>1. ~Overlaps(p, q)
    BY <1>6 DEF Walking
  <2>2. q \in Prefixes
    BY <1>1, <1>6
  <2> QED
    BY <1>1, <1>6, <2>1, <2>2, HalfWithin
<1>7. \A g, h \in H : g = h \/ ~Overlaps(g, h)
  BY <1>1, HalvesPart
<1>8. \A q, r \in (all \ {p}) \cup H : q = r \/ ~Overlaps(q, r)
  <2>1. \A q, r \in all : q = r \/ ~Overlaps(q, r)
    BY DEF Walking
  <2> HIDE DEF all, H
  <2> QED
    BY <1>6, <1>7, <2>1
<1>9. ASSUME NEW a \in Addrs, \A e \in ex : ~Contains(e, a)
      PROVE  \E q \in (all \ {p}) \cup H : Contains(q, a)
  <2>1. PICK q \in all : Contains(q, a)
    BY <1>9 DEF Walking
  <2>2. CASE q = p
    <3>1. \E h \in H : Contains(h, a)
      BY <1>1, <2>1, <2>2, HalvesPart
    <3> QED
      BY <3>1
  <2>3. CASE q # p
    BY <2>1, <2>3
  <2> QED
    BY <2>2, <2>3
<1>10. \A q \in (all \ {p}) \cup H : Canonical(q) /\ Halved(q)
  BY <1>3, <1>4 DEF Walking
<1>11. \A q : (Canonical(q) <=> Canonical(q)') /\ (Halved(q) <=> Halved(q)')
  BY DEF Canonical, Halved
<1>12. todo' \subseteq Prefixes
  BY <1>1, <1>2, <1>3
<1>13. \A q \in todo' \cup out' : Canonical(q)' /\ Halved(q)'
  BY <1>5, <1>10, <1>11
<1> HIDE DEF all, H
<1> QED
  BY <1>1, <1>5, <1>8, <1>9, <1>12, <1>13 DEF Walking

\* Every call of walk keeps the types and the state of subtractCIDRs.
LEMMA WalkStep == ASSUME Inv, NEW p \in todo, Walk(p) PROVE Walking' /\ TypeOK'
<1>1. Walking /\ UNCHANGED <<forbidden, complete, pc, ex>> /\ p \in Prefixes
  BY DEF Inv, Walk, TypeOK
<1>2. CASE WalkExcluded(p)
  BY <1>1, <1>2, ExcludedStep DEF Inv, TypeOK, WalkExcluded
<1>3. CASE WalkKeep(p)
  BY <1>1, <1>3, KeepStep DEF Inv, TypeOK, WalkKeep
<1>4. CASE WalkSplit(p)
  BY <1>1, <1>4, SplitStep DEF Inv, TypeOK, WalkSplit
<1> QED
  BY <1>2, <1>3, <1>4 DEF Walk

\* The guardrail of prepare finds nothing unless nothing was forbidden.
LEMMA ValidateQuiet ==
    ASSUME Inv, pc = "walk", forbidden # {} PROVE ValidateNoOverlap
<1>1. Walking /\ forbidden \subseteq Prefixes /\ out \subseteq Prefixes
  BY DEF Inv, TypeOK
<1>2. ASSUME NEW p \in out, NEW f \in forbidden PROVE ~Overlaps(p, f)
  <2>1. Masked(f) \in ex
    BY <1>1 DEF Walking
  <2>2. ~Overlaps(p, Masked(f))
    BY <1>1, <2>1 DEF Walking
  <2> QED
    BY <1>1, <2>2, MaskedSame
<1>3. ASSUME NEW p \in out, p.bits = 0 PROVE FALSE
  <2>1. PICK f \in forbidden : TRUE
    OBVIOUS
  <2>2. p \in Prefixes /\ f \in Prefixes
    BY <1>1
  <2>3. Overlaps(p, f)
    BY <1>3, <2>2, OverlapsBits, PrefixAssumption
  <2> QED
    BY <1>2, <2>3
<1> QED
  BY <1>2, <1>3 DEF ValidateNoOverlap

\* Every step keeps the invariant.
LEMMA InvStep == Inv /\ [Next]_vars => Inv'
<1> SUFFICES ASSUME Inv, [Next]_vars PROVE Inv'
  OBVIOUS
<1>1. CASE Prepare
  BY <1>1, PrepareStep DEF Prepare, Inv, GuardrailQuiet
<1>2. CASE PrepareError
  BY <1>2 DEF PrepareError, Inv, TypeOK, GuardrailQuiet
<1>3. ASSUME NEW p \in todo, Walk(p) PROVE Inv'
  BY <1>3, WalkStep DEF Walk, Inv, GuardrailQuiet
<1>4. CASE Validate
  <2>1. Walking'
    BY <1>4 DEF Validate, Inv, Walking, Halved, Canonical
  <2>2. GuardrailQuiet'
    BY <1>4, ValidateQuiet DEF Validate, GuardrailQuiet
  <2>3. TypeOK' /\ pc' # "prepare" /\ todo' = {}
    BY <1>4 DEF Validate, Inv, TypeOK
  <2> QED
    BY <2>1, <2>2, <2>3 DEF Inv
<1>5. CASE UNCHANGED vars
  <2>1. Walking => Walking'
    BY <1>5 DEF vars, Walking, Halved, Canonical
  <2> QED
    BY <1>5, <2>1 DEF vars, Inv, TypeOK, GuardrailQuiet
<1> QED
  BY <1>1, <1>2, <1>3, <1>4, <1>5 DEF Next, Returned

----------------------------------------------------------------------------
\* The invariant holds, for addresses of any length and any forbidden CIDRs.
THEOREM Invariance == Spec => []Inv
BY InitInv, InvStep, PTL DEF Spec

\* The prefixes of subtractCIDRs keep their types.
THEOREM TypeCorrect == Spec => []TypeOK
BY Invariance, PTL DEF Inv

\* Exactly the addresses outside the forbidden CIDRs are accepted
\* (subtractCIDRs).
THEOREM Exact == Spec => []ExactlyTheRest
<1>1. Inv => ExactlyTheRest
  <2> SUFFICES ASSUME Inv, pc = "accepted", NEW a \in Addrs
               PROVE  (\E p \in out : Contains(p, a))
                      <=> ~\E f \in forbidden : Contains(f, a)
    BY DEF ExactlyTheRest
  <2>1. /\ Walking /\ todo = {} /\ forbidden \subseteq Prefixes
        /\ out \subseteq Prefixes /\ ex \subseteq Prefixes
    BY DEF Inv, TypeOK
  <2>2. (\E f \in forbidden : Contains(f, a)) <=> \E e \in ex : Contains(e, a)
    BY <2>1, MaskedSame DEF Walking
  <2>3. ASSUME NEW p \in out, NEW e \in ex, Contains(p, a), Contains(e, a)
        PROVE  FALSE
    <3>1. p \in Prefixes /\ e \in Prefixes
      BY <2>1
    <3>2. \A i \in 1 .. W : i <= p.bits /\ i <= e.bits => p.addr[i] = e.addr[i]
      BY <2>3, <3>1, ContainsBits
    <3>3. Overlaps(p, e)
      BY <3>1, <3>2, OverlapsBits
    <3> QED
      BY <2>1, <3>3 DEF Walking
  <2> QED
    BY <2>1, <2>2, <2>3 DEF Walking
<1> QED
  BY Invariance, <1>1, PTL

\* The result is the fewest prefixes possible (subtractCIDRs).
THEOREM FewestPrefixes == Spec => []Minimal
<1>1. Inv => Minimal
  <2> SUFFICES ASSUME Inv, pc = "accepted", NEW q \in Prefixes,
                      \A f \in forbidden : ~Overlaps(q, f)
               PROVE  \E p \in out : p.bits <= q.bits /\ Contains(p, q.addr)
    BY DEF Minimal, Inv, Walking
  <2>1. /\ Walking /\ todo = {} /\ forbidden \subseteq Prefixes
        /\ out \subseteq Prefixes /\ ex \subseteq Prefixes /\ q.addr \in Addrs
    BY DEF Inv, TypeOK, Prefixes
  <2>2. \A e \in ex : ~Overlaps(q, e)
    BY <2>1, MaskedSame DEF Walking
  <2>3. ASSUME NEW e \in ex PROVE ~Contains(e, q.addr)
    <3>1. e \in Prefixes
      BY <2>1
    <3> QED
      BY <2>1, <2>2, <3>1, ContainsBits, OverlapsBits
  <2>4. PICK p \in out : Contains(p, q.addr)
    BY <2>1, <2>3 DEF Walking
  <2>5. /\ p \in Prefixes /\ Halved(p) /\ p.bits \in 0 .. W /\ q.bits \in 0 .. W
        /\ \A i \in 1 .. W : i <= p.bits => p.addr[i] = q.addr[i]
    BY <2>1, <2>4, ContainsBits DEF Walking, Prefixes
  <2>6. ASSUME q.bits < p.bits PROVE FALSE
    <3>1. p.bits > 0
      BY <2>5, <2>6
    <3>2. PICK e \in ex : \A i \in 1 .. e.bits : i < p.bits => p.addr[i] = e.addr[i]
      BY <2>5, <3>1 DEF Halved
    <3>3. e \in Prefixes /\ e.bits \in 0 .. W
      BY <2>1 DEF Prefixes
    <3>4. \A i \in 1 .. W : i <= q.bits /\ i <= e.bits => q.addr[i] = e.addr[i]
      BY <2>5, <2>6, <3>2, <3>3, PrefixAssumption
    <3>5. Overlaps(q, e)
      BY <3>3, <3>4, OverlapsBits
    <3> QED
      BY <2>2, <3>5
  <2> QED
    BY <2>4, <2>5, <2>6
<1> QED
  BY Invariance, <1>1, PTL

\* The guardrail rejects no complete, well-formed, non-empty input (prepare).
THEOREM GuardrailUnneeded == Spec => []GuardrailQuiet
BY Invariance, PTL DEF Inv
----------------------------------------------------------------------------
(* Termination of walk                                                     *)

\* q lies within p.
Within(q, p) == p.bits <= q.bits /\ Contains(p, q.addr)

\* The prefixes that walk can still come to: those within a call to be made.
Remaining == {q \in Prefixes : \E p \in todo : Within(q, p)}

\* There are finitely many prefixes: one is given by its bits set and its length.
LEMMA PrefixesFinite == IsFiniteSet(Prefixes)
<1> DEFINE T == SUBSET (1 .. W + W + 1)
           code(q) == {i \in 1 .. W : q.addr[i] = 1} \cup {W + 1 + q.bits}
           f == [q \in Prefixes |-> code(q)]
<1>1. IsFiniteSet(T)
  <2>1. IsFiniteSet(1 .. W + W + 1)
    BY FS_Interval, PrefixAssumption
  <2> QED
    BY <2>1, FS_SUBSET, Zenon
<1>2. ASSUME NEW q \in Prefixes PROVE code(q) \in T
  <2>1. q.bits \in 0 .. W
    BY DEF Prefixes
  <2> QED
    BY <2>1, PrefixAssumption
<1>3. ASSUME NEW p \in Prefixes, NEW q \in Prefixes, code(p) = code(q)
      PROVE  p = q
  <2>1. /\ p.bits \in 0 .. W /\ q.bits \in 0 .. W
        /\ p.addr \in Addrs /\ q.addr \in Addrs
        /\ p = [addr |-> p.addr, bits |-> p.bits]
        /\ q = [addr |-> q.addr, bits |-> q.bits]
    BY DEF Prefixes
  <2>2. p.bits = q.bits
    <3>1. W + 1 + p.bits \in code(q)
      BY <1>3
    <3> QED
      BY <2>1, <3>1, PrefixAssumption
  <2>3. ASSUME NEW i \in 1 .. W PROVE p.addr[i] = q.addr[i]
    <3>1. /\ i \in code(p) <=> p.addr[i] = 1
          /\ i \in code(q) <=> q.addr[i] = 1
      BY <2>1, PrefixAssumption
    <3>2. p.addr[i] \in {0, 1} /\ q.addr[i] \in {0, 1}
      BY <2>1, Zenon DEF Addrs
    <3> QED
      BY <1>3, <3>1, <3>2
  <2>4. p.addr = q.addr
    <3>1. /\ p.addr = [i \in 1 .. W |-> p.addr[i]]
          /\ q.addr = [i \in 1 .. W |-> q.addr[i]]
      BY <2>1, Zenon DEF Addrs
    <3>2. [i \in 1 .. W |-> p.addr[i]] = [i \in 1 .. W |-> q.addr[i]]
      BY <2>3, Zenon
    <3> QED
      BY <3>1, <3>2
  <2> QED
    BY <2>1, <2>2, <2>4
<1> HIDE DEF T, code
<1>4. f \in Injection(Prefixes, T)
  BY <1>2, <1>3 DEF Injection, IsInjective
<1> QED
  BY <1>1, <1>4, FS_Injection

\* A call of walk is not made again, nor is another one that the calls to be
\* made did not already stand for.
LEMMA WalkShrinks ==
    ASSUME Inv, NEW p \in todo, Walk(p)
    PROVE  Remaining' \subseteq Remaining \ {p} /\ p \in Remaining
<1>1. /\ Walking /\ p \in Prefixes /\ todo \subseteq Prefixes
      /\ p.bits \in 0 .. W /\ p.addr \in Addrs /\ Canonical(p)
  BY DEF Inv, Walk, TypeOK, Prefixes, Walking
<1>2. p \in Remaining
  <2>1. Within(p, p)
    BY <1>1, ContainsBits DEF Within
  <2> QED
    BY <1>1, <2>1 DEF Remaining
<1>3. ASSUME NEW r \in todo', r \notin todo \ {p}
      PROVE  p.bits < W /\ r \in Halves(p)
  BY <1>3 DEF Walk, WalkExcluded, WalkKeep, WalkSplit
<1>4. ASSUME NEW q \in Prefixes, NEW r \in todo', Within(q, r)
      PROVE  q \in Remaining /\ q # p
  <2>1. q.addr \in Addrs /\ q.bits \in 0 .. W
    BY DEF Prefixes
  <2>2. CASE r \in todo \ {p}
    <3>1. r \in Prefixes /\ ~Overlaps(r, p)
      BY <1>1, <2>2 DEF Walking
    <3>2. \A i \in 1 .. W : i <= r.bits => r.addr[i] = q.addr[i]
      BY <1>4, <2>1, <3>1, ContainsBits DEF Within
    <3>3. q # p
      BY <1>1, <3>1, <3>2, OverlapsBits
    <3> QED
      BY <1>4, <2>2, <3>3 DEF Remaining
  <2>3. CASE r \notin todo \ {p}
    <3>1. /\ r \in Prefixes /\ r.bits = p.bits + 1
          /\ \A i \in 1 .. W : i # p.bits + 1 => r.addr[i] = p.addr[i]
      BY <1>1, <1>3, <2>3, HalfBits
    <3>2. r.bits <= q.bits /\ \A i \in 1 .. W : i <= r.bits => r.addr[i] = q.addr[i]
      BY <1>4, <2>1, <3>1, ContainsBits DEF Within
    <3>3. p.bits < q.bits /\ \A i \in 1 .. W : i <= p.bits => p.addr[i] = q.addr[i]
      BY <1>1, <2>1, <3>1, <3>2, PrefixAssumption
    <3>4. Within(q, p)
      BY <1>1, <2>1, <3>3, ContainsBits DEF Within
    <3> QED
      BY <1>1, <2>1, <3>3, <3>4 DEF Remaining
  <2> QED
    BY <2>2, <2>3
<1>5. ASSUME NEW q \in Remaining' PROVE q \in Remaining \ {p}
  <2>1. q \in Prefixes /\ \E r \in todo' : Within(q, r)
    BY <1>5 DEF Remaining, Within, Contains, Agree
  <2> QED
    BY <1>4, <2>1
<1> QED
  BY <1>2, <1>5

\* walk's recursion ends: every call makes fewer the prefixes that it can still
\* come to, of which there are finitely many, and none is visited twice.  This is
\* what Terminates rests on, for addresses of any length.
THEOREM WalkDescends ==
    Spec => /\ []IsFiniteSet(Remaining)
            /\ [][(\E p \in todo : Walk(p))
                  => Cardinality(Remaining') < Cardinality(Remaining)]_vars
<1>1. IsFiniteSet(Remaining)
  BY PrefixesFinite, FS_Subset DEF Remaining
<1>2. IsFiniteSet(Remaining')
  BY PrefixesFinite, FS_Subset DEF Remaining
<1>3. ASSUME Inv, NEW p \in todo, Walk(p)
      PROVE  Cardinality(Remaining') < Cardinality(Remaining)
  <2>1. Remaining' \in SUBSET Remaining /\ Remaining' # Remaining
    BY <1>3, WalkShrinks
  <2>2. Cardinality(Remaining) \in Nat /\ Cardinality(Remaining') \in Nat
    BY <1>1, <1>2, FS_CardinalityType
  <2>3. /\ Cardinality(Remaining') <= Cardinality(Remaining)
        /\ Cardinality(Remaining) # Cardinality(Remaining')
    BY <1>1, <2>1, FS_Subset, Zenon
  <2> QED
    BY <2>2, <2>3
<1>4. Inv => [(\E p \in todo : Walk(p))
              => Cardinality(Remaining') < Cardinality(Remaining)]_vars
  BY <1>3
<1> QED
  BY <1>1, <1>4, Invariance, PTL
=============================================================================
