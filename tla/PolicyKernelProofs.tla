------------------------- MODULE PolicyKernelProofs -------------------------
(***************************************************************************)
(* Proofs about PolicyKernel: for every set of releases, policy never goes *)
(* back while the kernel runs, and after a restart never to a release that *)
(* had expired when it was replaced.                                       *)
(***************************************************************************)
EXTENDS PolicyKernel, TLAPS

Activation == [of: Release, at: Nat, start: Nat]

\* An activation was made by this start of the kernel or an earlier one, in the
\* past; those of this start are not ahead of the release in force.
Past ==
    \A i \in DOMAIN activations :
        LET a == activations[i]
        IN  /\ a.at <= month /\ a.start <= starts
            /\ a.start = starts => a.of.sequence <= in_force.sequence

\* The inductive invariant: that policy never goes back needs that the release
\* in force is the newest this start has put in force.
PolicyInv ==
    /\ month \in Nat /\ starts \in Nat /\ in_force \in Release \cup {NoRelease}
    /\ activations \in Seq(Activation)
    /\ Past
    /\ PolicyNeverGoesBack

\* A release that is put in force is newer than everything this start has put
\* in force, and has not expired.
LEMMA ActivationAdvances ==
    ASSUME PolicyInv, NEW p \in Release, ActivateRelease(p) PROVE PolicyInv'
<1>1. /\ month \in Nat /\ starts \in Nat /\ activations \in Seq(Activation)
      /\ UNCHANGED <<month, starts>> /\ in_force' = p
      /\ month < p.until /\ p.sequence > in_force.sequence
      /\ activations' = Append(activations, [of |-> p, at |-> month, start |-> starts])
  BY DEF PolicyInv, ActivateRelease, Advances
<1>2. p.sequence \in Nat /\ p.until \in Nat /\ in_force.sequence \in Nat
  BY PolicyKernelAssumption DEF PolicyInv, NoRelease
<1> DEFINE e == [of |-> p, at |-> month, start |-> starts]
<1>3. e \in Activation
  BY <1>1 DEF Activation
<1>4. /\ activations' \in Seq(Activation) /\ Len(activations') = Len(activations) + 1
      /\ \A i \in 1..Len(activations) : activations'[i] = activations[i]
      /\ activations'[Len(activations) + 1] = e
  BY <1>1, <1>3
<1>5. /\ DOMAIN activations = 1..Len(activations) /\ Len(activations) \in Nat
      /\ DOMAIN activations' = 1..(Len(activations) + 1)
  BY <1>1, <1>4
<1>6. e.of = p /\ e.at = month /\ e.start = starts
  OBVIOUS
<1>7. ASSUME NEW i \in 1..Len(activations)
      PROVE  /\ activations[i].of.sequence \in Nat
             /\ activations[i].at \in Nat /\ activations[i].at <= month
             /\ activations[i].start <= starts
             /\ activations[i].start = starts => activations[i].of.sequence < p.sequence
  <2>1. activations[i] \in Activation
    BY <1>1
  <2>2. activations[i].of.sequence \in Nat /\ activations[i].at \in Nat
    <3>1. activations[i].of \in Release /\ activations[i].at \in Nat
      BY <2>1 DEF Activation
    <3>2. QED
      BY <3>1, PolicyKernelAssumption
  <2>3. QED
    <3>1. /\ activations[i].at <= month /\ activations[i].start <= starts
          /\ activations[i].start = starts => activations[i].of.sequence <= in_force.sequence
      BY <1>5 DEF PolicyInv, Past
    <3>2. QED
      BY <2>2, <3>1, <1>1, <1>2
<1>8. Past'
  <2> SUFFICES ASSUME NEW i \in DOMAIN activations'
               PROVE  LET a == activations'[i]
                      IN  /\ a.at <= month' /\ a.start <= starts'
                          /\ a.start = starts' => a.of.sequence <= in_force'.sequence
    BY DEF Past
  <2>1. CASE i \in 1..Len(activations)
    BY <2>1, <1>1, <1>2, <1>4, <1>7
  <2>2. CASE i = Len(activations) + 1
    BY <2>2, <1>1, <1>2, <1>4, <1>6
  <2>3. QED
    BY <2>1, <2>2, <1>5
<1>9. PolicyNeverGoesBack'
  <2> SUFFICES ASSUME NEW i \in DOMAIN activations', NEW j \in DOMAIN activations', i < j,
                      activations'[j].of.sequence <= activations'[i].of.sequence
               PROVE  LET a == activations'[i]
                          b == activations'[j]
                      IN  a.start # b.start /\ a.at < b.of.until
    BY DEF PolicyNeverGoesBack
  <2>1. CASE j \in 1..Len(activations)
    BY <2>1, <1>4, <1>5 DEF PolicyInv, PolicyNeverGoesBack
  <2>2. CASE j = Len(activations) + 1
    <3>1. i \in 1..Len(activations) /\ activations'[i] = activations[i] /\ activations'[j] = e
      BY <2>2, <1>4, <1>5
    <3>2. QED
      BY <3>1, <1>1, <1>2, <1>6, <1>7
  <2>3. QED
    BY <2>1, <2>2, <1>5
<1>10. QED
  BY <1>1, <1>4, <1>8, <1>9 DEF PolicyInv

\* Every reachable state of the kernel satisfies the inductive invariant.
THEOREM PolicyConsistent == PolicySpec => []PolicyInv
<1>1. PolicyInit => PolicyInv
  BY DEF PolicyInit, PolicyInv, Past, PolicyNeverGoesBack
<1>2. PolicyInv /\ [PolicyNext]_policyVars => PolicyInv'
  <2> SUFFICES ASSUME PolicyInv, [PolicyNext]_policyVars PROVE PolicyInv'
    OBVIOUS
  <2>1. \A i \in DOMAIN activations : activations[i].at \in Nat /\ activations[i].start \in Nat
    <3>1. \A i \in DOMAIN activations : activations[i] \in Activation
      BY DEF PolicyInv
    <3>2. QED
      BY <3>1 DEF Activation
  <2>2. CASE MonthPasses
    <3>1. month' \in Nat /\ month \in Nat /\ month' = month + 1
          /\ UNCHANGED <<starts, in_force, activations>>
      BY <2>2 DEF MonthPasses, PolicyInv
    <3>2. QED
      BY <2>1, <3>1 DEF PolicyInv, Past, PolicyNeverGoesBack
  <2>3. CASE KernelRestarts
    <3>1. /\ starts \in Nat /\ starts' = starts + 1 /\ in_force' = NoRelease
          /\ UNCHANGED <<month, activations>>
      BY <2>3 DEF KernelRestarts, PolicyInv
    <3>2. Past'
      BY <2>1, <3>1 DEF PolicyInv, Past
    <3>3. QED
      BY <3>1, <3>2 DEF PolicyInv, PolicyNeverGoesBack
  <2>4. CASE UNCHANGED policyVars
    BY <2>4 DEF policyVars, PolicyInv, Past, PolicyNeverGoesBack
  <2>5. QED
    BY <2>2, <2>3, <2>4, ActivationAdvances DEF PolicyNext
<1>3. QED
  BY <1>1, <1>2, PTL DEF PolicySpec

\* While the kernel runs every release it puts in force is newer than the ones
\* before; a restart lets it go back, but not to a release that had expired
\* when it was replaced.
THEOREM PolicyForward == PolicySpec => []PolicyNeverGoesBack
BY PolicyConsistent, PTL DEF PolicyInv
=============================================================================
