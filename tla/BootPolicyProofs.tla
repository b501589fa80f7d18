-------------------------- MODULE BootPolicyProofs --------------------------
(* What the boot policy itself guarantees, and so everything that          *)
(* implements it.                                                          *)
EXTENDS BootPolicy, TLAPS

(* A countdown is only running when it was permitted, before any launch,   *)
(* and nothing the operator asked for earlier is still pending; the start  *)
(* it leads to inherits all three.                                         *)
PolicyInv ==
    /\ TypeOK
    /\ mode = "counting" => permitted /\ ~launched /\ ~asked
    /\ UnaskedStartsArePermitted

(* The policy keeps PolicyInv, one action at a time. *)
LEMMA StepPolicyInv == PolicyInv /\ [Next]_vars => PolicyInv'
  <1> SUFFICES ASSUME PolicyInv, [Next]_vars PROVE PolicyInv'
    OBVIOUS
  <1> USE DEF PolicyInv, TypeOK, Modes, UnaskedStartsArePermitted
  <1>1. CASE Look
    BY <1>1 DEF Look
  <1>2. CASE Show
    BY <1>2 DEF Show
  <1>3. CASE Cancel
    BY <1>3 DEF Cancel
  <1>4. CASE Expire
    BY <1>4 DEF Expire
  <1>5. CASE Ask
    BY <1>5 DEF Ask
  <1>6. CASE TurnAway
    BY <1>6 DEF TurnAway
  <1>7. CASE Stop
    BY <1>7 DEF Stop
  <1>8. CASE ComeBack
    BY <1>8 DEF ComeBack
  <1>9. CASE NoLoader
    BY <1>9 DEF NoLoader
  <1>10. CASE Launch
    BY <1>10 DEF Launch
  <1>11. CASE Outcome
    BY <1>11 DEF Outcome
  <1>12. CASE Retry
    BY <1>12 DEF Retry
  <1>13. CASE UNCHANGED vars
    BY <1>13 DEF vars
  <1> QED
    BY <1>1, <1>2, <1>3, <1>4, <1>5, <1>6, <1>7, <1>8, <1>9, <1>10, <1>11,
       <1>12, <1>13 DEF Next

(* Whatever implements the policy starts the loader on its own only when   *)
(* the last look at the machine permitted it and no loader was launched    *)
(* before.                                                                 *)
THEOREM PolicyIsSafe == Spec => []UnaskedStartsArePermitted
  <1>1. Init => PolicyInv
    BY DEF Init, PolicyInv, TypeOK, Modes, UnaskedStartsArePermitted
  <1>2. PolicyInv => UnaskedStartsArePermitted
    BY DEF PolicyInv
  <1> QED
    BY <1>1, <1>2, StepPolicyInv, PTL DEF Spec
=============================================================================
