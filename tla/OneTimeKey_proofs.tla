--------------------------- MODULE OneTimeKey_proofs ---------------------------
(* What follows from the abstract specification of a key alone, and so for every
   key of Session, Signup and Reset, which implement it. *)
EXTENDS OneTimeKey, TLAPS

LEMMA Initially == Init => TypeOK /\ OneHolder
  BY DEF Init, TypeOK, OneHolder

LEMMA StepByStep ==
  ASSUME TypeOK, OneHolder, [Next]_vars
  PROVE  (TypeOK /\ OneHolder)'
<1> USE DEF TypeOK, OneHolder
<1>1. CASE Issue
  BY <1>1 DEF Issue
<1>2. ASSUME NEW w \in Worker, Take(w) PROVE (TypeOK /\ OneHolder)'
  BY <1>2 DEF Take
<1>3. ASSUME NEW w \in Worker, Use(w) PROVE (TypeOK /\ OneHolder)'
  BY <1>3 DEF Use
<1>4. CASE GiveBack
  BY <1>4 DEF GiveBack
<1>5. CASE Void
  BY <1>5 DEF Void
<1>6. CASE UNCHANGED vars
  BY <1>6 DEF vars
<1> QED
  BY <1>1, <1>2, <1>3, <1>4, <1>5, <1>6 DEF Next

\* At most one of any number of workers holds the key, and only while it is good:
\* what the lookups of refresh-token, register and password reset rely on when
\* they act on a key they found a few awaits ago.
THEOREM HeldByOne == Spec => []OneHolder
<1>1. TypeOK /\ OneHolder /\ [Next]_vars => (TypeOK /\ OneHolder)'
  BY StepByStep
<1> QED
  BY <1>1, Initially, PTL DEF Spec

\* A key that was used up is never good again and nobody finds it.
THEOREM SpentForGood == Spec => SpentStays
<1>1. ASSUME OneHolder, [Next]_vars, status = "spent"
      PROVE  status' \in {"spent", "void"} /\ holders' = {}
  BY <1>1 DEF OneHolder, Next, Issue, Take, Use, GiveBack, Void, vars
<1>2. OneHolder /\ [Next]_vars =>
          [status = "spent" => status' \in {"spent", "void"} /\ holders' = {}]_vars
  BY <1>1
<1> QED
  BY <1>2, HeldByOne, PTL DEF Spec, SpentStays
=============================================================================
