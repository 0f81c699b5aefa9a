------------------------- MODULE RegionPromise_proofs -------------------------
(***************************************************************************)
(* What RegionPromise says holds for any set of regions.                   *)
(***************************************************************************)
EXTENDS RegionPromise, TLAPS

\* Nothing but regions and announced changes is ever in the variables of the
\* promise.
THEOREM PromiseType ==
    ASSUME PromiseAssumption
    PROVE  Spec => []TypeOK
<1> USE DEF PromiseAssumption, TypeOK, Changes
<1>1. Init => TypeOK
  BY DEF Init
<1>2. TypeOK /\ [Next]_vars => TypeOK'
  <2> SUFFICES ASSUME TypeOK, [Next]_vars PROVE TypeOK'
    OBVIOUS
  <2>1. CASE Save
    BY <2>1 DEF Save
  <2>2. CASE Switch
    BY <2>2 DEF Switch
  <2>3. CASE PutBack
    BY <2>3 DEF PutBack
  <2>4. CASE Forget
    BY <2>4 DEF Forget
  <2>5. CASE UserMoves
    BY <2>5 DEF UserMoves
  <2>6. CASE UNCHANGED vars
    BY <2>6 DEF vars
  <2> QED
    BY <2>1, <2>2, <2>3, <2>4, <2>5, <2>6 DEF Next
<1> QED
  BY <1>1, <1>2, PTL DEF Spec

\* The region taken from the user is on disk for as long as it is owed: the
\* promise README.md:71 makes, for any number of operations and changes.
THEOREM PromiseKept ==
    ASSUME PromiseAssumption
    PROVE  Spec => []OwedIsSaved
<1> USE DEF PromiseAssumption, OwedIsSaved
<1>1. Init => OwedIsSaved
  BY DEF Init
<1>2. TypeOK /\ OwedIsSaved /\ [Next]_vars => OwedIsSaved'
  <2> SUFFICES ASSUME TypeOK, OwedIsSaved, [Next]_vars PROVE OwedIsSaved'
    OBVIOUS
  <2>1. CASE Save
    BY <2>1 DEF Save
  <2>2. CASE Switch
    BY <2>2 DEF Switch, TypeOK, Changes
  <2>3. CASE PutBack
    BY <2>3 DEF PutBack
  <2>4. CASE Forget
    BY <2>4 DEF Forget
  <2>5. CASE UserMoves
    BY <2>5 DEF UserMoves
  <2>6. CASE UNCHANGED vars
    BY <2>6 DEF vars
  <2> QED
    BY <2>1, <2>2, <2>3, <2>4, <2>5, <2>6 DEF Next
<1> QED
  BY <1>1, <1>2, PromiseType, PTL DEF Spec
===============================================================================
