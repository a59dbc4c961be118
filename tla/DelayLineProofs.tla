------------------------- MODULE DelayLineProofs -------------------------
(* What whoever calls a delay line may rely on, for every frame size and    *)
(* calls of any lengths: how much the line holds back.                      *)
EXTENDS DelayLine, TLAPS

\* Less than what starts it, or than a call that came up short has left in it.
HeldBound ==
    held < Prefill \/ \E n \in CallbackSizes : held < FrameSize - 1 + n

LineInv == held \in Nat /\ HeldBound

\* The line only grows while it fills and, later, when it holds too little.
LEMMA HeldStep ==
    ASSUME FrameSize \in Nat, FrameSize > 0, CallbackSizes \subseteq Nat,
           LineInv, [Next]_vars
    PROVE  LineInv'
<1> USE DEF LineInv, HeldBound, Prefill
<1>1. ASSUME NEW n \in CallbackSizes, Emit(n) PROVE LineInv'
  BY <1>1 DEF Emit
<1>2. ASSUME NEW n \in CallbackSizes, Fill(n) PROVE LineInv'
  <2>1. held' = held + n /\ n \in Nat
    BY <1>2 DEF Fill
  <2>2. CASE started'
    <3>1. held < FrameSize - 1
      BY <1>2, <2>2 DEF Fill
    <3>2. QED
      BY <2>1, <3>1
  <2>3. CASE ~started'
    <3>1. ~(held + n >= FrameSize * 2)
      BY <1>2, <2>3 DEF Fill
    <3>2. QED
      BY <2>1, <3>1
  <2>4. QED
    BY <2>2, <2>3
<1>3. CASE Refuse
  BY <1>3 DEF Refuse
<1>4. CASE Clear
  BY <1>4 DEF Clear
<1>5. CASE UNCHANGED vars
  BY <1>5 DEF vars
<1>6. QED
  BY <1>1, <1>2, <1>3, <1>4, <1>5 DEF Next

\* Whatever implements the line never holds back more than two frames, or a
\* frame and the longest call.
THEOREM LineHeld ==
    ASSUME FrameSize \in Nat, FrameSize > 0, CallbackSizes \subseteq Nat
    PROVE  Spec => []LineInv
<1>1. Init => LineInv
  BY DEF Init, LineInv, HeldBound, Prefill
<1>2. LineInv /\ [Next]_vars => LineInv'
  BY HeldStep
<1>3. QED
  BY <1>1, <1>2, PTL DEF Spec
==========================================================================
