--------------------------- MODULE CheckoutProofs ---------------------------
(***************************************************************************)
(* What holds of every checkout, for any number of paths: its payloads are *)
(* freed, an exception of :notify leaves the files alone, none is made up, *)
(* and without :progress it keeps the promise of Relay.                    *)
(***************************************************************************)
EXTENDS Checkout, TLAPS

\* What has not begun yet.
Order ==
    /\ outcome = "pending" <=> pc # "done"
    /\ pc = "scan" => given = {}
    /\ pc \in {"scan", "options"} => calls = 0 /\ decided = 0
    /\ pc \in {"scan", "options", "decide"} => updated = 0 /\ raisedBy = {}

\* A block runs at most once for each path in each visit, and once between them.
CallsBounded ==
    calls <= decided + updated + (IF pc \in {"scan", "options", "decide"} THEN 0 ELSE 1)

\* The payload of :notify tells whether its block has raised; that of :progress
\* tells it of the last call only.
Payloads ==
    /\ raisedBy \subseteq given
    /\ \A c \in Callbacks : exception[c] => c \in raisedBy
    /\ "notify" \in raisedBy => exception["notify"] /\ pc \in {"after", "done"}

\* The method raises an exception of a callback only if one has raised.
NothingMadeUp == outcome = "raised" => raisedBy # {}

IInv ==
    /\ TypeOK /\ Order /\ CallsBounded /\ Payloads
    /\ NotifyCancels /\ MemoryReleased /\ NothingMadeUp

\* No checkout has begun.
LEMMA InitIInv == Init => IInv
<1> SUFFICES ASSUME Init PROVE IInv
  OBVIOUS
<1>1. TypeOK
  <2>1. exception \in [Callbacks -> BOOLEAN]
    BY DEF Init
  <2>2. 0 \in 0 .. Paths /\ 0 \in 0 .. 2 * Paths + 1
    BY PathsAssumption
  <2> QED
    BY <2>1, <2>2 DEF Init, TypeOK, Outcomes
<1>2. Order /\ CallsBounded
  BY DEF Init, Order, CallsBounded
<1>3. Payloads
  BY DEF Init, Payloads
<1> QED
  BY <1>1, <1>2, <1>3 DEF Init, IInv, NotifyCancels, MemoryReleased, NothingMadeUp

\* One call of a block: what the payload and the program then know.
LEMMA YieldKeeps ==
    ASSUME TypeOK, NEW c \in given, NEW raises \in BOOLEAN, Yield(c, raises)
    PROVE  /\ calls' = calls + 1
           /\ raisedBy' = IF raises THEN raisedBy \cup {c} ELSE raisedBy
           /\ exception' \in [Callbacks -> BOOLEAN]
           /\ exception'[c] = raises
           /\ \A d \in Callbacks \ {c} : exception'[d] = exception[d]
  BY DEF Yield, TypeOK

\* Every step of the checkout, the callbacks and the clean-up keeps the invariant.
LEMMA NextIInv == IInv /\ [Next]_vars => IInv'
<1> SUFFICES ASSUME IInv, [Next]_vars PROVE IInv'
  OBVIOUS
<1> USE PathsAssumption DEF IInv, Callbacks
<1>1. CASE RefuseArguments
  BY <1>1 DEF RefuseArguments, TypeOK, Order, CallsBounded, Payloads, NotifyCancels,
              MemoryReleased, NothingMadeUp, Outcomes, libgit2, blocks
<1>2. ASSUME NEW C \in SUBSET Callbacks, ParseCallbacks(C) PROVE IInv'
  BY <1>2 DEF ParseCallbacks, TypeOK, Order, CallsBounded, Payloads, NotifyCancels,
              MemoryReleased, NothingMadeUp, Outcomes, libgit2, blocks
<1>3. CASE RefuseOptions
  BY <1>3 DEF RefuseOptions, TypeOK, Order, CallsBounded, Payloads, NotifyCancels,
              MemoryReleased, NothingMadeUp, Outcomes, libgit2, blocks
<1>4. CASE ParseRest
  BY <1>4 DEF ParseRest, TypeOK, Order, CallsBounded, Payloads, NotifyCancels,
              MemoryReleased, NothingMadeUp, Outcomes, libgit2, blocks
<1>5. ASSUME NEW raises \in BOOLEAN, Notify(raises) PROVE IInv'
  <2>1. Yield("notify", raises) /\ "notify" \in given /\ raisedBy = {} /\ updated = 0
    BY <1>5 DEF Notify, Order
  <2>2. TypeOK' /\ CallsBounded'
    BY <1>5, <2>1, YieldKeeps DEF Notify, TypeOK, CallsBounded, Outcomes
  <2>3. Order' /\ Payloads'
    BY <1>5, <2>1, YieldKeeps DEF Notify, TypeOK, Order, Payloads
  <2> QED
    BY <1>5, <2>1, <2>2, <2>3, YieldKeeps
    DEF Notify, Order, NotifyCancels, MemoryReleased, NothingMadeUp
<1>6. ASSUME NEW raises \in BOOLEAN, Progress(raises), pc \in {"decide", "update"}, pc' = "update",
             UNCHANGED <<given, memory, outcome, decided, error>>, updated' \in 0 .. Paths,
             updated' = IF pc = "decide" THEN updated ELSE updated + 1
      PROVE  IInv'
  <2>1. "notify" \notin raisedBy /\ outcome = "pending"
    BY <1>6 DEF Payloads, Order
  <2>2. CASE "progress" \in given
    <3>1. Yield("progress", raises)
      BY <1>6, <2>2 DEF Progress
    <3>2. CallsBounded' /\ calls' \in 0 .. 2 * Paths + 1
      <4>1. calls' = calls + 1
        BY <2>2, <3>1, YieldKeeps
      <4>2. CASE pc = "decide"
        BY <1>6, <4>1, <4>2 DEF TypeOK, CallsBounded
      <4>3. CASE pc = "update"
        BY <1>6, <4>1, <4>3 DEF TypeOK, CallsBounded
      <4> QED
        BY <1>6, <4>2, <4>3
    <3>3. TypeOK'
      <4>1. exception' \in [Callbacks -> BOOLEAN]
        BY <2>2, <3>1, YieldKeeps
      <4>2. raisedBy' = IF raises THEN raisedBy \cup {"progress"} ELSE raisedBy
        BY <2>2, <3>1, YieldKeeps
      <4>3. raisedBy' \subseteq Callbacks
        BY <4>2 DEF TypeOK
      <4> QED
        BY <1>6, <3>2, <4>1, <4>3 DEF TypeOK
    <3>4. Order' /\ Payloads'
      BY <1>6, <2>1, <2>2, <3>1, YieldKeeps DEF Order, Payloads
    <3> QED
      BY <1>6, <2>1, <2>2, <3>1, <3>2, <3>3, <3>4, YieldKeeps
      DEF NotifyCancels, MemoryReleased, NothingMadeUp
  <2>3. CASE "progress" \notin given
    <3>1. UNCHANGED <<exception, blocks>>
      BY <1>6, <2>3 DEF Progress
    <3>2. TypeOK'
      BY <1>6, <3>1 DEF TypeOK, blocks
    <3>3. CallsBounded'
      BY <1>6, <3>1 DEF TypeOK, CallsBounded, blocks
    <3>4. Order' /\ Payloads'
      BY <1>6, <2>1, <3>1 DEF Order, Payloads, blocks
    <3> QED
      BY <1>6, <2>1, <3>1, <3>2, <3>3, <3>4
      DEF NotifyCancels, MemoryReleased, NothingMadeUp, blocks
  <2> QED
    BY <2>2, <2>3
<1>7. ASSUME NEW raises \in BOOLEAN, Baseline(raises) PROVE IInv'
  BY <1>6, <1>7 DEF Baseline, libgit2, TypeOK
<1>8. ASSUME NEW raises \in BOOLEAN, Update(raises) PROVE IInv'
  BY <1>6, <1>8 DEF Update, TypeOK
<1>9. CASE Decide
  BY <1>9 DEF Decide, TypeOK, Order, CallsBounded, Payloads, NotifyCancels,
              MemoryReleased, NothingMadeUp, blocks
<1>10. CASE Conflict
  BY <1>10 DEF Conflict, TypeOK, Order, CallsBounded, Payloads, NotifyCancels,
               MemoryReleased, NothingMadeUp, blocks
<1>11. CASE UpdateEnds
  BY <1>11 DEF UpdateEnds, TypeOK, Order, CallsBounded, Payloads, NotifyCancels,
               MemoryReleased, NothingMadeUp, blocks
<1>12. CASE Finish
  BY <1>12 DEF Finish, TypeOK, Order, CallsBounded, Payloads, NotifyCancels,
               MemoryReleased, NothingMadeUp, Outcomes, libgit2, blocks
<1>13. CASE UNCHANGED vars
  BY <1>13 DEF vars, TypeOK, Order, CallsBounded, Payloads, NotifyCancels,
               MemoryReleased, NothingMadeUp
<1> QED
  BY <1>1, <1>2, <1>3, <1>4, <1>5, <1>7, <1>8, <1>9, <1>10, <1>11, <1>12, <1>13 DEF Next

\* So it holds throughout.
LEMMA CheckoutInvariant == Spec => []IInv
  BY InitIInv, NextIInv, PTL DEF Spec

\* However many paths there are: an exception of :notify cancels the checkout
\* before a file is touched, and what is raised was raised by a block.
THEOREM CheckoutCorrect == Spec => [](TypeOK /\ NotifyCancels /\ NothingMadeUp)
  BY CheckoutInvariant, PTL DEF IInv

\* From the first decision of libgit2 on, no way out of a checkout, however its
\* two callbacks raise, keeps a payload or the copied :paths.
THEOREM CheckoutReleases == Spec => []MemoryReleased
  BY CheckoutInvariant, PTL DEF IInv

-----------------------------------------------------------------------------
(* The refinement.                                                          *)

\* What a step does to the exception and the result is a step of Relay.
LEMMA NextRelay == IInv /\ [Next]_vars => [AsRelay!Next]_(AsRelay!relayVars)
<1> SUFFICES ASSUME IInv, [Next]_vars PROVE [AsRelay!Next]_(AsRelay!relayVars)
  OBVIOUS
<1> USE DEF IInv, Silent, AsRelay!Next, AsRelay!relayVars
<1>1. ASSUME NEW C \in SUBSET Callbacks, ParseCallbacks(C) PROVE UNCHANGED AsRelay!relayVars
  BY <1>1 DEF ParseCallbacks, Order, blocks
<1>2. CASE Next /\ Silent /\ ~\E C \in SUBSET Callbacks : ParseCallbacks(C)
  <2>1. given' = given
    BY <1>2 DEF Next, RefuseArguments, RefuseOptions, ParseRest, Notify, Baseline, Update, Decide,
                Conflict, UpdateEnds, Finish
  <2> QED
    BY <1>2, <2>1
<1>3. CASE ~Silent
  <2>1. CASE RefuseArguments
    BY <1>3, <2>1 DEF RefuseArguments, Order, AsRelay!End, blocks
  <2>2. CASE RefuseOptions
    BY <1>3, <2>2 DEF RefuseOptions, Order, AsRelay!End, blocks
  <2>3. CASE ParseRest
    BY <1>3, <2>3 DEF ParseRest, blocks
  <2>4. ASSUME NEW raises \in BOOLEAN, Notify(raises) PROVE AsRelay!Call
    BY <1>3, <2>4 DEF Notify, Yield, Order, AsRelay!Call
  <2>5. ASSUME NEW raises \in BOOLEAN, Baseline(raises) \/ Update(raises)
        PROVE  UNCHANGED AsRelay!relayVars
    BY <1>3, <2>5 DEF Baseline, Update, Progress, blocks
  <2>6. CASE Decide \/ Conflict \/ UpdateEnds
    BY <1>3, <2>6 DEF Decide, Conflict, UpdateEnds, blocks
  <2>7. CASE Finish
    <3>1. raisedBy # {} <=> exception["notify"]
      BY <1>3 DEF Payloads, TypeOK, Callbacks
    <3> QED
      BY <1>3, <2>7, <3>1 DEF Finish, Order, AsRelay!End, blocks
  <2>8. CASE UNCHANGED vars
    BY <2>8 DEF vars
  <2> QED
    BY <1>1, <2>1, <2>2, <2>3, <2>4, <2>5, <2>6, <2>7, <2>8 DEF Next
<1>4. CASE UNCHANGED vars
  BY <1>4 DEF vars
<1> QED
  BY <1>1, <1>2, <1>3, <1>4

\* A checkout without :progress runs no block after one has raised, raises
\* the exception of that one, and reports an error or returns if none has.
THEOREM CheckoutRelay == Spec => RelaySpec
<1>1. Init => AsRelay!Init
  BY DEF Init, AsRelay!Init, Silent
<1> QED
  BY <1>1, CheckoutInvariant, NextRelay, PTL DEF Spec, RelaySpec, AsRelay!Spec

=============================================================================
