---------------------------- MODULE CallsProofs -----------------------------
(***************************************************************************)
(* A script that keeps to the discipline of Calls loses nothing, uses      *)
(* nothing that it does not have, jumps over nothing and keeps the promise *)
(* of Relay, however many turns its loops take: the states that the        *)
(* discipline computes for the steps of a script are an inductive          *)
(* invariant of every call of it.                                          *)
(***************************************************************************)
EXTENDS Calls, TLAPS

Kept == held \ KnownLosses[method]

\* What the discipline says of the next step is true of the call.
Follows(a) ==
    /\ Failing => a.fails /\ Kept \subseteq a.bad
    /\ ~Failing => Kept \subseteq a.may
    /\ exc => a.raises
    /\ inside => a.within

\* A call that has ended, or that an exception is leaving.
Over ==
    /\ how = "returned" => Kept = {}
    /\ Kept \subseteq KnownLeaks[method]
    /\ inside => method \in KnownJumps

IInv ==
    /\ method \in Methods
    /\ error \in BOOLEAN /\ exc \in BOOLEAN /\ inside \in BOOLEAN
    /\ pc \in 1 .. Len(Script[method]) + 1
    /\ how = "pending" => Follows(Shape(method)[pc])
    /\ how # "pending" => Over
    /\ how = "unwinding" => exc

\* What a sequence has at a position is one of its elements.
LEMMA Element ==
    ASSUME NEW S, NEW s \in Seq(S), NEW i \in 1 .. Len(s)
    PROVE  s[i] \in S
  OBVIOUS

\* The step of the script and what the discipline computes for it.
LEMMA Steps ==
    ASSUME NEW m \in Methods, NEW A, WellShaped(m, A), NEW i \in 1 .. Len(Script[m])
    PROVE  /\ Len(Script[m]) \in Nat
           /\ Script[m][i].n \in Nat
           /\ Safe(m, A, i)
           /\ A[i + 1] = After(Script[m][i], A[i], A[Opening(Script[m], i)])
<1>1. Script[m] \in Seq([do : STRING, r : STRING, n : Nat])
  BY ScriptAssumption
<1>2. Script[m][i] \in [do : STRING, r : STRING, n : Nat]
  BY <1>1, Element
<1> QED
  BY <1>1, <1>2 DEF WellShaped

\* What the discipline computes, by kinds of steps.
LEMMA Computed ==
    ASSUME NEW s, NEW a, NEW o, NEW b, b = After(s, a, o)
    PROVE  /\ s.do \notin {"release", "wrap", "wrapAnyway"} => a.may \subseteq b.may
           /\ a.may \ {s.r} \subseteq b.may
           /\ s.do \in {"acquire", "allocate"} => a.may \union {s.r} \subseteq b.may
           /\ s.do = "ignore" => a.bad \subseteq b.may
           /\ s.do \in Closings => o.may \subseteq b.may
           /\ s.do \notin {"release", "releaseOnError", "wrapAnyway"} => a.bad \subseteq b.bad
           /\ a.bad \ {s.r} \subseteq b.bad
           /\ s.do \in {"acquire", "call", "yieldProtected"} => a.may \subseteq b.bad
           /\ s.do = "leave" => o.may \subseteq b.bad
           /\ s.do \in Closings => o.bad \subseteq b.bad
           /\ s.do \in {"acquire", "call", "yieldProtected", "leave"} => b.fails
           /\ s.do \notin {"check", "ignore"} => (a.fails => b.fails)
           /\ a.raises /\ s.do # "jumpTag" => b.raises
           /\ s.do \in {"check", "ignore"} /\ a.raises => b.fails
           /\ s.do = "yieldProtected" => b.raises
           /\ s.do = "enter" => b.within
           /\ a.within /\ s.do # "leave" => b.within
           /\ s.do \in Closings =>
                  (o.fails => b.fails) /\ (o.raises => b.raises) /\ (o.within => b.within)
<1>1. b.may = (a.may \union When(s, {"acquire", "allocate"}, {s.r})
                     \union When(s, {"ignore"}, a.bad)
                     \union When(s, Closings, o.may))
                  \ When(s, {"release", "wrap", "wrapAnyway"}, {s.r})
  BY DEF After
<1>2. b.bad = (a.bad \union When(s, {"acquire", "call", "yieldProtected"}, a.may)
                     \union When(s, {"leave"}, o.may)
                     \union When(s, Closings, o.bad))
                  \ When(s, {"release", "releaseOnError", "wrapAnyway"}, {s.r})
  BY DEF After
<1>3. b.fails = (\/ s.do \in {"acquire", "call", "yieldProtected", "leave"}
                 \/ s.do \notin {"check", "ignore"} /\ a.fails
                 \/ s.do \in {"check", "ignore"} /\ a.raises
                 \/ s.do \in Closings /\ o.fails)
  BY DEF After
<1>4. b.raises = (\/ s.do = "yieldProtected"
                  \/ s.do # "jumpTag" /\ a.raises
                  \/ s.do \in Closings /\ o.raises)
  BY DEF After
<1>5. b.within = (\/ s.do = "enter"
                  \/ s.do # "leave" /\ a.within
                  \/ s.do \in Closings /\ o.within)
  BY DEF After
<1>6. s.do \notin {"release", "wrap", "wrapAnyway"} => a.may \subseteq b.may
  BY <1>1 DEF When
<1>7. a.may \ {s.r} \subseteq b.may
  BY <1>1 DEF When
<1>8. s.do \in {"acquire", "allocate"} => a.may \union {s.r} \subseteq b.may
  BY <1>1 DEF When
<1>9. s.do = "ignore" => a.bad \subseteq b.may
  BY <1>1 DEF When
<1>10. s.do \in Closings => o.may \subseteq b.may
  BY <1>1 DEF When, Closings
<1>11. s.do \notin {"release", "releaseOnError", "wrapAnyway"} => a.bad \subseteq b.bad
  BY <1>2 DEF When
<1>12. a.bad \ {s.r} \subseteq b.bad
  BY <1>2 DEF When
<1>13. s.do \in {"acquire", "call", "yieldProtected"} => a.may \subseteq b.bad
  BY <1>2 DEF When
<1>14. s.do = "leave" => o.may \subseteq b.bad
  BY <1>2 DEF When, Closings
<1>15. s.do \in Closings => o.bad \subseteq b.bad
  BY <1>2 DEF When, Closings
<1>16. /\ s.do \in {"acquire", "call", "yieldProtected", "leave"} => b.fails
       /\ s.do \notin {"check", "ignore"} => (a.fails => b.fails)
       /\ s.do \in {"check", "ignore"} /\ a.raises => b.fails
       /\ s.do \in Closings => (o.fails => b.fails)
  BY <1>3
<1>17. /\ a.raises /\ s.do # "jumpTag" => b.raises
       /\ s.do = "yieldProtected" => b.raises
       /\ s.do \in Closings => (o.raises => b.raises)
  BY <1>4
<1>18. /\ s.do = "enter" => b.within
       /\ a.within /\ s.do # "leave" => b.within
       /\ s.do \in Closings => (o.within => b.within)
  BY <1>5
<1> QED
  BY <1>6, <1>7, <1>8, <1>9, <1>10, <1>11, <1>12, <1>13, <1>14, <1>15, <1>16, <1>17, <1>18

\* From the opening of a block to the step behind it.
LEMMA Blocks ==
    ASSUME NEW m \in Methods, NEW A, WellShaped(m, A), NEW i \in 1 .. Len(Script[m]),
           Script[m][i].do \in Openings,
           NEW end, end = i + Script[m][i].n + 1
    PROVE  /\ end \in 1 .. Len(Script[m])
           /\ end + 1 = i + Script[m][i].n + 2
           /\ end + 1 \in 1 .. Len(Script[m]) + 1
           /\ Script[m][end].do = Closing[Script[m][i].do]
           /\ Script[m][end].do \in Closings
           /\ Opening(Script[m], end) = i
           /\ A[end + 1] = After(Script[m][end], A[end], A[i])
<1>1. /\ Len(Script[m]) \in Nat /\ Script[m][i].n \in Nat /\ Safe(m, A, i)
  BY Steps
<1>2. /\ end \in 1 .. Len(Script[m])
      /\ Script[m][end].do = Closing[Script[m][i].do]
      /\ Script[m][end].n = Script[m][i].n
  BY <1>1 DEF Safe
<1>3. Script[m][end].do \in Closings
  BY <1>2 DEF Openings, Closings, Closing
<1>4. Opening(Script[m], end) = i
  BY <1>1, <1>2, <1>3 DEF Opening
<1>5. A[end + 1] = After(Script[m][end], A[end], A[Opening(Script[m], end)])
  BY <1>2, Steps
<1> QED
  BY <1>1, <1>2, <1>3, <1>4, <1>5

\* A call that has not begun has lost nothing and has no exception.
LEMMA InitIInv == Disciplined /\ Init => IInv
<1> SUFFICES ASSUME Disciplined, Init PROVE IInv
  OBVIOUS
<1>1. method \in Methods /\ WellShaped(method, Shape(method))
  BY DEF Init, Disciplined
<1>2. Len(Script[method]) \in Nat
  BY <1>1, ScriptAssumption
<1>3. Shape(method)[1] = Start
  BY <1>1 DEF WellShaped
<1>4. Follows(Start)
  BY DEF Init, Follows, Failing, Kept, Start
<1>5. Follows(Shape(method)[pc]) /\ pc \in 1 .. Len(Script[method]) + 1
  BY <1>2, <1>3, <1>4 DEF Init
<1> QED
  BY <1>1, <1>5 DEF Init, IInv

\* To the next step, and to the one behind a block.
LEMMA Onward ==
    ASSUME NEW m \in Methods, NEW i, i \in 1 .. Len(Script[m]) + 1,
           method' = m, pc' = i, how' = "pending",
           NEW b, b = Shape(m)[i], Follows(b)',
           error' \in BOOLEAN, exc' \in BOOLEAN, inside' \in BOOLEAN
    PROVE  IInv'
  BY DEF IInv

\* The end, or the way there.
LEMMA Ended ==
    ASSUME NEW m \in Methods, pc \in 1 .. Len(Script[m]) + 1, NEW e, e # "pending",
           method = m, method' = m, pc' = pc, how' = e, UNCHANGED held,
           Over', e = "unwinding" => exc',
           error' \in BOOLEAN, exc' \in BOOLEAN, inside' \in BOOLEAN
    PROVE  IInv'
  BY DEF IInv

\* Whatever a method calls next, the analysis of its script has foreseen it.
LEMMA StepIInv == Disciplined /\ IInv /\ [Next]_vars => IInv'
<1> SUFFICES ASSUME Disciplined, IInv, [Next]_vars PROVE IInv'
  OBVIOUS
<1> PICK m \in Methods : m = method
  BY DEF IInv
<1> PICK i \in 1 .. Len(Script[m]) + 1 : i = pc
  BY DEF IInv
<1>0. /\ WellShaped(m, Shape(m)) /\ Len(Script[m]) \in Nat
      /\ error \in BOOLEAN /\ exc \in BOOLEAN /\ inside \in BOOLEAN
  BY ScriptAssumption DEF Disciplined, IInv
<1>1. CASE UNCHANGED vars
  BY <1>1 DEF vars, IInv, Follows, Over, Kept, Failing
<1>2. CASE how = "pending" /\ i # Len(Script[m]) + 1 /\ Next
  <2> DEFINE A == Shape(m)
             s == Script[m][i]
             a == A[i]
             b == A[i + 1]
             o == A[Opening(Script[m], i)]
             end == i + s.n + 1
  <2>0. i \in 1 .. Len(Script[m]) /\ i + 1 \in 1 .. Len(Script[m]) + 1
    BY <1>0, <1>2
  <2>1. s.n \in Nat /\ Safe(m, A, i) /\ b = After(s, a, o) /\ Step = s
    BY <1>0, <2>0, Steps DEF Step
  <2>2. Follows(a)
    BY <1>2 DEF IInv
  <2>3. s.do \in Openings =>
            /\ end \in 1 .. Len(Script[m])
            /\ end + 1 \in 1 .. Len(Script[m]) + 1
            /\ end + 1 = i + s.n + 2
            /\ Script[m][end].do = Closing[s.do]
            /\ Script[m][end].do \in Closings
            /\ A[end + 1] = After(Script[m][end], A[end], a)
    BY <1>0, <2>0, Blocks
  <2>4. ASSUME GoOn, Follows(b)', error' \in BOOLEAN, exc' \in BOOLEAN, inside' \in BOOLEAN
        PROVE  IInv'
    BY <1>2, <2>0, <2>4, Onward DEF GoOn
  <2>5. ASSUME NEW e, e # "pending", End(e), UNCHANGED held, Over', e = "unwinding" => exc',
               error' \in BOOLEAN, exc' \in BOOLEAN, inside' \in BOOLEAN
        PROVE  IInv'
    BY <1>2, <2>5, Ended DEF End
  <2>6. ASSUME NEW kept, NEW known, Clear(m, a, kept, known), known \subseteq KnownLeaks[m],
               Kept \subseteq kept, UNCHANGED <<held, inside, method>>, inside => a.within,
               how' = "returned" => known = {}
        PROVE  Over'
    BY <2>6 DEF Clear, Over, Kept
  <2>7. /\ s.do \notin {"release", "wrap", "wrapAnyway"} => a.may \subseteq b.may
        /\ a.may \ {s.r} \subseteq b.may
        /\ s.do \in {"acquire", "allocate"} => a.may \union {s.r} \subseteq b.may
        /\ s.do = "ignore" => a.bad \subseteq b.may
        /\ s.do \in Closings => o.may \subseteq b.may
        /\ s.do \notin {"release", "releaseOnError", "wrapAnyway"} => a.bad \subseteq b.bad
        /\ a.bad \ {s.r} \subseteq b.bad
        /\ s.do \in {"acquire", "call", "yieldProtected"} => a.may \subseteq b.bad
        /\ s.do \in {"acquire", "call", "yieldProtected", "leave"} => b.fails
        /\ s.do \notin {"check", "ignore"} => (a.fails => b.fails)
        /\ a.raises /\ s.do # "jumpTag" => b.raises
        /\ s.do \in {"check", "ignore"} /\ a.raises => b.fails
        /\ s.do = "yieldProtected" => b.raises
        /\ s.do = "enter" => b.within
        /\ a.within /\ s.do # "leave" => b.within
    BY <2>1, Computed
  <2> HIDE DEF A, s, a, b, o, end
  <2>10. CASE DoConvert
    <3>1. s.do = "convert" /\ ~Failing /\ UNCHANGED <<held, error, exc, inside>>
      BY <2>10, <2>1 DEF DoConvert, Works, At, resources, trouble, rounds
    <3>2. CASE GoOn
      <4>1. Follows(b)'
        BY <3>1, <3>2, <2>2, <2>7 DEF Follows, Failing, Kept, Closings, GoOn
      <4> QED
        BY <3>1, <3>2, <4>1, <2>4, <1>0
    <3>3. CASE End("refused")
      <4>1. Clear(m, a, a.may, KnownLeaks[m]) /\ Kept \subseteq a.may /\ (inside => a.within)
        BY <3>1, <2>1, <2>2 DEF Safe, Follows, s, a, A
      <4>2. Over'
        BY <3>1, <3>3, <4>1, <2>6 DEF End
      <4> QED
        BY <3>1, <3>3, <4>2, <2>5, <1>0
    <3> QED
      BY <2>10, <3>2, <3>3 DEF DoConvert
  <2>11. CASE DoRaise
    <3>1. s.do = "raise" /\ ~Failing /\ End("refused") /\ UNCHANGED <<held, error, exc, inside>>
      BY <2>11, <2>1 DEF DoRaise, Works, At, resources, trouble, rounds
    <3>2. Clear(m, a, a.may, KnownLeaks[m]) /\ Kept \subseteq a.may /\ (inside => a.within)
      BY <3>1, <2>1, <2>2 DEF Safe, Follows, s, a, A
    <3>3. Over'
      BY <3>1, <3>2, <2>6 DEF End
    <3> QED
      BY <3>1, <3>3, <2>5, <1>0
  <2>12. CASE Skip
    <3>1. /\ Failing /\ s.do \notin Cleanup
          /\ pc' = IF s.do \in Openings THEN i + s.n + 2 ELSE i + 1
          /\ UNCHANGED <<method, how, held, error, exc, inside>>
      BY <2>12, <2>1 DEF Skip, resources, trouble, rounds
    <3>2. CASE s.do \in Openings
      <4> DEFINE c == A[end + 1]
      <4>1. /\ a.bad \subseteq c.bad /\ (a.fails => c.fails)
            /\ (a.raises => c.raises) /\ (a.within => c.within)
        BY <3>2, <2>3, Computed
      <4>2. Follows(c)'
        BY <3>1, <4>1, <2>2 DEF Follows, Failing, Kept
      <4> QED
        BY <3>1, <3>2, <4>2, <2>3, <1>0, <1>2, Onward DEF A
    <3>3. CASE s.do \notin Openings
      <4>1. GoOn
        BY <3>1, <3>3, <1>2 DEF GoOn
      <4>2. Follows(b)'
        BY <3>1, <2>2, <2>7 DEF Follows, Failing, Kept, Cleanup
      <4> QED
        BY <3>1, <4>1, <4>2, <2>4, <1>0
    <3> QED
      BY <3>2, <3>3
  <2>13. CASE DoAcquire
    <3>0. /\ s.do = "acquire" /\ ~Failing /\ UNCHANGED <<exc, inside>>
          /\ GoOn /\ method' = method
          /\ \/ held' = held \union {s.r} /\ error' = error
             \/ error' = TRUE /\ held' = held
      BY <2>13, <2>1 DEF DoAcquire, Works, At, GoOn, Gain, rounds
    <3>1. /\ s.do = "acquire" /\ ~Failing /\ UNCHANGED <<exc, inside>> /\ error' \in BOOLEAN
          /\ (error' => held' = held) /\ held' \subseteq held \union {s.r}
          /\ GoOn /\ method' = method
      <4>1. CASE held' = held \union {s.r} /\ error' = error
        <5>1. ~error' /\ error' \in BOOLEAN
          BY <3>0, <4>1, <1>0 DEF Failing
        <5>2. held' \subseteq held \union {s.r}
          BY <4>1
        <5> QED
          BY <3>0, <5>1, <5>2
      <4>2. CASE error' = TRUE /\ held' = held
        BY <3>0, <4>2
      <4> QED
        BY <3>0, <4>1, <4>2
    <3>2. Follows(b)'
      BY <3>1, <2>2, <2>7, <1>0 DEF Follows, Failing, Kept, Closings
    <3> QED
      BY <3>1, <3>2, <2>4, <1>0
  <2>14. CASE DoAllocate
    <3>1. /\ s.do = "allocate" /\ ~Failing /\ held' = held \union {s.r}
          /\ UNCHANGED <<error, exc, inside>>
          /\ GoOn /\ method' = method
      BY <2>14, <2>1 DEF DoAllocate, Works, At, GoOn, Gain, resources, trouble, rounds
    <3>2. Follows(b)'
      BY <3>1, <2>2, <2>7, <1>0 DEF Follows, Failing, Kept, Closings
    <3> QED
      BY <3>1, <3>2, <2>4, <1>0
  <2>15. CASE DoCall
    <3>1. /\ s.do = "call" /\ ~Failing /\ UNCHANGED <<held, exc, inside>> /\ error' \in BOOLEAN
          /\ GoOn /\ method' = method
      BY <2>15, <2>1 DEF DoCall, Works, At, GoOn, resources, trouble, rounds
    <3>2. Follows(b)'
      BY <3>1, <2>2, <2>7, <1>0 DEF Follows, Failing, Kept, Closings
    <3> QED
      BY <3>1, <3>2, <2>4, <1>0
  <2>16. CASE DoUse
    <3>1. /\ s.do = "use" /\ ~Failing /\ UNCHANGED <<held, error, exc, inside>>
          /\ GoOn /\ method' = method
      BY <2>16, <2>1 DEF DoUse, Works, At, GoOn, resources, trouble, rounds
    <3>2. Follows(b)'
      BY <3>1, <2>2, <2>7, <1>0 DEF Follows, Failing, Kept, Closings
    <3> QED
      BY <3>1, <3>2, <2>4, <1>0
  <2>17. CASE DoWrap
    <3>1. /\ ((s.do = "wrap" /\ ~Failing) \/ s.do = "wrapAnyway")
          /\ held' = held \ {s.r} /\ UNCHANGED <<error, exc, inside>>
          /\ GoOn /\ method' = method
      BY <2>17, <2>1 DEF DoWrap, Works, At, GoOn, Lose, resources, trouble, rounds
    <3>2. Follows(b)'
      BY <3>1, <2>2, <2>7, <1>0 DEF Follows, Failing, Kept, Closings
    <3> QED
      BY <3>1, <3>2, <2>4, <1>0
  <2>18. CASE DoRelease
    <3>1. /\ s.do = "release"
          /\ held' = held \ {s.r} /\ UNCHANGED <<error, exc, inside>>
          /\ GoOn /\ method' = method
      BY <2>18, <2>1 DEF DoRelease, Works, At, GoOn, Lose, resources, trouble, rounds
    <3>2. Follows(b)'
      BY <3>1, <2>2, <2>7, <1>0 DEF Follows, Failing, Kept, Closings
    <3> QED
      BY <3>1, <3>2, <2>4, <1>0
  <2>19. CASE DoReleaseOnError
    <3>1. /\ s.do = "releaseOnError"
          /\ held' = (IF Failing THEN held \ {s.r} ELSE held)
          /\ UNCHANGED <<error, exc, inside>>
          /\ GoOn /\ method' = method
      BY <2>19, <2>1 DEF DoReleaseOnError, Works, At, GoOn, Lose, resources, trouble, rounds
    <3>2. Follows(b)'
      BY <3>1, <2>2, <2>7, <1>0 DEF Follows, Failing, Kept, Closings
    <3> QED
      BY <3>1, <3>2, <2>4, <1>0
  <2>20. CASE DoCheck
    <3>1. /\ s.do = "check" /\ UNCHANGED <<held, error, exc, inside>>
          /\ IF error THEN End("failed") ELSE GoOn
      BY <2>20, <2>1 DEF DoCheck, At, resources, trouble, rounds
    <3>2. CASE ~error
      <4>1. Follows(b)'
        BY <3>1, <3>2, <2>2, <2>7, <1>0 DEF Follows, Failing, Kept, GoOn
      <4> QED
        BY <3>1, <3>2, <4>1, <2>4, <1>0
    <3>3. CASE error
      <4>1. Clear(m, a, a.bad, KnownLeaks[m]) /\ Kept \subseteq a.bad /\ (inside => a.within)
        BY <3>1, <3>3, <2>1, <2>2 DEF Safe, Follows, Failing, s, a, A
      <4>2. Over'
        BY <3>1, <3>3, <4>1, <2>6 DEF End
      <4> QED
        BY <3>1, <3>3, <4>2, <2>5, <1>0
    <3> QED
      BY <3>2, <3>3
  <2>21. CASE DoIgnore
    <3>1. /\ s.do = "ignore" /\ ~error' /\ error' \in BOOLEAN
          /\ UNCHANGED <<held, exc, inside>>
          /\ GoOn /\ method' = method
      BY <2>21, <2>1 DEF DoIgnore, Works, At, GoOn, resources, trouble, rounds
    <3>2. Follows(b)'
      BY <3>1, <2>2, <2>7, <1>0 DEF Follows, Failing, Kept, Closings
    <3> QED
      BY <3>1, <3>2, <2>4, <1>0
  <2>22. CASE DoMissing
    <3>1. /\ s.do = "missing" /\ UNCHANGED <<held, error, exc, inside>>
          /\ GoOn \/ (error /\ End("returned"))
      BY <2>22, <2>1 DEF DoMissing, At, resources, trouble, rounds
    <3>2. CASE GoOn
      <4>1. Follows(b)'
        BY <3>1, <3>2, <2>2, <2>7, <1>0 DEF Follows, Failing, Kept, GoOn
      <4> QED
        BY <3>1, <3>2, <4>1, <2>4, <1>0
    <3>3. CASE error /\ End("returned")
      <4>1. Clear(m, a, a.bad, {}) /\ Kept \subseteq a.bad /\ (inside => a.within)
        BY <3>1, <3>3, <2>1, <2>2 DEF Safe, Follows, Failing, s, a, A
      <4>2. Over'
        BY <3>1, <3>3, <4>1, <2>6 DEF End
      <4> QED
        BY <3>1, <3>3, <4>2, <2>5, <1>0
    <3> QED
      BY <3>1, <3>2, <3>3
  <2>23. CASE DoYield
    <3>1. /\ s.do = "yield" /\ ~Failing /\ UNCHANGED <<held, error, inside>>
          /\ (GoOn /\ UNCHANGED exc) \/ (End("unwinding") /\ exc' = TRUE)
      BY <2>23, <2>1 DEF DoYield, Works, At, resources
    <3>2. CASE GoOn /\ UNCHANGED exc
      <4>1. Follows(b)'
        BY <3>1, <3>2, <2>2, <2>7, <1>0 DEF Follows, Failing, Kept, GoOn
      <4> QED
        BY <3>1, <3>2, <4>1, <2>4, <1>0
    <3>3. CASE End("unwinding") /\ exc' = TRUE
      <4>1. Clear(m, a, a.may, KnownLeaks[m]) /\ Kept \subseteq a.may /\ (inside => a.within)
        BY <3>1, <3>3, <2>1, <2>2 DEF Safe, Follows, Failing, s, a, A
      <4>2. Over'
        BY <3>1, <3>3, <4>1, <2>6 DEF End
      <4> QED
        BY <3>1, <3>3, <4>2, <2>5, <1>0
    <3> QED
      BY <3>1, <3>2, <3>3
  <2>24. CASE DoYieldProtected
    <3>1. /\ s.do = "yieldProtected" /\ ~Failing /\ exc' \in BOOLEAN
          /\ UNCHANGED <<held, error, inside>>
          /\ GoOn /\ method' = method
      BY <2>24, <2>1 DEF DoYieldProtected, Works, At, GoOn, resources, trouble, rounds
    <3>2. Follows(b)'
      BY <3>1, <2>2, <2>7, <1>0 DEF Follows, Failing, Kept, Closings
    <3> QED
      BY <3>1, <3>2, <2>4, <1>0
  <2>25. CASE DoJumpTag
    <3>1. /\ s.do = "jumpTag" /\ UNCHANGED <<held, error, exc, inside>>
          /\ IF exc THEN End("raised") ELSE GoOn
      BY <2>25, <2>1 DEF DoJumpTag, At, resources, trouble, rounds
    <3>2. CASE ~exc
      <4>1. Follows(b)'
        BY <3>1, <3>2, <2>2, <2>7, <1>0 DEF Follows, Failing, Kept, GoOn
      <4> QED
        BY <3>1, <3>2, <4>1, <2>4, <1>0
    <3>3. CASE exc
      <4>1. Clear(m, a, a.bad, KnownLeaks[m]) /\ Kept \subseteq a.bad /\ (inside => a.within)
        BY <3>1, <3>3, <2>1, <2>2 DEF Safe, Follows, Failing, s, a, A
      <4>2. Over'
        BY <3>1, <3>3, <4>1, <2>6 DEF End
      <4> QED
        BY <3>1, <3>3, <4>2, <2>5, <1>0
    <3> QED
      BY <3>2, <3>3
  <2>26. CASE Enter
    <3>1. /\ s.do = "enter" /\ ~Failing /\ UNCHANGED <<held, exc>>
          /\ \/ GoOn /\ inside' = TRUE /\ UNCHANGED error
             \/ pc' = i + s.n + 2 /\ UNCHANGED <<method, how, inside>> /\ error' \in BOOLEAN
      BY <2>26, <2>1 DEF Enter, Works, At, resources
    <3>2. CASE GoOn /\ inside' = TRUE /\ UNCHANGED error
      <4>1. Follows(b)'
        BY <3>1, <3>2, <2>2, <2>7, <1>0 DEF Follows, Failing, Kept, GoOn
      <4> QED
        BY <3>1, <3>2, <4>1, <2>4, <1>0
    <3>3. CASE pc' = i + s.n + 2 /\ UNCHANGED <<method, how, inside>> /\ error' \in BOOLEAN
      <4> DEFINE c == A[end + 1]
      <4>1. s.do \in Openings /\ Script[m][end].do = "leave"
        BY <3>1, <2>3 DEF Openings, Closing
      <4>2. a.may \subseteq c.bad /\ a.may \subseteq c.may /\ c.fails /\ (a.within => c.within)
        BY <4>1, <2>3, Computed DEF Closings
      <4>3. Follows(c)'
        BY <3>1, <3>3, <4>2, <2>2 DEF Follows, Failing, Kept
      <4> QED
        BY <3>1, <3>3, <4>1, <4>3, <2>3, <1>0, <1>2, Onward DEF A
    <3> QED
      BY <3>1, <3>2, <3>3
  <2>27. CASE Leave
    <3>1. /\ s.do = "leave" /\ inside' = FALSE /\ UNCHANGED <<method, how, held, exc>>
          /\ IF Failing THEN pc' = i + 1 /\ error' = TRUE
                        ELSE pc' = i - s.n - 1 /\ UNCHANGED error
      BY <2>27, <2>1 DEF Leave, At, resources
    <3> DEFINE back == i - s.n - 1
               c == A[back]
    <3>2. s.do \in Closings /\ back \in 1 .. Len(Script[m]) + 1 /\ TRUE
          /\ a.may \ KnownLosses[m] \subseteq c.may
      BY <3>1, <2>1, <1>0 DEF Safe, Closings, s, a, A
    <3>3. CASE Failing
      <4>1. Follows(b)' /\ GoOn
        BY <3>1, <3>3, <2>2, <2>7, <1>0 DEF Follows, Failing, Kept, GoOn
      <4> QED
        BY <3>1, <3>3, <4>1, <2>4, <1>0
    <3>4. CASE ~Failing
      <4>1. Follows(c)'
        BY <3>1, <3>2, <3>4, <2>2, <1>0 DEF Follows, Failing, Kept
      <4> QED
        BY <3>1, <3>2, <3>4, <4>1, <1>0, <1>2, Onward DEF A
    <3> QED
      BY <3>3, <3>4
  <2>28. CASE DoLoop
    <3>1. /\ s.do = "loop" /\ ~Failing /\ UNCHANGED <<held, error, exc, inside>>
          /\ GoOn \/ (pc' = i + s.n + 2 /\ UNCHANGED <<method, how>>)
      BY <2>28, <2>1 DEF DoLoop, Works, At, resources, trouble
    <3>2. CASE GoOn
      <4>1. Follows(b)'
        BY <3>1, <3>2, <2>2, <2>7, <1>0 DEF Follows, Failing, Kept, GoOn
      <4> QED
        BY <3>1, <3>2, <4>1, <2>4, <1>0
    <3>3. CASE pc' = i + s.n + 2 /\ UNCHANGED <<method, how>>
      <4> DEFINE c == A[end + 1]
      <4>1. s.do \in Openings
        BY <3>1 DEF Openings
      <4>2. a.may \subseteq c.may /\ (a.within => c.within)
        BY <4>1, <2>3, Computed
      <4>3. Follows(c)'
        BY <3>1, <3>3, <4>2, <2>2 DEF Follows, Failing, Kept
      <4> QED
        BY <3>1, <3>3, <4>1, <4>3, <2>3, <1>0, <1>2, Onward DEF A
    <3> QED
      BY <3>1, <3>2, <3>3
  <2>29. CASE Again
    <3>1. /\ s.do = "again" /\ UNCHANGED <<method, how, held, error, exc, inside>>
          /\ pc' = IF Failing THEN i + 1 ELSE i - s.n - 1
      BY <2>29, <2>1 DEF Again, At, resources, trouble, rounds
    <3> DEFINE back == i - s.n - 1
               c == A[back]
    <3>2. s.do \in Closings /\ back \in 1 .. Len(Script[m]) + 1 /\ (a.within => c.within)
          /\ a.may \ KnownLosses[m] \subseteq c.may
      BY <3>1, <2>1, <1>0 DEF Safe, Closings, s, a, A
    <3>3. CASE Failing
      <4>1. Follows(b)' /\ GoOn
        BY <3>1, <3>3, <2>2, <2>7, <1>0 DEF Follows, Failing, Kept, GoOn
      <4> QED
        BY <3>1, <3>3, <4>1, <2>4, <1>0
    <3>4. CASE ~Failing
      <4>1. Follows(c)'
        BY <3>1, <3>2, <3>4, <2>2, <1>0 DEF Follows, Failing, Kept
      <4> QED
        BY <3>1, <3>2, <3>4, <4>1, <1>0, <1>2, Onward DEF A
    <3> QED
      BY <3>3, <3>4
  <2>30. CASE DoOptional
    <3>1. /\ s.do = "optional" /\ ~Failing
          /\ UNCHANGED <<method, how, held, error, exc, inside>>
          /\ GoOn \/ pc' = i + s.n + 2
      BY <2>30, <2>1 DEF DoOptional, GoOn, Works, At, resources, trouble, rounds
    <3>2. CASE GoOn
      <4>1. Follows(b)'
        BY <3>1, <3>2, <2>2, <2>7, <1>0 DEF Follows, Failing, Kept, GoOn
      <4> QED
        BY <3>1, <3>2, <4>1, <2>4, <1>0
    <3>3. CASE pc' = i + s.n + 2 /\ UNCHANGED <<method, how>>
      <4> DEFINE c == A[end + 1]
      <4>1. s.do \in Openings
        BY <3>1 DEF Openings
      <4>2. a.may \subseteq c.may /\ (a.within => c.within)
        BY <4>1, <2>3, Computed
      <4>3. Follows(c)'
        BY <3>1, <3>3, <4>2, <2>2 DEF Follows, Failing, Kept
      <4> QED
        BY <3>1, <3>3, <4>1, <4>3, <2>3, <1>0, <1>2, Onward DEF A
    <3> QED
      BY <3>1, <3>2, <3>3
  <2>31. CASE Done
    <3>1. /\ s.do = "done" /\ UNCHANGED <<held, error, exc, inside>>
          /\ GoOn /\ method' = method
      BY <2>31, <2>1 DEF Done, Works, At, GoOn, resources, trouble, rounds
    <3>2. Follows(b)'
      BY <3>1, <2>2, <2>7, <1>0 DEF Follows, Failing, Kept, Closings
    <3> QED
      BY <3>1, <3>2, <2>4, <1>0
  <2> QED
    BY <1>2, <2>10, <2>11, <2>12, <2>13, <2>14, <2>15, <2>16, <2>17, <2>18, <2>19, <2>20, <2>21, <2>22, <2>23, <2>24, <2>25, <2>26, <2>27, <2>28, <2>29, <2>30, <2>31,
       <2>0, <1>0 DEF Next, Unwind, Return
<1>3. CASE Unwind
  <2>1. Over'
    BY <1>3 DEF IInv, Unwind, End, Over, Kept, resources, rounds
  <2> QED
    BY <1>3, <2>1, <1>0, Ended DEF Unwind, End, resources, trouble, rounds
<1>4. CASE Return
  <2>1. Follows(Shape(m)[Len(Script[m]) + 1]) /\ i = Len(Script[m]) + 1
    BY <1>4 DEF IInv, Return
  <2>2. Kept = {} /\ (inside => m \in KnownJumps)
    BY <1>0, <2>1 DEF WellShaped, Clear, Follows, Failing, Kept
  <2>3. Over'
    BY <1>4, <2>2 DEF Return, End, Over, Kept, resources, rounds
  <2> QED
    BY <1>4, <2>3, <1>0, Ended DEF Return, End, resources, trouble, rounds
<1>5. Next => Unwind \/ Return \/ (how = "pending" /\ pc <= Len(Script[method]))
  BY DEF Next, Skip, DoConvert, DoRaise, DoAcquire, DoAllocate, DoCall, DoUse, DoWrap, DoRelease,
     DoReleaseOnError, DoCheck, DoIgnore, DoMissing, DoYield, DoYieldProtected, DoJumpTag,
     Enter, Leave, DoLoop, Again, DoOptional, Done, Works, At
<1>6. pc <= Len(Script[method]) => i # Len(Script[m]) + 1
  BY <1>0
<1> QED
  BY <1>1, <1>2, <1>3, <1>4, <1>5, <1>6

\* The rule for the step that is about to be taken, and what may come after it.
LEMMA Now ==
    ASSUME Disciplined, IInv, how = "pending", pc <= Len(Script[method])
    PROVE  /\ Safe(method, Shape(method), pc)
           /\ Follows(Shape(method)[pc])
<1>1. method \in Methods /\ WellShaped(method, Shape(method))
  BY DEF IInv, Disciplined
<1>2. pc \in 1 .. Len(Script[method])
  BY <1>1, ScriptAssumption DEF IInv
<1> QED
  BY <1>1, <1>2, Steps DEF IInv

\* The rules of the discipline rule out the leak and the jump over C frames.
LEMMA SafeCalls == Disciplined /\ IInv => NothingLost /\ NoJump
<1> SUFFICES ASSUME Disciplined, IInv PROVE NothingLost /\ NoJump
  OBVIOUS
<1>1. ASSUME Works("acquire") \/ Works("allocate") PROVE Step.r \notin Kept
  <2>1. /\ Safe(method, Shape(method), pc) /\ Follows(Shape(method)[pc])
        /\ Step = Script[method][pc] /\ Step.do \in {"acquire", "allocate"} /\ ~Failing
    BY <1>1, Now DEF Works, At, Step
  <2>2. Step.r \notin Shape(method)[pc].may \ KnownLosses[method]
    BY <2>1 DEF Safe
  <2> QED
    BY <2>1, <2>2 DEF Follows, Kept
<1>2. how # "pending" => Over
  BY DEF IInv
<1> QED
  BY <1>1, <1>2 DEF NothingLost, NoJump, Over, Kept

\* A call holds, frees and hands over nothing but what its script names, and its
\* loops take no more turns than they may.
Bounded ==
    /\ held \subseteq Resources(method) /\ gone \subseteq Resources(method)
    /\ calls \in Nat /\ turns \in 0 .. Turns
    /\ how \in {"pending", "unwinding", "returned", "raised", "failed", "refused"}

\* No step needs the discipline for that.
LEMMA BoundedStep ==
    ASSUME IInv, Bounded, [Next]_vars
    PROVE  Bounded'
<1>1. CASE UNCHANGED vars
  BY <1>1 DEF vars, Bounded
<1>2. CASE Next
  <2>1. method' = method
    BY <1>2 DEF Next, Skip, DoConvert, DoRaise, DoAcquire, DoAllocate, DoCall, DoUse, DoWrap,
        DoRelease, DoReleaseOnError, DoCheck, DoIgnore, DoMissing, DoYield, DoYieldProtected,
        Unwind, DoJumpTag, Enter, Leave, DoLoop, Again, DoOptional, Done, Return, GoOn, End
  <2>2. how' \in {how, "unwinding", "returned", "raised", "failed", "refused"}
    BY <1>2 DEF Next, Skip, DoConvert, DoRaise, DoAcquire, DoAllocate, DoCall, DoUse, DoWrap,
        DoRelease, DoReleaseOnError, DoCheck, DoIgnore, DoMissing, DoYield, DoYieldProtected,
        Unwind, DoJumpTag, Enter, Leave, DoLoop, Again, DoOptional, Done, Return, GoOn, End
  <2>3. calls' \in {calls, calls + 1} /\ (turns' = turns \/ (turns < Turns /\ turns' = turns + 1))
    BY <1>2 DEF Next, Skip, DoConvert, DoRaise, DoAcquire, DoAllocate, DoCall, DoUse, DoWrap,
        DoRelease, DoReleaseOnError, DoCheck, DoIgnore, DoMissing, DoYield, DoYieldProtected,
        Unwind, DoJumpTag, Enter, Leave, DoLoop, Again, DoOptional, Done, Return, rounds
  <2>4. \/ UNCHANGED resources
        \/ /\ how = "pending" /\ pc <= Len(Script[method])
           /\ held' \subseteq held \union {Step.r}
           /\ gone' \subseteq gone \union (held \intersect {Step.r})
    BY <1>2 DEF Next, Skip, DoConvert, DoRaise, DoAcquire, DoAllocate, DoCall, DoUse, DoWrap,
        DoRelease, DoReleaseOnError, DoCheck, DoIgnore, DoMissing, DoYield, DoYieldProtected,
        Unwind, DoJumpTag, Enter, Leave, DoLoop, Again, DoOptional, Done, Return, resources,
        Gain, Lose, Works, At
  <2>5. pc <= Len(Script[method]) => Step.r \in Resources(method)
    BY ScriptAssumption DEF IInv, Step, Resources
  <2>6. held' \subseteq Resources(method) /\ gone' \subseteq Resources(method)
    BY <2>4, <2>5 DEF Bounded, resources
  <2>7. calls' \in Nat /\ turns' \in 0 .. Turns
    BY <2>3, TurnsAssumption DEF Bounded
  <2> QED
    BY <2>1, <2>2, <2>6, <2>7 DEF Bounded
<1> QED
  BY <1>1, <1>2

\* The jumps of a disciplined method stay inside its steps, whether to its cleanup,
\* over a block or back to the beginning of one, and it holds and frees only what
\* they name.
THEOREM CallsTyped == Disciplined => (Spec => []TypeOK)
<1> SUFFICES ASSUME Disciplined PROVE Spec => []TypeOK
  OBVIOUS
<1>1. Init => IInv /\ Bounded
  BY InitIInv, TurnsAssumption DEF Init, Bounded
<1>2. IInv /\ Bounded /\ [Next]_vars => IInv' /\ Bounded'
  BY StepIInv, BoundedStep
<1>3. IInv /\ Bounded => TypeOK
  BY DEF IInv, Bounded, TypeOK
<1> QED
  BY <1>1, <1>2, <1>3, PTL DEF Spec

\* No method loses what it has acquired, beyond what is known of it.
THEOREM CallsNothingLost == Disciplined => (Spec => []NothingLost)
<1> SUFFICES ASSUME Disciplined PROVE Spec => []NothingLost
  OBVIOUS
<1>1. Init => IInv
  BY InitIInv
<1>2. IInv /\ [Next]_vars => IInv'
  BY StepIInv
<1>3. IInv => NothingLost
  BY SafeCalls
<1> QED
  BY <1>1, <1>2, <1>3, PTL DEF Spec

\* No exception passes over libgit2, but in the methods known for it.
THEOREM CallsNoJump == Disciplined => (Spec => []NoJump)
<1> SUFFICES ASSUME Disciplined PROVE Spec => []NoJump
  OBVIOUS
<1>1. Init => IInv
  BY InitIInv
<1>2. IInv /\ [Next]_vars => IInv'
  BY StepIInv
<1>3. IInv => NoJump
  BY SafeCalls
<1> QED
  BY <1>1, <1>2, <1>3, PTL DEF Spec

\* A step of a method that keeps the discipline is one of Relay.
LEMMA NextRelay ==
    Disciplined /\ IInv /\ [Next]_vars => [(method \in KnownSilent) \/ R!Next]_<<calls, exc, how>>
<1> SUFFICES ASSUME Disciplined, IInv, [Next]_vars, method \notin KnownSilent
             PROVE  R!Next \/ UNCHANGED <<calls, exc, how>>
  OBVIOUS
<1> USE DEF R!Next, R!Call, R!End
<1>0. error \in BOOLEAN /\ exc \in BOOLEAN
  BY DEF IInv
<1>1. CASE DoConvert \/ DoRaise
  BY <1>1 DEF DoConvert, DoRaise, Works, At, Failing, GoOn, End, resources, trouble, rounds
<1>2. CASE DoCheck
  <2>1. CASE error
    <3>1. Step.do = "check" /\ Step = Script[method][pc]
          /\ Safe(method, Shape(method), pc) /\ Follows(Shape(method)[pc])
      BY <1>2, Now DEF DoCheck, At, Step
    <3>2. ~exc
      BY <2>1, <3>1 DEF Safe, Follows, Failing
    <3> QED
      BY <1>2, <2>1, <3>2 DEF DoCheck, At, End, trouble, rounds
  <2>2. CASE ~error
    BY <1>2, <2>2 DEF DoCheck, At, GoOn, trouble, rounds
  <2> QED
    BY <2>1, <2>2
<1>3. CASE DoMissing
  <2>1. CASE error
    <3>1. Step.do = "missing" /\ Step = Script[method][pc]
          /\ Safe(method, Shape(method), pc) /\ Follows(Shape(method)[pc])
      BY <1>3, Now DEF DoMissing, At, Step
    <3>2. ~exc
      BY <2>1, <3>1 DEF Safe, Follows, Failing
    <3> QED
      BY <1>3, <2>1, <3>2 DEF DoMissing, At, End, GoOn, trouble, rounds
  <2>2. CASE ~error
    BY <1>3, <2>2 DEF DoMissing, At, GoOn, trouble, rounds
  <2> QED
    BY <2>1, <2>2
<1>4. CASE DoYield \/ DoYieldProtected
  BY <1>4, <1>0 DEF DoYield, DoYieldProtected, Works, At, Failing, GoOn, End
<1>5. CASE Unwind
  BY <1>5 DEF Unwind, IInv, End, trouble, rounds
<1>6. CASE DoJumpTag
  BY <1>6 DEF DoJumpTag, At, GoOn, End, trouble, rounds
<1>7. CASE Return
  <2>1. /\ Follows(Shape(method)[Len(Script[method]) + 1])
        /\ WellShaped(method, Shape(method))
    BY <1>7 DEF IInv, Disciplined, Return
  <2>2. ~exc
    BY <2>1 DEF WellShaped, Follows
  <2> QED
    BY <1>7, <2>2 DEF Return, End, trouble, rounds
<1>8. CASE \/ Skip \/ DoAcquire \/ DoAllocate \/ DoCall \/ DoUse \/ DoWrap \/ DoRelease
           \/ DoReleaseOnError \/ DoIgnore \/ Enter \/ Leave \/ DoLoop \/ Again
           \/ DoOptional \/ Done \/ UNCHANGED vars
  BY <1>8 DEF Skip, DoAcquire, DoAllocate, DoCall, DoUse, DoWrap, DoRelease, DoReleaseOnError,
     DoIgnore, Enter, Leave, DoLoop, Again, DoOptional, Done, GoOn, trouble, rounds, vars
<1> QED
  BY <1>1, <1>2, <1>3, <1>4, <1>5, <1>6, <1>7, <1>8 DEF Next

\* A block that raises is the last one to run, and its exception is the one
\* that the method raises, but in the methods known to lose it.
THEOREM CallsRelay == Disciplined => (Spec => RelaySpec)
<1> SUFFICES ASSUME Disciplined PROVE Spec => RelaySpec
  OBVIOUS
<1>1. Init => R!Init
  BY DEF Init, R!Init
<1>2. Init => IInv
  BY InitIInv
<1>3. IInv /\ [Next]_vars => IInv'
  BY StepIInv
<1>4. IInv /\ [Next]_vars => [(method \in KnownSilent) \/ R!Next]_<<calls, exc, how>>
  BY NextRelay
<1> QED
  BY <1>1, <1>2, <1>3, <1>4, PTL DEF Spec, RelaySpec

-----------------------------------------------------------------------------
(* What a method does not have.                                             *)

\* What is so of a call.
Facts == Lacking(Resources(method) \ held) \union Spent(gone)

\* What the discipline says of the next step is true of the call.
Meets(b) ==
    /\ Failing => Facts \subseteq b.bad
    /\ ~Failing => Facts \subseteq b.good

Expected(m) == Supply(m, Shape(m))

SInv == how = "pending" /\ method \notin KnownWild => Meets(Expected(method)[pc])

\* What the discipline computes, by kinds of steps.
LEMMA Expects ==
    ASSUME NEW s, NEW a, NEW b, NEW o, NEW c, c = Afterwards(s, a, b, o)
    PROVE  /\ s.do \notin {"raise", "acquire", "allocate"} => b.good \subseteq c.good
           /\ s.do \in {"acquire", "allocate"} => b.good \ Without(s.r) \subseteq c.good
           /\ s.do \in Giving => Without(s.r) \subseteq c.good
           /\ s.do = "ignore" => b.bad \subseteq c.good
           /\ s.do \in Closings => o.good \subseteq c.good
           /\ s.do \notin {"check", "ignore"} \/ a.raises => b.bad \subseteq c.bad
           /\ s.do \in {"call", "yieldProtected"} => b.good \subseteq c.bad
           /\ s.do = "acquire" => b.good \ Spent({s.r}) \subseteq c.bad
           /\ s.do = "leave" => o.good \subseteq c.bad
           /\ s.do \in Closings => o.bad \subseteq c.bad
           /\ s.do \in {"release", "releaseOnError", "wrapAnyway"} /\ a.fails =>
                  Without(s.r) \subseteq c.bad
<1>1. c.good =
        (((IF s.do = "raise" THEN {} ELSE b.good)
              \union When(s, {"ignore"}, b.bad)
              \union When(s, Closings, o.good))
             \ When(s, {"acquire", "allocate"}, Without(s.r)))
            \union When(s, Giving, Without(s.r))
  BY DEF Afterwards
<1>2. c.bad =
        (IF s.do \in {"check", "ignore"} /\ ~a.raises THEN {} ELSE b.bad)
            \union When(s, {"acquire", "call", "yieldProtected"},
                        b.good \ When(s, {"acquire"}, Spent({s.r})))
            \union When(s, {"leave"}, o.good)
            \union When(s, Closings, o.bad)
            \union When(s, IF a.fails THEN {"release", "releaseOnError", "wrapAnyway"} ELSE {},
                        Without(s.r))
  BY DEF Afterwards
<1>3. s.do \notin {"raise", "acquire", "allocate"} => b.good \subseteq c.good
  BY <1>1 DEF When
<1>4. s.do \in {"acquire", "allocate"} => b.good \ Without(s.r) \subseteq c.good
  BY <1>1 DEF When
<1>5. s.do \in Giving => Without(s.r) \subseteq c.good
  BY <1>1 DEF When
<1>6. s.do = "ignore" => b.bad \subseteq c.good
  BY <1>1 DEF When
<1>7. s.do \in Closings => o.good \subseteq c.good
  BY <1>1 DEF When, Closings
<1>8. s.do \notin {"check", "ignore"} \/ a.raises => b.bad \subseteq c.bad
  BY <1>2
<1>9. s.do \in {"call", "yieldProtected"} => b.good \subseteq c.bad
  BY <1>2 DEF When
<1>10. s.do = "acquire" => b.good \ Spent({s.r}) \subseteq c.bad
  BY <1>2 DEF When
<1>11. s.do = "leave" => o.good \subseteq c.bad
  BY <1>2 DEF When
<1>12. s.do \in Closings => o.bad \subseteq c.bad
  BY <1>2 DEF When
<1>13. s.do \in {"release", "releaseOnError", "wrapAnyway"} /\ a.fails => Without(s.r) \subseteq c.bad
  BY <1>2 DEF When
<1> QED
  BY <1>3, <1>4, <1>5, <1>6, <1>7, <1>8, <1>9, <1>10, <1>11, <1>12, <1>13

\* What becomes of the facts when something is gained or given away.
LEMMA FactsKept == UNCHANGED <<resources, method>> => Facts' = Facts
  BY DEF resources, Facts

\* What is gained is neither lacked nor spent any longer.
LEMMA FactsGain ==
    ASSUME Gain, method' = method
    PROVE  Facts' \subseteq Facts \ Without(Step.r)
  BY DEF Gain, Facts, Without, Lacking, Spent

\* What a failed call of libgit2 overwrites is not spent.
LEMMA FactsFail ==
    ASSUME held' = held, gone' = gone \ {Step.r}, method' = method
    PROVE  Facts' \subseteq Facts \ Spent({Step.r})
  BY DEF Facts, Lacking, Spent

\* Of what is given away the method may make no use from then on.
LEMMA FactsLose ==
    ASSUME Lose, method' = method
    PROVE  Facts' \subseteq Facts \union Without(Step.r)
  BY DEF Lose, Facts, Without, Lacking, Spent

\* A step that keeps the method in hand, in the state the discipline gives it.
LEMMA StepSInv ==
    ASSUME Disciplined, Provident, IInv, IInv', SInv, Next, method \notin KnownWild,
           how' = "pending"
    PROVE  Meets(Expected(method)[pc])'
<1> PICK m \in Methods : m = method
  BY DEF IInv
<1> PICK i \in 1 .. Len(Script[m]) + 1 : i = pc
  BY DEF IInv
<1>0. /\ WellShaped(m, Shape(m)) /\ Len(Script[m]) \in Nat
      /\ error \in BOOLEAN /\ exc \in BOOLEAN /\ error' \in BOOLEAN /\ exc' \in BOOLEAN
      /\ WellSupplied(m, Shape(m), Expected(m))
  BY ScriptAssumption DEF Disciplined, Provident, IInv, Expected
<1>1. ~Unwind /\ ~Return
  BY DEF Unwind, Return, End
<1>2. how = "pending" /\ i # Len(Script[m]) + 1 /\ method' = m /\ i \in 1 .. Len(Script[m])
  BY <1>0, <1>1 DEF Next, Skip, DoConvert, DoRaise, DoAcquire, DoAllocate, DoCall, DoUse, DoWrap,
     DoRelease, DoReleaseOnError, DoCheck, DoIgnore, DoMissing, DoYield, DoYieldProtected,
     DoJumpTag, Enter, Leave, DoLoop, Again, DoOptional, Done, Works, At, GoOn, End
<1> DEFINE A == Shape(m)
           B == Expected(m)
           s == Script[m][i]
           a == A[i]
           b == B[i]
           o == B[Opening(Script[m], i)]
           c == Afterwards(s, a, b, o)
           end == i + s.n + 1
<1>3. /\ s.n \in Nat /\ Safe(m, A, i) /\ Step = s
      /\ Supplied(m, B, i) /\ c.good \subseteq B[i + 1].good /\ c.bad \subseteq B[i + 1].bad
  BY <1>0, <1>2, Steps DEF Step, WellSupplied
<1>4. (Failing => a.fails) /\ (exc => a.raises)
  BY <1>2 DEF IInv, Follows
<1>5. (Failing => Facts \subseteq b.bad) /\ (~Failing => Facts \subseteq b.good)
  BY <1>2 DEF SInv, Meets
<1>6. s.do \in Openings =>
          /\ end \in 1 .. Len(Script[m])
          /\ end + 1 = i + s.n + 2
          /\ Script[m][end].do = Closing[s.do]
          /\ Script[m][end].do \in Closings
          /\ Opening(Script[m], end) = i
  BY <1>0, <1>2, Blocks
<1>7. s.do \in Openings =>
          /\ b.good \subseteq B[end + 1].good /\ b.bad \subseteq B[end + 1].bad
          /\ s.do = "enter" => b.good \subseteq B[end + 1].bad
  <2> SUFFICES ASSUME s.do \in Openings
               PROVE  /\ b.good \subseteq B[end + 1].good /\ b.bad \subseteq B[end + 1].bad
                      /\ s.do = "enter" => b.good \subseteq B[end + 1].bad
    OBVIOUS
  <2> DEFINE t == Script[m][end]
             d == Afterwards(t, A[end], B[end], b)
  <2>1. d.good \subseteq B[end + 1].good /\ d.bad \subseteq B[end + 1].bad
    BY <1>0, <1>6 DEF WellSupplied
  <2>2. t.do \in Closings /\ (s.do = "enter" => t.do = "leave")
    BY <1>6 DEF Closing
  <2> HIDE DEF t, d, A, B, s, a, b, o, c, end
  <2>3. /\ t.do \in Closings => b.good \subseteq d.good
        /\ t.do = "leave" => b.good \subseteq d.bad
        /\ t.do \in Closings => b.bad \subseteq d.bad
    <3>1. d = Afterwards(t, A[end], B[end], b)
      BY DEF d
    <3> DEFINE e == A[end]
               f == B[end]
    <3>2. d = Afterwards(t, e, f, b)
      BY <3>1
    <3> HIDE DEF e, f
    <3> QED
      BY <3>2, Expects
  <2> QED
    BY <2>1, <2>2, <2>3
<1>9. s.do \in {"leave", "again"} => b.good \subseteq B[i - s.n - 1].good
  BY <1>3 DEF Supplied, Opening, Closings
<1> HIDE DEF A, B, s, a, b, o, c, end
<1>8. /\ s.do \notin {"raise", "acquire", "allocate"} => b.good \subseteq c.good
      /\ s.do \in {"acquire", "allocate"} => b.good \ Without(s.r) \subseteq c.good
      /\ s.do \in Giving => Without(s.r) \subseteq c.good
      /\ s.do = "ignore" => b.bad \subseteq c.good
      /\ s.do \notin {"check", "ignore"} \/ a.raises => b.bad \subseteq c.bad
      /\ s.do \in {"call", "yieldProtected"} => b.good \subseteq c.bad
      /\ s.do = "acquire" => b.good \ Spent({s.r}) \subseteq c.bad
      /\ s.do \in {"release", "releaseOnError", "wrapAnyway"} /\ a.fails =>
             Without(s.r) \subseteq c.bad
  BY Expects DEF c
<1>10. ASSUME GoOn, Failing' => Facts' \subseteq c.bad, ~Failing' => Facts' \subseteq c.good
       PROVE  Meets(Expected(method)[pc])'
  <2>1. Expected(method)' = B /\ pc' = i + 1
    BY <1>2, <1>10 DEF GoOn, B
  <2> QED
    BY <1>3, <1>10, <2>1 DEF Meets
<1>11. ASSUME pc' = end + 1, s.do \in Openings, UNCHANGED resources,
              ~Failing \/ Failing', ~Failing' => ~Failing,
              s.do = "enter" \/ (Failing <=> Failing')
       PROVE  Meets(Expected(method)[pc])'
  <2>1. Expected(method)' = B /\ Facts' = Facts
    BY <1>2, <1>11, FactsKept DEF B
  <2> QED
    BY <1>5, <1>7, <1>11, <2>1 DEF Meets
<1>12. CASE Skip
  <2>1. /\ Failing /\ s.do \notin Cleanup /\ UNCHANGED <<resources, trouble>>
        /\ pc' = IF s.do \in Openings THEN i + s.n + 2 ELSE i + 1
    BY <1>12, <1>3 DEF Skip
  <2>2. Failing' /\ Facts' = Facts
    BY <2>1, <1>2, FactsKept DEF Failing, trouble
  <2>3. CASE s.do \in Openings
    BY <2>1, <2>2, <2>3, <1>6, <1>11
  <2>4. CASE s.do \notin Openings
    <3>1. GoOn /\ b.bad \subseteq c.bad
      BY <2>1, <2>4, <1>2, <1>8 DEF GoOn, Cleanup
    <3> QED
      BY <3>1, <2>2, <1>5, <1>10, <2>1
  <2> QED
    BY <2>3, <2>4
<1>13. CASE DoConvert \/ DoUse \/ DoYield
  <2>1. /\ s.do \in {"convert", "use", "yield"} /\ ~Failing /\ GoOn
        /\ UNCHANGED <<resources, trouble>>
    BY <1>13, <1>3 DEF DoConvert, DoUse, DoYield, Works, At, End, trouble
  <2>2. ~Failing' /\ Facts' = Facts
    BY <2>1, <1>2, FactsKept DEF Failing, trouble
  <2> QED
    BY <2>1, <2>2, <1>5, <1>8, <1>10
<1>14. ~DoRaise
  BY DEF DoRaise, End
<1>15. CASE DoAcquire
  <2>1. s.do = "acquire" /\ ~Failing /\ GoOn /\ exc' = exc
    BY <1>15, <1>3 DEF DoAcquire, Works, At
  <2>2. CASE Gain /\ UNCHANGED error
    <3>1. ~Failing' /\ Facts' \subseteq Facts \ Without(s.r)
      BY <2>1, <2>2, <1>2, <1>3, FactsGain DEF Failing
    <3> QED
      BY <2>1, <3>1, <1>5, <1>8, <1>10
  <2>3. CASE error' = TRUE /\ gone' = gone \ {Step.r} /\ UNCHANGED held
    <3>1. Failing' /\ Facts' \subseteq Facts \ Spent({s.r})
      BY <2>1, <2>3, <1>2, <1>3, FactsFail DEF Failing
    <3> QED
      BY <2>1, <3>1, <1>5, <1>8, <1>10
  <2> QED
    BY <1>15, <2>2, <2>3 DEF DoAcquire
<1>16. CASE DoAllocate
  <2>1. s.do = "allocate" /\ ~Failing /\ GoOn /\ Gain /\ UNCHANGED trouble
    BY <1>16, <1>3 DEF DoAllocate, Works, At
  <2>2. ~Failing' /\ Facts' \subseteq Facts \ Without(s.r)
    BY <2>1, <1>2, <1>3, FactsGain DEF Failing, trouble
  <2> QED
    BY <2>1, <2>2, <1>5, <1>8, <1>10
<1>17. CASE DoCall \/ DoYieldProtected
  <2>1. s.do \in {"call", "yieldProtected"} /\ ~Failing /\ GoOn /\ UNCHANGED resources
    BY <1>17, <1>3 DEF DoCall, DoYieldProtected, Works, At
  <2>2. Facts' = Facts
    BY <2>1, <1>2, FactsKept
  <2> QED
    BY <2>1, <2>2, <1>5, <1>8, <1>10
<1>18. CASE DoWrap \/ DoRelease
  <2>1. /\ s.do \in Giving /\ (s.do = "wrap" => ~Failing) /\ GoOn /\ Lose /\ UNCHANGED trouble
        /\ s.do \notin {"raise", "acquire", "allocate", "check", "ignore"}
        /\ Failing => s.do \in {"release", "releaseOnError", "wrapAnyway"}
    BY <1>18, <1>3 DEF DoWrap, DoRelease, Works, At, Giving
  <2>2. (Failing' <=> Failing) /\ Facts' \subseteq Facts \union Without(s.r)
    BY <2>1, <1>2, <1>3, FactsLose DEF Failing, trouble
  <2>3. CASE Failing
    <3>1. b.bad \subseteq c.bad /\ Without(s.r) \subseteq c.bad
      BY <2>1, <2>3, <1>4, <1>8
    <3> QED
      BY <2>1, <2>2, <2>3, <3>1, <1>5, <1>10
  <2>4. CASE ~Failing
    <3>1. b.good \subseteq c.good /\ Without(s.r) \subseteq c.good
      BY <2>1, <1>8
    <3> QED
      BY <2>1, <2>2, <2>4, <3>1, <1>5, <1>10
  <2> QED
    BY <2>3, <2>4
<1>19. CASE DoReleaseOnError
  <2>1. s.do = "releaseOnError" /\ GoOn /\ UNCHANGED trouble
        /\ IF Failing THEN Lose ELSE UNCHANGED resources
    BY <1>19, <1>3 DEF DoReleaseOnError, At
  <2>2. Failing' <=> Failing
    BY <2>1 DEF Failing, trouble
  <2>3. CASE Failing
    <3>1. Facts' \subseteq Facts \union Without(s.r)
      BY <2>1, <2>3, <1>2, <1>3, FactsLose
    <3>2. b.bad \subseteq c.bad /\ Without(s.r) \subseteq c.bad
      BY <2>1, <2>3, <1>4, <1>8
    <3> QED
      BY <2>1, <2>2, <2>3, <3>1, <3>2, <1>5, <1>10
  <2>4. CASE ~Failing
    <3>1. Facts' = Facts /\ b.good \subseteq c.good
      BY <2>1, <2>4, <1>2, <1>8, FactsKept
    <3> QED
      BY <2>1, <2>2, <2>4, <3>1, <1>5, <1>10
  <2> QED
    BY <2>3, <2>4
<1>20. CASE DoCheck \/ DoMissing \/ DoJumpTag \/ Done
  <2>1. /\ s.do \in {"check", "missing", "jumpTag", "done"} /\ GoOn
        /\ UNCHANGED <<resources, trouble>>
        /\ s.do = "check" => ~error
    BY <1>20, <1>3 DEF DoCheck, DoMissing, DoJumpTag, Done, At, End
  <2>2. (Failing' <=> Failing) /\ Facts' = Facts
    BY <2>1, <1>2, FactsKept DEF Failing, trouble
  <2>3. b.good \subseteq c.good /\ (Failing => b.bad \subseteq c.bad)
    BY <2>1, <1>4, <1>8 DEF Failing
  <2> QED
    BY <2>1, <2>2, <2>3, <1>5, <1>10
<1>21. CASE DoIgnore
  <2>1. s.do = "ignore" /\ GoOn /\ ~error' /\ exc' = exc /\ UNCHANGED resources
    BY <1>21, <1>3 DEF DoIgnore, At
  <2>2. (Failing' <=> exc) /\ (exc => Failing) /\ Facts' = Facts
    BY <2>1, <1>0, <1>2, FactsKept DEF Failing
  <2>3. b.good \subseteq c.good /\ b.bad \subseteq c.good /\ (exc => b.bad \subseteq c.bad)
    BY <2>1, <1>4, <1>8
  <2> QED
    BY <2>1, <2>2, <2>3, <1>5, <1>10
<1>22. ~Unwind /\ ~Return
  BY <1>1
<1>23. CASE Enter \/ DoLoop \/ DoOptional
  <2>1. /\ s.do \in {"enter", "loop", "optional"} /\ ~Failing /\ UNCHANGED resources
        /\ \/ GoOn /\ UNCHANGED trouble
           \/ pc' = i + s.n + 2 /\ (s.do = "enter" \/ UNCHANGED trouble)
    BY <1>2, <1>23, <1>3 DEF Enter, DoLoop, DoOptional, Works, At, GoOn, trouble
  <2>2. Facts' = Facts /\ s.do \in Openings
    BY <2>1, <1>2, FactsKept DEF Openings
  <2>3. CASE GoOn /\ UNCHANGED trouble
    <3>1. ~Failing' /\ b.good \subseteq c.good
      BY <2>1, <2>3, <1>8 DEF Failing, trouble
    <3> QED
      BY <2>1, <2>2, <2>3, <3>1, <1>5, <1>10
  <2>4. CASE pc' = i + s.n + 2 /\ (s.do = "enter" \/ UNCHANGED trouble)
    <3>1. s.do = "enter" \/ (Failing <=> Failing')
      BY <2>4 DEF Failing, trouble
    <3>2. pc' = end + 1
      BY <2>2, <2>4, <1>6
    <3> QED
      BY <2>1, <2>2, <3>1, <3>2, <1>11
  <2> QED
    BY <2>1, <2>3, <2>4
<1>24. CASE Leave \/ Again
  <2>1. /\ s.do \in {"leave", "again"} /\ UNCHANGED resources
        /\ Failing => pc' = i + 1 /\ Failing'
        /\ ~Failing => pc' = i - s.n - 1 /\ ~Failing'
        /\ UNCHANGED <<method, how>>
    BY <1>24, <1>3, <1>2, <1>0 DEF Leave, Again, At, Failing, resources, trouble
  <2>2. Facts' = Facts /\ Expected(method)' = B
    BY <2>1, <1>2, FactsKept DEF B
  <2>3. CASE Failing
    <3>1. GoOn /\ Failing' /\ b.bad \subseteq c.bad
      BY <2>1, <2>3, <1>8 DEF GoOn
    <3> QED
      BY <2>2, <2>3, <3>1, <1>5, <1>10
  <2>4. CASE ~Failing
    BY <2>1, <2>2, <2>4, <1>5, <1>9 DEF Meets
  <2> QED
    BY <2>3, <2>4
<1> QED
  BY <1>12, <1>13, <1>14, <1>15, <1>16, <1>17, <1>18, <1>19, <1>20, <1>21, <1>22, <1>23, <1>24
     DEF Next

\* So the invariant is kept, and a call that begins lacks everything.
LEMMA NextSInv == Disciplined /\ Provident /\ IInv /\ SInv /\ [Next]_vars => SInv'
<1> SUFFICES ASSUME Disciplined, Provident, IInv, SInv, [Next]_vars,
                    how' = "pending", method' \notin KnownWild
             PROVE  Meets(Expected(method)[pc])'
  BY DEF SInv
<1>1. CASE UNCHANGED vars
  BY <1>1 DEF vars, SInv, Meets, Facts, Failing
<1>2. CASE Next
  <2>1. method' = method
    BY <1>2 DEF Next, Skip, DoConvert, DoRaise, DoAcquire, DoAllocate, DoCall, DoUse, DoWrap,
       DoRelease, DoReleaseOnError, DoCheck, DoIgnore, DoMissing, DoYield, DoYieldProtected,
       Unwind, Return, DoJumpTag, Enter, Leave, DoLoop, Again, DoOptional, Done, GoOn, End
  <2>2. IInv'
    BY StepIInv
  <2> QED
    BY <1>2, <2>1, <2>2, StepSInv
<1> QED
  BY <1>1, <1>2

\* A call begins with what the discipline says of the first step.
LEMMA InitSInv == Disciplined /\ Provident /\ Init => SInv
<1> SUFFICES ASSUME Disciplined, Provident, Init, method \notin KnownWild
             PROVE  Meets(Expected(method)[pc])
  BY DEF SInv
<1>1. Lacking(Resources(method)) \subseteq Expected(method)[1].good
  BY DEF Init, Provident, WellSupplied, Expected
<1>2. ~Failing /\ Facts = Lacking(Resources(method))
  BY DEF Init, Failing, Facts, Lacking, Spent
<1> QED
  BY <1>1, <1>2 DEF Init, Meets

\* What a step needs the method has.
LEMMA SuppliedCalls == Disciplined /\ Provident /\ IInv /\ SInv => NoWildUse
<1> SUFFICES ASSUME Disciplined, Provident, IInv, SInv, method \notin KnownWild,
                    how = "pending", pc <= Len(Script[method])
             PROVE  /\ Works("use") \/ Works("wrap") \/ At("wrapAnyway") => Step.r \in held
                    /\ At("release") \/ (At("releaseOnError") /\ Failing) => Step.r \notin gone
  BY DEF NoWildUse, Works, At
<1> DEFINE b == Expected(method)[pc]
<1>1. method \in Methods /\ pc \in 1 .. Len(Script[method])
  BY ScriptAssumption DEF IInv
<1>2. Supplied(method, Expected(method), pc) /\ Step.r \in Resources(method) /\ Meets(b)
  BY <1>1 DEF Provident, WellSupplied, Expected, Resources, Step, SInv
<1>3. /\ Step.do \in {"use", "wrap", "wrapAnyway"} => <<"lacks", Step.r>> \notin b.good
      /\ Step.do = "wrapAnyway" => <<"lacks", Step.r>> \notin b.bad
      /\ Step.do = "release" => <<"spent", Step.r>> \notin b.good \union b.bad
      /\ Step.do = "releaseOnError" => <<"spent", Step.r>> \notin b.bad
  BY <1>2 DEF Supplied, Step
<1> HIDE DEF b
<1>4. ASSUME Step.r \notin held PROVE <<"lacks", Step.r>> \in Facts
  BY <1>2, <1>4 DEF Facts, Lacking
<1>5. ASSUME Step.r \in gone PROVE <<"spent", Step.r>> \in Facts
  BY <1>5 DEF Facts, Spent
<1> QED
  BY <1>2, <1>3, <1>4, <1>5 DEF Meets, Works, At

\* No method uses what it does not have and none frees anything twice, but the
\* methods known for it.
THEOREM CallsNoWildUse == Disciplined /\ Provident => (Spec => []NoWildUse)
<1> SUFFICES ASSUME Disciplined, Provident PROVE Spec => []NoWildUse
  OBVIOUS
<1>1. Init => IInv /\ SInv
  BY InitIInv, InitSInv
<1>2. IInv /\ SInv /\ [Next]_vars => IInv' /\ SInv'
  BY StepIInv, NextSInv
<1>3. IInv /\ SInv => NoWildUse
  BY SuppliedCalls
<1> QED
  BY <1>1, <1>2, <1>3, PTL DEF Spec

=============================================================================
