------------------------------- MODULE Calls --------------------------------
(***************************************************************************)
(* One call of one native method, run step by step.  Ruby raises by        *)
(* jumping: whatever the method holds at that moment is lost, and frames   *)
(* of libgit2 that are jumped over never end.  A method that works with    *)
(* libgit2 must therefore have its hands empty whenever something may      *)
(* raise, or catch it.                                                     *)
(*                                                                         *)
(* Script gives the steps of each method.  KnownLeaks, KnownLosses,        *)
(* KnownJumps, KnownSilent and KnownWild name the methods that do not keep *)
(* to this.                                                                *)
(***************************************************************************)
EXTENDS Steps, SequencesExt

CONSTANTS
    Methods,
    Script,         \* the steps of a method
    KnownLosses,    \* what a method may never free
    KnownLeaks,     \* what it may lose besides when it raises
    KnownJumps,     \* methods that may jump over frames of libgit2
    KnownSilent,    \* methods that may lose the exception of a block
    KnownWild,      \* methods that may use what they do not have
    Turns           \* bound: how many turns the loops of a call take

ASSUME TurnsAssumption == Turns \in Nat

ASSUME ScriptAssumption ==
    \A m \in Methods : Script[m] \in Seq([do : STRING, r : STRING, n : Nat])

VARIABLES
    method,     \* the method that is called
    pc,         \* its next step
    held,       \* the resources that it has to free or to hand over
    gone,       \* those that it has freed or handed over
    error,      \* whether a call of libgit2 has failed
    exc,        \* whether a block has raised
    inside,     \* whether libgit2 is calling back
    calls,      \* how many times a block has run
    turns,      \* how many turns the loops have taken
    how         \* "pending", "unwinding", or how the call has ended

vars == <<method, pc, held, gone, error, exc, inside, calls, turns, how>>

Resources(m) == {Script[m][i].r : i \in 1 .. Len(Script[m])}

TypeOK ==
    /\ method \in Methods
    /\ pc \in 1 .. Len(Script[method]) + 1
    /\ held \subseteq Resources(method)
    /\ gone \subseteq Resources(method)
    /\ error \in BOOLEAN /\ exc \in BOOLEAN /\ inside \in BOOLEAN
    /\ calls \in Nat /\ turns \in 0 .. Turns
    /\ how \in {"pending", "unwinding", "returned", "raised", "failed", "refused"}

Init ==
    /\ method \in Methods
    /\ pc = 1
    /\ held = {} /\ gone = {}
    /\ error = FALSE /\ exc = FALSE /\ inside = FALSE
    /\ calls = 0 /\ turns = 0
    /\ how = "pending"

Step == Script[method][pc]

At(what) == how = "pending" /\ pc <= Len(Script[method]) /\ Step.do = what

Failing == error \/ exc

\* A step that a failed method does not take.
Works(what) == At(what) /\ ~Failing

GoOn == pc' = pc + 1 /\ UNCHANGED <<method, how>>

End(e) == how' = e /\ UNCHANGED <<method, pc>>

resources == <<held, gone>>
trouble == <<error, exc>>
rounds == <<inside, calls, turns>>

\* goto cleanup
Skip ==
    /\ how = "pending" /\ pc <= Len(Script[method])
    /\ Failing
    /\ Step.do \notin Cleanup
    /\ pc' = IF Step.do \in Openings THEN pc + Step.n + 2 ELSE pc + 1
    /\ UNCHANGED <<method, how>>
    /\ UNCHANGED <<resources, trouble, rounds>>

DoConvert ==
    /\ Works("convert")
    /\ GoOn \/ End("refused")
    /\ UNCHANGED <<resources, trouble, rounds>>

DoRaise ==
    /\ Works("raise")
    /\ End("refused")
    /\ UNCHANGED <<resources, trouble, rounds>>

Gain == held' = held \union {Step.r} /\ gone' = gone \ {Step.r}
Lose == held' = held \ {Step.r} /\ gone' = gone \union (held \intersect {Step.r})

DoAcquire ==
    /\ Works("acquire")
    /\ GoOn
    /\ \/ Gain /\ UNCHANGED error
       \/ error' = TRUE /\ gone' = gone \ {Step.r} /\ UNCHANGED held
    /\ UNCHANGED <<exc, rounds>>

DoAllocate ==
    /\ Works("allocate")
    /\ GoOn
    /\ Gain
    /\ UNCHANGED <<trouble, rounds>>

DoCall ==
    /\ Works("call")
    /\ GoOn
    /\ error' \in BOOLEAN
    /\ UNCHANGED <<resources, exc, rounds>>

DoUse ==
    /\ Works("use")
    /\ GoOn
    /\ UNCHANGED <<resources, trouble, rounds>>

DoWrap ==
    /\ Works("wrap") \/ At("wrapAnyway")
    /\ GoOn
    /\ Lose
    /\ UNCHANGED <<trouble, rounds>>

DoRelease ==
    /\ At("release")
    /\ GoOn
    /\ Lose
    /\ UNCHANGED <<trouble, rounds>>

DoReleaseOnError ==
    /\ At("releaseOnError")
    /\ GoOn
    /\ IF Failing THEN Lose ELSE UNCHANGED resources
    /\ UNCHANGED <<trouble, rounds>>

DoCheck ==
    /\ At("check")
    /\ IF error THEN End("failed") ELSE GoOn
    /\ UNCHANGED <<resources, trouble, rounds>>

DoIgnore ==
    /\ At("ignore")
    /\ GoOn
    /\ error' = FALSE
    /\ UNCHANGED <<resources, exc, rounds>>

DoMissing ==
    /\ At("missing")
    /\ \/ GoOn
       \/ error /\ End("returned")
    /\ UNCHANGED <<resources, trouble, rounds>>

\* The block returns or raises.
DoYield ==
    /\ Works("yield")
    /\ calls' = calls + 1
    /\ \/ GoOn /\ UNCHANGED exc
       \/ End("unwinding") /\ exc' = TRUE
    /\ UNCHANGED <<resources, error, inside, turns>>

DoYieldProtected ==
    /\ Works("yieldProtected")
    /\ GoOn
    /\ calls' = calls + 1
    /\ exc' \in BOOLEAN
    /\ UNCHANGED <<resources, error, inside, turns>>

Unwind ==
    /\ how = "unwinding"
    /\ End("raised")
    /\ UNCHANGED <<resources, trouble, rounds>>

DoJumpTag ==
    /\ At("jumpTag")
    /\ IF exc THEN End("raised") ELSE GoOn
    /\ UNCHANGED <<resources, trouble, rounds>>

\* libgit2 calls back, or it has finished or failed.
Enter ==
    /\ Works("enter")
    /\ \/ /\ turns < Turns
          /\ turns' = turns + 1
          /\ inside' = TRUE
          /\ GoOn
          /\ UNCHANGED error
       \/ /\ pc' = pc + Step.n + 2
          /\ error' \in BOOLEAN
          /\ UNCHANGED <<turns, inside, method, how>>
    /\ UNCHANGED <<resources, exc, calls>>

\* The callback returns to libgit2.  When it has failed, libgit2 gives up.
Leave ==
    /\ At("leave")
    /\ inside' = FALSE
    /\ IF Failing THEN pc' = pc + 1 /\ error' = TRUE
                  ELSE pc' = pc - Step.n - 1 /\ UNCHANGED error
    /\ UNCHANGED <<method, how, resources, exc, calls, turns>>

DoLoop ==
    /\ Works("loop")
    /\ \/ turns < Turns /\ turns' = turns + 1 /\ GoOn
       \/ pc' = pc + Step.n + 2 /\ UNCHANGED <<turns, method, how>>
    /\ UNCHANGED <<resources, trouble, inside, calls>>

Again ==
    /\ At("again")
    /\ pc' = IF Failing THEN pc + 1 ELSE pc - Step.n - 1
    /\ UNCHANGED <<method, how, resources, trouble, rounds>>

DoOptional ==
    /\ Works("optional")
    /\ pc' \in {pc + 1, pc + Step.n + 2}
    /\ UNCHANGED <<method, how, resources, trouble, rounds>>

Done ==
    /\ At("done")
    /\ GoOn
    /\ UNCHANGED <<resources, trouble, rounds>>

Return ==
    /\ how = "pending"
    /\ pc = Len(Script[method]) + 1
    /\ End("returned")
    /\ UNCHANGED <<resources, trouble, rounds>>

Next ==
    \/ Skip \/ DoConvert \/ DoRaise \/ DoAcquire \/ DoAllocate \/ DoCall \/ DoUse
    \/ DoWrap \/ DoRelease \/ DoReleaseOnError \/ DoCheck \/ DoIgnore \/ DoMissing
    \/ DoYield \/ DoYieldProtected \/ Unwind \/ DoJumpTag
    \/ Enter \/ Leave \/ DoLoop \/ Again \/ DoOptional \/ Done \/ Return

Spec == Init /\ [][Next]_vars

-----------------------------------------------------------------------------
(* What every method owes its caller.                                       *)

\* Whatever a method has acquired it has freed or handed over by the time that
\* it ends or is left by an exception, and it never acquires twice what it
\* still holds.
NothingLost ==
    LET kept == held \ KnownLosses[method]
    IN  /\ how = "returned" => kept = {}
        /\ how # "pending" => kept \subseteq KnownLeaks[method]
        /\ Works("acquire") \/ Works("allocate") => Step.r \notin kept

\* What a method reads or hands over it holds at that moment, and it frees
\* nothing twice.
NoWildUse ==
    method \notin KnownWild =>
        /\ Works("use") \/ Works("wrap") \/ At("wrapAnyway") => Step.r \in held
        /\ At("release") \/ (At("releaseOnError") /\ Failing) => Step.r \notin gone

\* No exception passes over the frames of a call of libgit2 that calls back.
NoJump == how # "pending" /\ inside => method \in KnownJumps

\* The block runs no more once it has raised, and the method then raises that
\* exception and nothing else.
R == INSTANCE Relay WITH
    calls <- calls,
    failing <- exc,
    outcome <- IF how = "unwinding" THEN "pending"
               ELSE IF how = "refused" THEN "failed" ELSE how

RelaySpec ==
    R!Init /\ [][(method \in KnownSilent) \/ R!Next]_<<calls, exc, how>>

-----------------------------------------------------------------------------
(* A discipline that can be read off a script, whatever the loops do.  For  *)
(* each step it computes what the method may hold when all has gone well    *)
(* (may) and when something has failed (bad), whether that is possible at   *)
(* all (fails, raises), and whether libgit2 is calling back (within).       *)

Start == [may |-> {}, bad |-> {}, fails |-> FALSE, raises |-> FALSE, within |-> FALSE]

When(s, kinds, S) == IF s.do \in kinds THEN S ELSE {}

\* The state after step s, from the one before it and, for the end of a block,
\* the one at its opening.
After(s, a, opening) == [
    may |->
        (a.may \union When(s, {"acquire", "allocate"}, {s.r})
               \union When(s, {"ignore"}, a.bad)
               \union When(s, Closings, opening.may))
            \ When(s, {"release", "wrap", "wrapAnyway"}, {s.r}),
    bad |->
        (a.bad \union When(s, {"acquire", "call", "yieldProtected"}, a.may)
               \union When(s, {"leave"}, opening.may)
               \union When(s, Closings, opening.bad))
            \ When(s, {"release", "releaseOnError", "wrapAnyway"}, {s.r}),
    fails |->
        \/ s.do \in {"acquire", "call", "yieldProtected", "leave"}
        \/ s.do \notin {"check", "ignore"} /\ a.fails
        \/ s.do \in {"check", "ignore"} /\ a.raises
        \/ s.do \in Closings /\ opening.fails,
    raises |->
        \/ s.do = "yieldProtected"
        \/ s.do # "jumpTag" /\ a.raises
        \/ s.do \in Closings /\ opening.raises,
    within |->
        \/ s.do = "enter"
        \/ s.do # "leave" /\ a.within
        \/ s.do \in Closings /\ opening.within]

\* The opening of the block that step i ends, or else i.
Opening(script, i) == IF script[i].do \in Closings THEN i - script[i].n - 1 ELSE i

\* The states at the steps of m and at its end.
Shape(m) ==
    LET Then(A, s) == Append(A, After(s, A[Len(A)], A[Opening(Script[m], Len(A))]))
    IN  FoldLeft(Then, <<Start>>, Script[m])

\* An exception, or an end, that loses no more than known.
Clear(m, a, kept, known) == kept \ KnownLosses[m] \subseteq known /\ (a.within => m \in KnownJumps)

\* Step i of m may be taken in the state that A gives it.
Safe(m, A, i) ==
    LET s == Script[m][i]
        a == A[i]
        opening == i - s.n - 1
        end == i + s.n + 1
    IN  /\ s.do \in {"convert", "raise", "yield"} => Clear(m, a, a.may, KnownLeaks[m])
        /\ s.do \in {"acquire", "allocate"} => s.r \notin a.may \ KnownLosses[m]
        /\ s.do = "check" /\ a.fails =>
               Clear(m, a, a.bad, KnownLeaks[m]) /\ (a.raises => m \in KnownSilent)
        /\ s.do = "missing" /\ a.fails => Clear(m, a, a.bad, {}) /\ (a.raises => m \in KnownSilent)
        /\ s.do = "jumpTag" /\ a.raises => Clear(m, a, a.bad, KnownLeaks[m])
        /\ s.do \in Openings =>
               /\ end \in 1 .. Len(Script[m])
               /\ Script[m][end].do = Closing[s.do] /\ Script[m][end].n = s.n
        /\ s.do \in Closings =>
               /\ opening \in 1 .. Len(Script[m])
               /\ Script[m][opening].do \in Openings
               /\ Closing[Script[m][opening].do] = s.do /\ Script[m][opening].n = s.n
        /\ s.do \in {"leave", "again"} => a.may \ KnownLosses[m] \subseteq A[opening].may
        /\ s.do = "again" => (a.within => A[opening].within)

\* A gives the states of a script every step of which may be taken.
WellShaped(m, A) ==
    LET end == Len(Script[m]) + 1
    IN  /\ A[1] = Start
        /\ \A i \in 1 .. Len(Script[m]) :
               /\ Safe(m, A, i)
               /\ A[i + 1] = After(Script[m][i], A[i], A[Opening(Script[m], i)])
        /\ Clear(m, A[end], A[end].may, {})
        /\ A[end].fails => Clear(m, A[end], A[end].bad, {})
        /\ A[end].raises => m \in KnownSilent

-----------------------------------------------------------------------------
(* The same for what a method does not have.  For each step the discipline  *)
(* computes what the method may lack, and what it may have spent: freed or  *)
(* handed over; when all has gone well (good), and when something has       *)
(* failed (bad).                                                            *)

Lacking(some) == {"lacks"} \X some
Spent(some) == {"spent"} \X some
Without(r) == Lacking({r}) \union Spent({r})

Giving == {"release", "wrap", "wrapAnyway"}

\* The state after step s; a is what the first reading has computed for it.
Afterwards(s, a, b, opening) == [
    good |->
        (((IF s.do = "raise" THEN {} ELSE b.good)
              \union When(s, {"ignore"}, b.bad)
              \union When(s, Closings, opening.good))
             \ When(s, {"acquire", "allocate"}, Without(s.r)))
            \union When(s, Giving, Without(s.r)),
    bad |->
        (IF s.do \in {"check", "ignore"} /\ ~a.raises THEN {} ELSE b.bad)
            \union When(s, {"acquire", "call", "yieldProtected"},
                        b.good \ When(s, {"acquire"}, Spent({s.r})))
            \union When(s, {"leave"}, opening.good)
            \union When(s, Closings, opening.bad)
            \union When(s, IF a.fails THEN {"release", "releaseOnError", "wrapAnyway"} ELSE {},
                        Without(s.r))]

\* What the turns of a loop at step i spend: it may be spent when a turn begins.
SpentByTurns(script, i) ==
    {script[k].r : k \in {j \in i .. i + script[i].n :
                             script[j].do \in Giving /\ script[j + 1].do # "raise"}}

\* The states at the steps of m and at its end.
Supply(m, A) ==
    LET Known(b, i) ==
            IF i <= Len(Script[m]) /\ Script[m][i].do \in {"enter", "loop"}
            THEN [b EXCEPT !.good = @ \union Spent(SpentByTurns(Script[m], i))] ELSE b
        Then(B, s) ==
            LET i == Len(B)
            IN  Append(B, Known(Afterwards(s, A[i], B[i], B[Opening(Script[m], i)]), i + 1))
    IN  FoldLeft(Then, <<Known([good |-> Lacking(Resources(m)), bad |-> {}], 1)>>, Script[m])

\* Step i of m may be taken in the state that B gives it.
Supplied(m, B, i) ==
    LET s == Script[m][i]
        b == B[i]
    IN  /\ s.do \in {"use", "wrap", "wrapAnyway"} => <<"lacks", s.r>> \notin b.good
        /\ s.do = "wrapAnyway" => <<"lacks", s.r>> \notin b.bad
        /\ s.do = "release" => <<"spent", s.r>> \notin b.good \union b.bad
        /\ s.do = "releaseOnError" => <<"spent", s.r>> \notin b.bad
        /\ s.do \in {"leave", "again"} => b.good \subseteq B[Opening(Script[m], i)].good

\* B gives the states of a script every step of which may be taken.
WellSupplied(m, A, B) ==
    /\ Lacking(Resources(m)) \subseteq B[1].good
    /\ \A i \in 1 .. Len(Script[m]) :
           /\ Supplied(m, B, i)
           /\ LET b == Afterwards(Script[m][i], A[i], B[i], B[Opening(Script[m], i)])
              IN  b.good \subseteq B[i + 1].good /\ b.bad \subseteq B[i + 1].bad

\* Every method keeps to the discipline.
Disciplined == \A m \in Methods : WellShaped(m, Shape(m))

\* Nor does any use what it does not have, but the methods known for it.
Provident == \A m \in Methods \ KnownWild : WellSupplied(m, Shape(m), Supply(m, Shape(m)))

\* The method that is called keeps to the discipline: of every way through it,
\* with any number of turns, it can be told from its steps that it loses
\* nothing, uses nothing that it does not have, jumps over nothing and raises
\* what its block has raised.
KeepsDiscipline ==
    LET A == Shape(method)
    IN  /\ WellShaped(method, A)
        /\ method \notin KnownWild => WellSupplied(method, A, Supply(method, A))

=============================================================================
