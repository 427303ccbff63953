----------------------------- MODULE LoopProofs -----------------------------
(***************************************************************************)
(* Proofs about what Rugged computes with loops of its own: the walk of a  *)
(* walker, and what is computed from the contents of blobs and trees.      *)
(*                                                                         *)
(* A walk yields the window of commits that :offset and :limit ask for,    *)
(* for every history and every width of the counters.  The invariant says  *)
(* what the two counters stand for while the loop runs: how much of the    *)
(* offset has been skipped and of the limit been yielded.  Each step of a  *)
(* walk descends in an order of triples of numbers, which has no infinite  *)
(* descent, so that no walk goes on for ever.                              *)
(*                                                                         *)
(* Blob#text, loc and sloc and Tree#count_recursive answer what they       *)
(* should for every content.  A loop is a recursive function of the        *)
(* position; for each of them a lemma gives what it computes as a set, or  *)
(* the size of one, by induction over the position.  The blob that is made *)
(* from an IO is what the IO gives, by the invariant that nothing is lost  *)
(* between a read and a write.                                             *)
(***************************************************************************)
EXTENDS Walk, Objects, FiniteSetTheorems, SequenceTheorems, WellFoundedInduction, TLAPS

-----------------------------------------------------------------------------
(* Walk.                                                                    *)

Running == pc \in {"next", "block"}

\* Commits yielded that have been counted: the one in the block has not.
Counted == IF pc = "block" THEN Len(yielded) - 1 ELSE Len(yielded)

Position ==
    Running /\ ~disturbed =>
        /\ list = asked.list
        /\ offset <= asked.offset
        /\ yielded # <<>> => offset = 0
        /\ pos = start + (asked.offset - offset) + Len(yielded)

Countdown ==
    Running =>
        /\ asked.limit > 0 => limit > 0 /\ limit = asked.limit - Counted
        /\ asked.limit = 0 /\ Counted = 0 => limit = 0
        /\ asked.limit = 0 /\ Counted > 0 /\ ~disturbed => limit = UINT64_MAX + 1 - Counted

Phases ==
    /\ pc = "block" => yielded # <<>>
    /\ pc = "options" => yielded = <<>> /\ (method = "walk" => pos = 0)
    /\ pc \in {"options", "next", "block"} => outcome = "pending" /\ ~raised

\* An exception of the block ends the walk and is what the method raises.
ReRaised == raised => outcome = "raised"

IInv == TypeOK /\ Phases /\ Position /\ Countdown /\ Window /\ LimitHolds /\ ReRaised

\* What the assumptions give about a history.
LEMMA HistoryFacts ==
    ASSUME NEW h \in Histories
    PROVE  h \in Seq(Commits) /\ Len(h) \in Nat /\ Len(h) < UINT64_MAX
BY HistoriesAssumption

\* No commits are a sequence of commits.
LEMMA NothingYielded == <<>> \in Seq(Commits) /\ Len(<<>>) = 0
BY EmptySeq

\* What the assumptions give about the counters.
LEMMA CounterFacts ==
    /\ UINT64_MAX \in Nat \ {0}
    /\ UInt64 = 0 .. UINT64_MAX
    /\ 0 \in UInt64 /\ UINT64_MAX \in UInt64
    /\ Options \subseteq UInt64
BY LimitsAssumption DEF UInt64

\* The state the program starts in satisfies the invariant.
LEMMA InitInv == Init => IInv
<1> SUFFICES ASSUME Init PROVE IInv
    OBVIOUS
<1>1. TypeOK
    <2>1. list \in Histories /\ Len(list) \in Nat
        BY HistoryFacts DEF Init
    <2>2. asked \in [offset: UInt64, limit: UInt64, list: Histories]
        BY CounterFacts, HistoriesAssumption DEF Init
    <2>3. pos \in 0 .. Len(list) /\ start \in Nat /\ offset \in UInt64 /\ limit \in UInt64
        BY <2>1, CounterFacts DEF Init
    <2>4. yielded \in Seq(Commits)
        BY NothingYielded DEF Init
    <2>5. /\ allocated \in BOOLEAN /\ disturbed \in BOOLEAN /\ raised \in BOOLEAN
          /\ pc \in {"idle", "options", "next", "block", "free"}
          /\ method \in {"walk", "each"}
          /\ outcome \in {"pending", "returned", "raised", "failed"}
        BY DEF Init
    <2> QED
        BY <2>1, <2>2, <2>3, <2>4, <2>5 DEF TypeOK
<1>2. Phases /\ Position /\ Countdown /\ ReRaised
    BY DEF Init, Phases, Position, Countdown, ReRaised, Running
<1>3. Window /\ LimitHolds
    BY <1>1 DEF Init, TypeOK, Window, LimitHolds
<1> QED
    BY <1>1, <1>2, <1>3 DEF IInv

\* Every step keeps the types.
LEMMA TypeStep == IInv /\ [Next]_vars => TypeOK'
<1> SUFFICES ASSUME IInv, [Next]_vars PROVE TypeOK'
    OBVIOUS
<1>0. TypeOK /\ Len(list) \in Nat
    BY HistoryFacts DEF IInv, TypeOK
<1>1. ASSUME NEW h \in Histories, SetUp(h) \/ Disturb(h) PROVE TypeOK'
    <2>1. list' \in Histories /\ pos' \in 0 .. Len(list')
        BY <1>1, HistoryFacts DEF SetUp, Disturb
    <2> QED
        BY <2>1, <1>0, <1>1 DEF SetUp, Disturb, TypeOK, window
<1>2. ASSUME NEW m \in {"walk", "each"}, Call(m) PROVE TypeOK'
    <2>1. list' \in Histories /\ pos' \in 0 .. Len(list')
        BY <1>0, <1>2, HistoryFacts, HistoriesAssumption DEF Call, TypeOK
    <2> QED
        BY <2>1, <1>0, <1>2, CounterFacts, NothingYielded DEF Call, TypeOK, window
<1>3. ASSUME NEW o \in Options, NEW l \in Options, NEW h \in Histories, LoadOptions(o, l, h)
      PROVE TypeOK'
    <2>1. o \in UInt64 /\ l \in UInt64
        BY CounterFacts
    <2>2. list' \in Histories /\ pos' \in 0 .. Len(list')
        BY <1>0, <1>3, HistoryFacts DEF LoadOptions, TypeOK, IInv, Phases
    <2>3. asked' \in [offset: UInt64, limit: UInt64, list: Histories]
        BY <2>1, <2>2, <1>3 DEF LoadOptions
    <2>4. start' \in Nat /\ offset' \in UInt64 /\ limit' \in UInt64
        BY <1>0, <1>3, <2>1 DEF LoadOptions, TypeOK
    <2> QED
        BY <2>2, <2>3, <2>4, <1>0, <1>3 DEF LoadOptions, TypeOK
<1>4. ASSUME RefuseOptions \/ BlockRaises \/ WalkFails PROVE TypeOK'
    BY <1>0, <1>4 DEF RefuseOptions, BlockRaises, WalkFails, Leave, TypeOK, walker, window
<1>5. ASSUME Skip PROVE TypeOK'
    <2>1. offset' \in UInt64
        BY <1>0, <1>5, CounterFacts DEF Skip, TypeOK
    <2> QED
        BY <2>1, <1>0, <1>5 DEF Skip, More, TypeOK, window
<1>6. ASSUME Yield PROVE TypeOK'
    <2>1. list[pos + 1] \in Commits
        BY <1>0, <1>6, HistoryFacts DEF Yield, More, TypeOK
    <2> QED
        BY <2>1, <1>0, <1>6 DEF Yield, More, TypeOK, window
<1>7. ASSUME BlockReturns PROVE TypeOK'
    <2>1. limit' \in UInt64
        BY <1>0, <1>7, CounterFacts DEF BlockReturns, TypeOK
    <2> QED
        BY <2>1, <1>0, <1>7 DEF BlockReturns, Leave, TypeOK, walker, window
<1>8. ASSUME WalkEnds PROVE TypeOK'
    BY <1>0, <1>8, HistoriesAssumption DEF WalkEnds, Leave, TypeOK, window
<1>9. ASSUME Free PROVE TypeOK'
    BY <1>0, <1>9 DEF Free, TypeOK, window
<1>10. ASSUME UNCHANGED vars PROVE TypeOK'
    BY <1>0, <1>10 DEF vars, TypeOK
<1> QED
    BY <1>1, <1>2, <1>3, <1>4, <1>5, <1>6, <1>7, <1>8, <1>9, <1>10 DEF Next

\* The numbers the arithmetic below is about.
LEMMA NumberFacts ==
    ASSUME TypeOK
    PROVE  /\ Len(list) \in Nat /\ Len(yielded) \in Nat /\ Len(asked.list) \in Nat
           /\ Len(list) < UINT64_MAX /\ Len(asked.list) < UINT64_MAX
           /\ asked.offset \in Nat /\ asked.limit \in Nat
           /\ offset \in Nat /\ limit \in Nat /\ pos \in Nat /\ start \in Nat
           /\ pos <= Len(list)
           /\ UINT64_MAX \in Nat \ {0}
           /\ yielded = <<>> <=> Len(yielded) = 0
<1>1. /\ asked.offset \in UInt64 /\ asked.limit \in UInt64 /\ asked.list \in Histories
      /\ offset \in UInt64 /\ limit \in UInt64 /\ list \in Histories /\ yielded \in Seq(Commits)
      /\ start \in Nat /\ pos \in 0 .. Len(list)
    BY DEF TypeOK
<1>2. yielded = <<>> <=> Len(yielded) = 0
    BY <1>1, EmptySeq
<1> QED
    BY <1>1, <1>2, HistoryFacts, CounterFacts, LenProperties

\* The steps outside of the loop.
LEMMA OutsideStep ==
    ASSUME IInv, TypeOK',
           \/ \E h \in Histories : SetUp(h)
           \/ \E m \in {"walk", "each"} : Call(m)
           \/ \E o, l \in Options, h \in Histories : LoadOptions(o, l, h)
           \/ RefuseOptions
           \/ Free
           \/ UNCHANGED vars
    PROVE  IInv'
<1> USE DEF Phases, Position, Countdown, ReRaised, Running, Counted, LimitHolds
<1>0. TypeOK /\ TypeOK'
    BY DEF IInv
<1>1. ASSUME NEW h \in Histories, SetUp(h) PROVE IInv'
    BY <1>0, <1>1 DEF SetUp, IInv, Window, window
<1>2. ASSUME NEW m \in {"walk", "each"}, Call(m) PROVE IInv'
    BY <1>0, <1>2, NumberFacts, NothingYielded DEF Call, IInv, Window, window
<1>3. ASSUME NEW o \in Options, NEW l \in Options, NEW h \in Histories, LoadOptions(o, l, h)
      PROVE IInv'
    <2>1. /\ yielded' = <<>> /\ Len(yielded') = 0 /\ outcome' = "pending" /\ ~raised'
          /\ pc' = "next" /\ list' = asked'.list /\ offset' = asked'.offset
          /\ limit' = asked'.limit /\ pos' = start'
        BY <1>0, <1>3, NothingYielded DEF LoadOptions, IInv
    <2>2. limit' \in Nat /\ offset' \in Nat /\ pos' \in Nat
        BY <1>0, CounterFacts DEF TypeOK
    <2> QED
        BY <1>0, <2>1, <2>2 DEF IInv, Window
<1>4. ASSUME RefuseOptions PROVE IInv'
    BY <1>0, <1>4, NumberFacts, NothingYielded
    DEF RefuseOptions, Leave, IInv, Window, walker, window
<1>5. ASSUME Free PROVE IInv'
    BY <1>0, <1>5 DEF Free, IInv, Window, window
<1>6. ASSUME UNCHANGED vars PROVE IInv'
    BY <1>0, <1>6 DEF vars, IInv, Window
<1> QED
    BY <1>1, <1>2, <1>3, <1>4, <1>5, <1>6

\* The loop goes round: a commit is skipped.
LEMMA SkipStep == ASSUME IInv, TypeOK', Skip PROVE IInv'
<1>0. TypeOK /\ pc = "next" /\ offset > 0
    BY DEF IInv, Skip
<1>1. Phases' /\ LimitHolds' /\ ReRaised' /\ Window'
    BY DEF Skip, IInv, Phases, LimitHolds, ReRaised, Window, window
<1>2. Countdown'
    BY <1>0 DEF Skip, IInv, Countdown, Counted, Running, window
<1>3. Position'
    <2> SUFFICES ASSUME ~disturbed' PROVE Position'
        BY DEF Position
    <2>1. /\ UNCHANGED <<list, asked, start, yielded, disturbed, pc>>
          /\ pos' = pos + 1 /\ offset' = offset - 1
        BY DEF Skip, window
    <2>2. /\ list = asked.list /\ offset <= asked.offset /\ yielded = <<>>
          /\ pos = start + (asked.offset - offset) + Len(yielded)
        BY <1>0, <2>1 DEF IInv, Position, Running
    <2>3. pos + 1 = start + (asked.offset - (offset - 1)) + Len(yielded)
          /\ offset - 1 <= asked.offset
        BY <1>0, <2>2, NumberFacts
    <2> QED
        BY <2>1, <2>2, <2>3 DEF Position
<1> QED
    BY <1>1, <1>2, <1>3 DEF IInv

\* The loop goes round: the block is given the next commit of the window.
LEMMA YieldStep == ASSUME IInv, TypeOK', Yield PROVE IInv'
<1>0. TypeOK /\ pc = "next" /\ offset = 0 /\ pos < Len(list) /\ outcome = "pending" /\ ~raised
    BY DEF IInv, Yield, More, Phases
<1>1. list[pos + 1] \in Commits
    BY <1>0, NumberFacts, HistoryFacts, ElementOfSeq, SMTT(30) DEF TypeOK
<1>2. /\ Len(yielded') = Len(yielded) + 1 /\ yielded' # <<>>
      /\ yielded'[Len(yielded) + 1] = list[pos + 1]
      /\ \A i \in 1 .. Len(yielded) : yielded'[i] = yielded[i]
    <2>1. yielded' = Append(yielded, list[pos + 1]) /\ yielded \in Seq(Commits)
        BY <1>0 DEF Yield, TypeOK
    <2> QED
        BY <1>1, <2>1, AppendProperties
<1>3. /\ UNCHANGED <<list, offset, limit, asked, start, disturbed, raised, outcome>>
      /\ pc' = "block" /\ pos' = pos + 1
    BY DEF Yield, window
<1>4. Phases' /\ ReRaised'
    BY <1>0, <1>2, <1>3 DEF Phases, ReRaised
<1>5. Countdown' /\ LimitHolds'
    BY <1>0, <1>2, <1>3, NumberFacts DEF IInv, Countdown, Counted, Running, LimitHolds
<1>6. Position'
    BY <1>0, <1>2, <1>3, NumberFacts, SMTT(30) DEF IInv, Position, Running
<1>7. Window'
    <2> SUFFICES ASSUME ~disturbed' PROVE Window'
        BY DEF Window
    <2>1. list = asked.list /\ pos = start + asked.offset + Len(yielded)
        BY <1>0, <1>3, NumberFacts DEF IInv, Position, Running
    <2>2. \A i \in 1 .. Len(yielded) :
             start + asked.offset + i <= Len(asked.list)
             /\ yielded[i] = asked.list[start + asked.offset + i]
        BY <1>3 DEF IInv, Window
    <2>3. ASSUME NEW i \in 1 .. Len(yielded')
          PROVE  start + asked.offset + i <= Len(asked.list)
                 /\ yielded'[i] = asked.list[start + asked.offset + i]
        <3>1. CASE i \in 1 .. Len(yielded)
            BY <3>1, <2>2, <1>2
        <3>2. CASE i = Len(yielded) + 1
            <4>0. /\ start \in Nat /\ asked.offset \in Nat /\ Len(yielded) \in Nat
                  /\ pos \in Nat /\ Len(list) \in Nat
                BY <1>0, NumberFacts
            <4>1. start + asked.offset + i = pos + 1 /\ pos + 1 <= Len(list)
                BY <3>2, <2>1, <1>0, <4>0, SMTT(30)
            <4> QED
                BY <4>1, <3>2, <2>1, <1>2
        <3> QED
            BY <3>1, <3>2, <1>0, <1>2, NumberFacts, SMTT(30)
    <2> QED
        BY <2>3, <1>0, <1>3 DEF Window
<1> QED
    BY <1>4, <1>5, <1>6, <1>7 DEF IInv

\* The block returns: the commit is counted, and the limit may be reached.
LEMMA BlockReturnsStep == ASSUME IInv, TypeOK', BlockReturns PROVE IInv'
<1>0. /\ TypeOK /\ pc = "block" /\ yielded # <<>> /\ outcome = "pending" /\ ~raised
    BY DEF IInv, BlockReturns, Phases
<1>1. /\ UNCHANGED <<list, pos, offset, asked, start, disturbed, yielded, raised>>
      /\ limit' = IF limit = 0 THEN UINT64_MAX ELSE limit - 1
      /\ limit' = 0 => outcome' = "returned" /\ pc' \in {"free", "idle"}
      /\ limit' # 0 => outcome' = outcome /\ pc' = "next"
    BY DEF BlockReturns, Leave, walker, window
<1>2. Phases' /\ ReRaised' /\ LimitHolds'
    BY <1>0, <1>1 DEF IInv, Phases, ReRaised, LimitHolds
<1>3. ~disturbed => Len(yielded) <= Len(list) /\ Len(yielded) < UINT64_MAX
    BY <1>0, NumberFacts DEF IInv, Position, Running
<1>4. /\ asked.limit > 0 => limit > 0 /\ limit = asked.limit - (Len(yielded) - 1)
      /\ asked.limit = 0 /\ Len(yielded) = 1 => limit = 0
      /\ asked.limit = 0 /\ Len(yielded) > 1 /\ ~disturbed
         => limit = UINT64_MAX + 1 - (Len(yielded) - 1)
    BY <1>0, NumberFacts DEF IInv, Countdown, Counted, Running
<1>5. Countdown'
    <2>1. CASE asked.limit > 0
        BY <2>1, <1>0, <1>1, <1>4, NumberFacts DEF Countdown, Counted, Running
    <2>2. CASE asked.limit = 0
        <3>0. /\ Len(yielded) \in Nat \ {0} /\ limit \in Nat /\ UINT64_MAX \in Nat \ {0}
              /\ Len(yielded') = Len(yielded)
            BY <1>0, <1>1, NumberFacts
        <3>1. ~disturbed => limit' = UINT64_MAX + 1 - Len(yielded)
            <4> SUFFICES ASSUME ~disturbed PROVE limit' = UINT64_MAX + 1 - Len(yielded)
                OBVIOUS
            <4>1. CASE Len(yielded) = 1
                <5>1. limit = 0
                    BY <4>1, <2>2, <1>4
                <5> QED
                    BY <5>1, <4>1, <3>0, <1>1
            <4>2. CASE Len(yielded) > 1
                <5>1. limit = UINT64_MAX + 1 - (Len(yielded) - 1)
                    BY <4>2, <2>2, <1>4
                <5>2. Len(yielded) < UINT64_MAX
                    BY <1>3
                <5> QED
                    BY <5>1, <5>2, <3>0, <1>1
            <4> QED
                BY <4>1, <4>2, <3>0
        <3>2. pc' # "block"
            BY <1>1
        <3> QED
            BY <3>0, <3>1, <3>2, <2>2, <1>1 DEF Countdown, Counted, Running
    <2> QED
        BY <2>1, <2>2, <1>0, NumberFacts
<1>6. Position'
    BY <1>0, <1>1 DEF IInv, Position, Running
<1>7. ASSUME ~disturbed, limit' = 0 PROVE asked.limit > 0 /\ Len(yielded) = asked.limit
    <2>0. /\ Len(yielded) \in Nat \ {0} /\ limit \in Nat /\ UINT64_MAX \in Nat \ {0}
          /\ asked.limit \in Nat
        BY <1>0, NumberFacts
    <2>1. limit = 1
        BY <2>0, <1>1, <1>7
    <2>2. ASSUME asked.limit = 0 PROVE FALSE
        <3>1. Len(yielded) < UINT64_MAX
            BY <1>3, <1>7
        <3>2. Len(yielded) > 1
            <4>1. Len(yielded) = 1 => limit = 0
                BY <2>2, <1>4
            <4>2. Len(yielded) # 1
                BY <4>1, <2>1
            <4> DEFINE n == Len(yielded)
            <4>3. n \in Nat /\ n # 0 /\ n # 1
                BY <4>2, <2>0
            <4> HIDE DEF n
            <4>4. n > 1
                BY <4>3
            <4> QED
                BY <4>4 DEF n
        <3>3. limit = UINT64_MAX + 1 - (Len(yielded) - 1)
            BY <3>2, <2>2, <1>4, <1>7
        <3> QED
            BY <3>1, <3>3, <2>0, <2>1
    <2> QED
        BY <2>0, <2>1, <2>2, <1>4
<1>8. Window'
    BY <1>0, <1>1, <1>7 DEF IInv, Window
<1> QED
    BY <1>2, <1>5, <1>6, <1>8 DEF IInv

\* The walk ends for another reason: the history does, the block raises or
\* libgit2 fails; or the block uses the walker.
LEMMA OtherStep ==
    ASSUME IInv, TypeOK', WalkEnds \/ BlockRaises \/ WalkFails \/ \E h \in Histories : Disturb(h)
    PROVE  IInv'
<1>0. TypeOK
    BY DEF IInv
<1>1. ASSUME WalkEnds PROVE IInv'
    BY <1>0, <1>1, NumberFacts
    DEF WalkEnds, Leave, More, IInv, Phases, Position, Countdown, Running, Window, LimitHolds,
        ReRaised, window
<1>2. ASSUME BlockRaises \/ WalkFails PROVE IInv'
    BY <1>0, <1>2
    DEF BlockRaises, WalkFails, Leave, IInv, Phases, Position, Countdown, Running, Window,
        LimitHolds, ReRaised, walker, window
<1>3. ASSUME NEW h \in Histories, Disturb(h) PROVE IInv'
    BY <1>0, <1>3
    DEF Disturb, IInv, Phases, Position, Countdown, Counted, Running, Window, LimitHolds, ReRaised
<1> QED
    BY <1>1, <1>2, <1>3

\* Every step keeps the invariant of Walk.
LEMMA NextInv == IInv /\ [Next]_vars => IInv'
<1> SUFFICES ASSUME IInv, [Next]_vars PROVE IInv'
    OBVIOUS
<1>1. TypeOK'
    BY TypeStep
<1> QED
    BY <1>1, OutsideStep, SkipStep, YieldStep, BlockReturnsStep, OtherStep DEF Next

\* For every history, :offset, :limit and width of the counters, the block is
\* given the window of commits that was asked for (do_walk in
\* rugged_revwalk.c), at most :limit times, and its exception is raised again.
THEOREM WindowCorrect == Spec => [](Window /\ LimitHolds /\ ReRaised)
<1>1. IInv => Window /\ LimitHolds /\ ReRaised
    BY DEF IInv
<1> QED
    BY <1>1, InitInv, NextInv, PTL DEF Spec

-----------------------------------------------------------------------------
(* Walker.walk frees its walker.                                            *)

FreeInv == allocated => method = "walk" /\ pc # "idle"

\* The walker that Walker.walk has made is freed before the program goes on,
\* whichever way the method ends (rb_git_walk frees it before rb_jump_tag).
THEOREM WalkerFreed == Spec => []Freed
<1>1. Init => FreeInv
    BY DEF Init, FreeInv
<1>2. FreeInv /\ [Next]_vars => FreeInv'
    BY DEF FreeInv, Next, SetUp, Disturb, Call, LoadOptions, RefuseOptions, Leave, Skip, Yield,
           BlockReturns, BlockRaises, WalkEnds, WalkFails, Free, walker, window, vars
<1>3. FreeInv => Freed
    BY DEF FreeInv, Freed
<1> QED
    BY <1>1, <1>2, <1>3, PTL DEF Spec

-----------------------------------------------------------------------------
(* Every walk comes nearer to its end.                                      *)

Triples == Nat \X Nat \X Nat

Descending == {p \in Triples \X Triples : Before(p[1], p[2])}

\* There is no way down the triples of natural numbers that goes on forever, so
\* that what makes its triple smaller with every step ends.
LEMMA DescentEnds == IsWellFoundedOn(Descending, Triples)
<1> DEFINE less == OpToRel(<, Nat)
           pairs == Nat \X Nat
           lessPair == LexPairOrdering(less, less, Nat, Nat)
           nested == LexPairOrdering(less, lessPair, Nat, pairs)
<1>1. IsWellFoundedOn(less, Nat)
    BY NatLessThanWellFounded
<1>2. \A i, j \in Nat : <<i, j>> \in less <=> i < j
    BY DEF OpToRel
<1> HIDE DEF less
<1>3. IsWellFoundedOn(lessPair, pairs)
    BY <1>1, WFLexPairOrdering
<1>4. \A x, y \in pairs :
         <<x, y>> \in lessPair <=> x[1] < y[1] \/ (x[1] = y[1] /\ x[2] < y[2])
    BY <1>2 DEF LexPairOrdering
<1> HIDE DEF lessPair
<1>5. IsWellFoundedOn(nested, Nat \X pairs)
    BY <1>1, <1>3, WFLexPairOrdering
<1>6. \A x, y \in Nat \X pairs :
         <<x, y>> \in nested <=> x[1] < y[1] \/ (x[1] = y[1] /\ <<x[2], y[2]>> \in lessPair)
    BY <1>2 DEF LexPairOrdering
<1> HIDE DEF nested
<1> SUFFICES ASSUME NEW f \in [Nat -> Triples], \A n \in Nat : <<f[n + 1], f[n]>> \in Descending
             PROVE  FALSE
    BY DEF IsWellFoundedOn
<1> DEFINE g == [n \in Nat |-> <<f[n][1], <<f[n][2], f[n][3]>>>>]
<1>7. \A n \in Nat : f[n][1] \in Nat /\ f[n][2] \in Nat /\ f[n][3] \in Nat
    BY DEF Triples
<1>8. g \in [Nat -> Nat \X pairs] /\ \A n \in Nat : g[n] = <<f[n][1], <<f[n][2], f[n][3]>>>>
    BY <1>7
<1> HIDE DEF g
<1>9. ASSUME NEW n \in Nat PROVE <<g[n + 1], g[n]>> \in nested
    <2>0. n + 1 \in Nat
        OBVIOUS
    <2> DEFINE x == <<f[n + 1][2], f[n + 1][3]>>
               y == <<f[n][2], f[n][3]>>
    <2>1. x \in pairs /\ y \in pairs
        BY <1>7, <2>0
    <2>2. x[1] = f[n + 1][2] /\ x[2] = f[n + 1][3] /\ y[1] = f[n][2] /\ y[2] = f[n][3]
        OBVIOUS
    <2>3. g[n + 1] = <<f[n + 1][1], x>> /\ g[n] = <<f[n][1], y>>
        BY <1>8, <2>0
    <2> HIDE DEF x, y
    <2>4. <<x, y>> \in lessPair <=> x[1] < y[1] \/ (x[1] = y[1] /\ x[2] < y[2])
        BY <1>4, <2>1
    <2>5. g[n] \in Nat \X pairs /\ g[n + 1] \in Nat \X pairs
        BY <1>8, <2>0
    <2>6. Before(f[n + 1], f[n])
        BY <2>0 DEF Descending
    <2> QED
        BY <1>6, <2>2, <2>3, <2>4, <2>5, <2>6 DEF Before
<1> QED
    BY <1>5, <1>8, <1>9 DEF IsWellFoundedOn

\* Which of two triples is the smaller one.
LEMMA Smaller ==
    ASSUME NEW a, NEW b, NEW c, NEW d, NEW e, NEW f,
           \/ a < d
           \/ a = d /\ b < e
           \/ a = d /\ b = e /\ c < f
    PROVE  Before(<<a, b, c>>, <<d, e, f>>)
BY DEF Before

\* What is left is a triple of natural numbers.
LEMMA LeftTyped == TypeOK => Left \in Triples
<1> SUFFICES ASSUME TypeOK PROVE Left \in Triples
    OBVIOUS
<1>1. Part \in Nat
    BY DEF Part
<1>2. Runs \in Nat
    BY NumberFacts DEF Runs
<1>3. Ahead \in Nat
    BY NumberFacts DEF Ahead
<1> QED
    BY <1>1, <1>2, <1>3 DEF Left, Triples

\* A step of the method or the end of the block.
LEMMA SoonerStep ==
    ASSUME TypeOK, Next, pc # "idle", ~\E h \in Histories : Disturb(h)
    PROVE  Before(Left', Left)
<1> USE NumberFacts
<1>0. Left = <<Part, Runs, Ahead>> /\ Left' = <<Part', Runs', Ahead'>>
    BY DEF Left
<1>1. CASE \E o, l \in Options, h \in Histories : LoadOptions(o, l, h)
    <2>1. Part = 3 /\ Part' = 2
        BY <1>1 DEF LoadOptions, Part
    <2> QED
        BY <1>0, <2>1, Smaller
<1>2. CASE RefuseOptions \/ BlockRaises \/ WalkEnds \/ WalkFails
    <2>1. Part \in {2, 3} /\ Part' \in {0, 1}
        BY <1>2 DEF RefuseOptions, BlockRaises, WalkEnds, WalkFails, Leave, Part
    <2>2. Part' < Part
        BY <2>1
    <2> QED
        BY <1>0, <2>2, Smaller
<1>3. CASE Free
    <2>1. Part = 1 /\ Part' = 0
        BY <1>3 DEF Free, Part
    <2> QED
        BY <1>0, <2>1, Smaller
<1>4. CASE Skip
    <2>1. Part = 2 /\ Part' = 2 /\ Runs' = Runs
        BY <1>4 DEF Skip, Part, Runs
    <2>2. Ahead = Len(list) - pos + 1 /\ Ahead' = Len(list) - (pos + 1) + 1
        BY <1>4 DEF Skip, Ahead
    <2>3. Ahead' < Ahead
        BY <2>2
    <2> QED
        BY <1>0, <2>1, <2>3, Smaller
<1>5. CASE Yield
    <2>1. Part = 2 /\ Part' = 2 /\ Runs' = Runs
        BY <1>5 DEF Yield, Part, Runs
    <2>2. Ahead = Len(list) - pos + 1 /\ Ahead' = 0 /\ pos < Len(list)
        BY <1>5 DEF Yield, More, Ahead
    <2>3. Ahead' < Ahead
        BY <2>2
    <2> QED
        BY <1>0, <2>1, <2>3, Smaller
<1>6. CASE BlockReturns
    <2>1. CASE limit' = 0
        <3>1. Part = 2 /\ Part' \in {0, 1}
            BY <1>6, <2>1 DEF BlockReturns, Leave, Part
        <3>2. Part' < Part
            BY <3>1
        <3> QED
            BY <1>0, <3>2, Smaller
    <2>2. CASE limit' # 0
        <3>1. Part = 2 /\ Part' = 2
            BY <1>6, <2>2 DEF BlockReturns, Part
        <3>2. Runs' = limit' /\ limit' = IF limit = 0 THEN UINT64_MAX ELSE limit - 1
            BY <1>6, <2>2 DEF BlockReturns, Runs
        <3>3. Runs' < Runs
            BY <3>2 DEF Runs
        <3> QED
            BY <1>0, <3>1, <3>3, Smaller
    <2> QED
        BY <2>1, <2>2
<1> QED
    BY <1>1, <1>2, <1>3, <1>4, <1>5, <1>6 DEF Next, SetUp, Call

\* Whatever the block does with the walker, it takes away nothing of that.
LEMMA DisturbedKeeps == ASSUME NEW h, Disturb(h) PROVE Left' = Left
<1>1. Part' = Part /\ Runs' = Runs /\ Ahead' = Ahead
    BY DEF Disturb, Part, Runs, Ahead
<1> QED
    BY <1>1 DEF Left

\* Every walk comes nearer to its end with every step of the method and every
\* end of the block (do_walk in rugged_revwalk.c): by DescentEnds it takes only
\* finitely many of them, for every history, :offset and :limit, and also if the
\* block resets the walker each time.
THEOREM WalkEndsSooner == Spec => EndsSooner /\ [](Left \in Triples)
<1>1. TypeOK /\ [Next]_vars =>
        [pc # "idle" =>
            \/ Before(Left', Left)
            \/ Left' = Left /\ \E h \in Histories : Disturb(h)]_vars
    BY SoonerStep, DisturbedKeeps
<1>2. IInv => TypeOK /\ Left \in Triples
    BY LeftTyped DEF IInv
<1>3. Spec => []IInv
    BY InitInv, NextInv, PTL DEF Spec
<1> QED
    BY <1>1, <1>2, <1>3, PTL DEF Spec, EndsSooner

-----------------------------------------------------------------------------
(* Induction over the natural numbers, for sets.                            *)

\* A set of natural numbers that is not empty has a least member.
LEMMA Least ==
    ASSUME NEW T \in SUBSET Nat, T # {}
    PROVE  \E n \in T : \A m \in T : n <= m
<1>1. IsWellFoundedOn(OpToRel(<, Nat), Nat)
  BY NatLessThanWellFounded
<1>2. \E n \in T : \A m \in T : ~ (<<m, n>> \in OpToRel(<, Nat))
  BY <1>1, WFMin
<1>3. PICK n \in T : \A m \in T : ~ (m < n)
  BY <1>2 DEF OpToRel
<1> QED
  BY <1>3

\* A set with 0, and with n + 1 if it has n, has every natural number.
LEMMA Induct ==
    ASSUME NEW S, 0 \in S, \A n \in Nat : n \in S => n + 1 \in S
    PROVE  Nat \subseteq S
<1> SUFFICES ASSUME Nat \ S # {} PROVE FALSE
  OBVIOUS
<1>1. PICK n \in Nat \ S : \A m \in Nat \ S : n <= m
  BY Least, Nat \ S \in SUBSET Nat
<1>2. n # 0 /\ n - 1 \in Nat /\ n - 1 < n /\ n = (n - 1) + 1
  BY <1>1
<1>3. n - 1 \in S
  BY <1>1, <1>2
<1> QED
  BY <1>1, <1>2, <1>3

\* The same from n down to m: what holds of n, and of i if of all behind it.
LEMMA Downward ==
    ASSUME NEW m \in Int, NEW n \in Int, NEW S,
           \A i \in m .. n : (\A j \in i + 1 .. n : j \in S) => i \in S
    PROVE  m .. n \subseteq S
<1> DEFINE K == {k \in Nat : \A j \in m .. n : j > n - k => j \in S}
<1>1. 0 \in K
  OBVIOUS
<1>2. ASSUME NEW k \in Nat, k \in K PROVE k + 1 \in K
  <2> SUFFICES ASSUME NEW j \in m .. n, j > n - (k + 1), j \notin S PROVE FALSE
    OBVIOUS
  <2>1. \A l \in j + 1 .. n : l \in S
    BY <1>2
  <2> QED
    BY <2>1
<1> HIDE DEF K
<1>3. Nat \subseteq K
  BY <1>1, <1>2, Induct
<1> SUFFICES ASSUME NEW i \in m .. n PROVE i \in S
  OBVIOUS
<1>4. n - i + 1 \in K
  BY <1>3
<1> QED
  BY <1>4 DEF K

-----------------------------------------------------------------------------
(* The loops.                                                               *)

SeekEq(g, from, n, stop) ==
    g = [i \in from .. n |-> IF i = n \/ i \in stop THEN i ELSE g[i + 1]]

\* Whether a loop that begins at i ends at e.
StopsAt(i, n, stop, e) ==
    /\ e \in i .. n
    /\ e = n \/ e \in stop
    /\ \A j \in i .. e - 1 : j \notin stop

\* A loop ends where StopsAt says, and its equation has a solution.
LEMMA SeekIs ==
    ASSUME NEW from \in Int, NEW n \in Int, from <= n, NEW stop
    PROVE  StopsAt(from, n, stop, Seek(from, n, stop))
<1> DEFINE F == [i \in from .. n |-> CHOOSE e \in i .. n : StopsAt(i, n, stop, e)]
           G == CHOOSE g : SeekEq(g, from, n, stop)
<1>1. ASSUME NEW i \in from .. n PROVE F[i] \in i .. n /\ StopsAt(i, n, stop, F[i])
  <2> DEFINE T == {k \in Nat : i + k = n \/ (i + k <= n /\ i + k \in stop)}
  <2>1. n - i \in T
    OBVIOUS
  <2>2. PICK k \in T : \A l \in T : k <= l
    BY <2>1, Least, T \in SUBSET Nat
  <2>3. i + k \in i .. n
    OBVIOUS
  <2>4. \A j \in i .. i + k - 1 : j \notin stop
    <3> SUFFICES ASSUME NEW j \in i .. i + k - 1, j \in stop PROVE FALSE
      OBVIOUS
    <3>1. j - i \in T /\ j - i < k
      BY <2>3
    <3> QED
      BY <2>2, <3>1
  <2>5. StopsAt(i, n, stop, i + k)
    BY <2>3, <2>4 DEF StopsAt
  <2> QED
    BY <2>3, <2>5
<1>2. ASSUME NEW i \in from .. n, NEW e, NEW f, StopsAt(i, n, stop, e), StopsAt(i, n, stop, f)
      PROVE  e = f
  BY <1>2 DEF StopsAt
<1>3. SeekEq(F, from, n, stop)
  <2> SUFFICES ASSUME NEW i \in from .. n
               PROVE  F[i] = IF i = n \/ i \in stop THEN i ELSE F[i + 1]
    BY DEF SeekEq
  <2>1. CASE i = n \/ i \in stop
    <3>1. StopsAt(i, n, stop, i)
      BY <2>1 DEF StopsAt
    <3> QED
      BY <1>1, <1>2, <2>1, <3>1
  <2>2. CASE ~(i = n \/ i \in stop)
    <3>1. i + 1 \in from .. n
      BY <2>2
    <3>2. StopsAt(i + 1, n, stop, F[i + 1])
      BY <1>1, <3>1
    <3> HIDE DEF F
    <3>3. StopsAt(i, n, stop, F[i + 1])
      BY <2>2, <3>2 DEF StopsAt
    <3> QED
      BY <1>1, <1>2, <2>2, <3>3
  <2> QED
    BY <2>1, <2>2
<1>4. SeekEq(G, from, n, stop) /\ Seek(from, n, stop) = G[from]
  BY <1>3 DEF Seek, SeekEq
<1> DEFINE S == {i \in from .. n : StopsAt(i, n, stop, G[i])}
<1> HIDE DEF F, G
<1>5. ASSUME NEW i \in from .. n, \A j \in i + 1 .. n : j \in S PROVE i \in S
  <2>1. G[i] = IF i = n \/ i \in stop THEN i ELSE G[i + 1]
    BY <1>4 DEF SeekEq
  <2>2. CASE i = n \/ i \in stop
    BY <2>1, <2>2 DEF StopsAt
  <2>3. CASE ~(i = n \/ i \in stop)
    <3>1. StopsAt(i + 1, n, stop, G[i + 1])
      BY <1>5, <2>3
    <3> QED
      BY <2>1, <2>3, <3>1 DEF StopsAt
  <2> QED
    BY <2>2, <2>3
<1> HIDE DEF S
<1>6. from .. n \subseteq S
  BY <1>5, Downward
<1> QED
  BY <1>4, <1>6 DEF S

TallyEq(g, s, S) ==
    g = [i \in 0 .. Len(s) |->
            IF i = 0 THEN 0 ELSE IF s[i] \in S THEN g[i - 1] + 1 ELSE g[i - 1]]

\* The places of the first i members of s that are in S.
Places(s, S, i) == {j \in 1 .. i : s[j] \in S}

\* Places can be counted.
LEMMA PlacesFinite ==
    ASSUME NEW s, NEW S, NEW i \in Int
    PROVE  IsFiniteSet(Places(s, S, i)) /\ Cardinality(Places(s, S, i)) \in Nat
<1>1. IsFiniteSet(1 .. i)
  BY FS_Interval
<1>2. IsFiniteSet(Places(s, S, i))
  BY <1>1, FS_Subset DEF Places
<1> QED
  BY <1>2, FS_CardinalityType

\* One member more adds one place, or none.
LEMMA PlacesStep ==
    ASSUME NEW s, NEW S, NEW i \in Nat \ {0}
    PROVE  Cardinality(Places(s, S, i)) =
               Cardinality(Places(s, S, i - 1)) + IF s[i] \in S THEN 1 ELSE 0
<1>1. i - 1 \in Int
  OBVIOUS
<1>2. IsFiniteSet(Places(s, S, i - 1)) /\ Cardinality(Places(s, S, i - 1)) \in Nat
  BY <1>1, PlacesFinite
<1>3. i \notin Places(s, S, i - 1)
  BY DEF Places
<1>4. CASE s[i] \in S
  <2>1. Places(s, S, i) = Places(s, S, i - 1) \cup {i}
    BY <1>4 DEF Places
  <2> QED
    BY <1>2, <1>3, <1>4, <2>1, FS_AddElement
<1>5. CASE s[i] \notin S
  <2>1. Places(s, S, i) = Places(s, S, i - 1)
    BY <1>5 DEF Places
  <2> QED
    BY <1>2, <1>5, <2>1
<1> QED
  BY <1>4, <1>5

\* The counter is the number of places.
LEMMA TallyIs ==
    ASSUME NEW s, NEW S, Len(s) \in Nat, NEW i \in 0 .. Len(s)
    PROVE  Tally(s, S)[i] = Cardinality(Places(s, S, i))
<1> DEFINE F == [k \in 0 .. Len(s) |-> Cardinality(Places(s, S, k))]
           G == CHOOSE g : TallyEq(g, s, S)
<1>1. Cardinality(Places(s, S, 0)) = 0
  <2>1. Places(s, S, 0) = {}
    BY DEF Places
  <2> QED
    BY <2>1, FS_EmptySet
<1>2. TallyEq(F, s, S)
  <2> SUFFICES ASSUME NEW k \in 0 .. Len(s)
               PROVE  F[k] = IF k = 0 THEN 0 ELSE IF s[k] \in S THEN F[k - 1] + 1 ELSE F[k - 1]
    BY DEF TallyEq
  <2>1. CASE k = 0
    BY <1>1, <2>1
  <2>2. CASE k # 0
    <3>1. k - 1 \in 0 .. Len(s) /\ k \in Nat \ {0}
      BY <2>2
    <3>2. F[k] = Cardinality(Places(s, S, k)) /\ F[k - 1] = Cardinality(Places(s, S, k - 1))
      BY <3>1
    <3> QED
      BY <2>2, <3>1, <3>2, PlacesStep, PlacesFinite
  <2> QED
    BY <2>1, <2>2
<1>3. TallyEq(G, s, S) /\ Tally(s, S) = G
  BY <1>2 DEF Tally, TallyEq
<1> DEFINE K == {k \in Nat : k <= Len(s) => G[k] = Cardinality(Places(s, S, k))}
<1> HIDE DEF F, G
<1>4. 0 \in K
  BY <1>1, <1>3 DEF TallyEq
<1>5. ASSUME NEW k \in Nat, k \in K PROVE k + 1 \in K
  <2> SUFFICES ASSUME k + 1 <= Len(s) PROVE G[k + 1] = Cardinality(Places(s, S, k + 1))
    OBVIOUS
  <2>1. G[k + 1] = IF s[k + 1] \in S THEN G[k] + 1 ELSE G[k]
    BY <1>3 DEF TallyEq
  <2>2. G[k] = Cardinality(Places(s, S, k)) /\ G[k] \in Nat
    BY <1>5, PlacesFinite
  <2>3. k + 1 \in Nat \ {0} /\ (k + 1) - 1 = k
    OBVIOUS
  <2> QED
    BY <2>1, <2>2, <2>3, PlacesStep
<1> HIDE DEF K
<1>6. Nat \subseteq K
  BY <1>4, <1>5, Induct
<1> QED
  BY <1>3, <1>6 DEF K

-----------------------------------------------------------------------------
(* Blob#text.                                                               *)

\* What TextRight says of a text of data.
IsText(data, max, text) ==
    /\ text = SubSeq(data, 1, Len(text))
    /\ max < 0 => text = data
    /\ max >= 0 => Cardinality(Feeds(text)) <= max
    /\ max = 0 => text = <<>>
    /\ text # data /\ max > 0 => text[Len(text)] = LF /\ Cardinality(Feeds(text)) = max

\* Blob#text returns what TextRight says.
LEMMA TextIs ==
    ASSUME NEW data \in Seq(Characters), NEW max \in Int
    PROVE  IsText(data, max, SubSeq(data, 1, TextSize(data, max)))
<1> DEFINE n == Len(data)
           lines == Tally(data, {LF})
           stop == {i \in 0 .. n : lines[i] >= max}
           e == Seek(0, n, stop)
<1>0. n \in Nat /\ SubSeq(data, 1, n) = data
  BY SubSeqFull
<1>1. CASE max < 0
  <2>1. TextSize(data, max) = n
    BY <1>1 DEF TextSize
  <2> QED
    BY <1>0, <1>1, <2>1 DEF IsText
<1>2. CASE max >= 0
  <2>1. TextSize(data, max) = e
    BY <1>2 DEF TextSize
  <2>2. ASSUME NEW i \in 0 .. n
        PROVE lines[i] = Cardinality(Places(data, {LF}, i)) /\ lines[i] \in Nat
    BY <1>0, <2>2, TallyIs, PlacesFinite
  <2>3. ASSUME NEW i \in 1 .. n
        PROVE lines[i] = lines[i - 1] + IF data[i] = LF THEN 1 ELSE 0
    <3>1. i \in Nat \ {0} /\ i - 1 \in 0 .. n /\ i \in 0 .. n
      BY <1>0
    <3> HIDE DEF lines, n
    <3>2. lines[i] = Cardinality(Places(data, {LF}, i))
          /\ lines[i - 1] = Cardinality(Places(data, {LF}, i - 1))
      BY <2>2, <3>1
    <3>3. Cardinality(Places(data, {LF}, i)) =
              Cardinality(Places(data, {LF}, i - 1)) + IF data[i] \in {LF} THEN 1 ELSE 0
      BY <3>1, PlacesStep
    <3> QED
      BY <3>2, <3>3
  <2>4. lines[0] = 0
    <3>1. Places(data, {LF}, 0) = {}
      BY DEF Places
    <3>2. 0 \in 0 .. n
      BY <1>0
    <3> HIDE DEF lines, n
    <3>3. lines[0] = Cardinality({})
      BY <2>2, <3>1, <3>2
    <3> QED
      BY <3>3, FS_EmptySet
  <2> HIDE DEF lines
  <2>5. StopsAt(0, n, stop, e)
    BY <1>0, SeekIs
  <2> HIDE DEF e
  <2>6. e \in 0 .. n /\ (e = n \/ lines[e] >= max) /\ \A j \in 0 .. e - 1 : lines[j] < max
    <3>1. e \in 0 .. n /\ (e = n \/ lines[e] >= max) /\ \A j \in 0 .. e - 1 : j \notin stop
      BY <2>5 DEF StopsAt
    <3> SUFFICES ASSUME NEW j \in 0 .. e - 1 PROVE lines[j] < max
      BY <3>1
    <3>2. j \in 0 .. n
      <4> HIDE DEF n, stop
      <4> QED
        BY <1>0, <3>1
    <3> HIDE DEF n
    <3>3. lines[j] \in Nat
      BY <2>2, <3>2
    <3> QED
      BY <3>1, <3>2, <3>3
  <2> DEFINE text == SubSeq(data, 1, e)
  <2> HIDE DEF n, stop
  <2>7. /\ Len(text) = e
        /\ \A i \in 1 .. e : text[i] = data[i]
        /\ text \in Seq(Characters)
    <3>1. \A i \in 1 .. e : data[i] \in Characters
      <4> SUFFICES ASSUME NEW i \in 1 .. e PROVE data[i] \in Characters
        OBVIOUS
      <4>1. i \in 1 .. n
        BY <1>0, <2>6
      <4> QED
        BY <4>1 DEF n
    <3>2. /\ Len(text) = IF 1 <= e THEN e - 1 + 1 ELSE 0
          /\ \A i \in 1 .. e - 1 + 1 : text[i] = data[1 + i - 1]
          /\ text \in Seq(Characters)
      BY <1>0, <2>6, <3>1, SubSeqProperties
    <3> QED
      BY <1>0, <2>6, <3>2
  <2>8. text = SubSeq(data, 1, Len(text))
    BY <2>7
  <2>a. Feeds(text) = Places(data, {LF}, e)
    BY <2>7 DEF Feeds, Places
  <2>9. Cardinality(Feeds(text)) = lines[e]
    BY <2>2, <2>6, <2>a
  <2> HIDE DEF text
  <2>10. lines[e] <= max
    <3>1. CASE e = 0
      BY <1>2, <2>4, <3>1
    <3>2. CASE e # 0
      <4>1. e \in 1 .. n /\ e - 1 \in 0 .. e - 1
        BY <2>6, <3>2
      <4>2. lines[e - 1] < max /\ lines[e - 1] \in Nat
        BY <1>0, <2>2, <2>6, <4>1
      <4> QED
        BY <2>3, <4>1, <4>2
    <3> QED
      BY <3>1, <3>2
  <2>11. ASSUME max = 0 PROVE text = <<>>
    <3>1. e = 0
      <4> SUFFICES ASSUME e # 0 PROVE FALSE
        OBVIOUS
      <4>1. 0 \in 0 .. e - 1
        BY <2>6
      <4>2. lines[0] < max
        BY <2>6, <4>1
      <4> QED
        BY <2>4, <2>11, <4>2
    <3> QED
      BY <2>7, <3>1
  <2>12. ASSUME text # data, max > 0 PROVE text[Len(text)] = LF /\ lines[e] = max
    <3>1. e # n
      BY <1>0, <2>12 DEF text
    <3>2. lines[e] >= max /\ lines[e] \in Nat
      BY <2>2, <2>6, <3>1
    <3>3. lines[e] = max
      BY <2>10, <3>2
    <3>4. e # 0
      BY <2>4, <2>12, <3>3
    <3>5. e \in 1 .. n /\ e - 1 \in 0 .. e - 1
      BY <2>6, <3>4
    <3>6. lines[e - 1] < max /\ lines[e - 1] \in Nat
      BY <1>0, <2>2, <2>6, <3>5
    <3>7. data[e] = LF
      BY <2>3, <3>3, <3>5, <3>6
    <3> QED
      BY <2>7, <3>3, <3>5, <3>7
  <2>13. IsText(data, max, text)
    BY <1>2, <2>8, <2>9, <2>10, <2>11, <2>12 DEF IsText
  <2> QED
    BY <2>1, <2>13 DEF text
<1> QED
  BY <1>1, <1>2

-----------------------------------------------------------------------------
(* Blob#loc.                                                                *)

\* The members of a set of places that are not before i.
From(S, i) == {j \in S : j >= i}

\* One place less leaves out one member, or none.
LEMMA FromStep ==
    ASSUME NEW n \in Nat, NEW S \in SUBSET (1 .. n), NEW i \in Int
    PROVE  /\ IsFiniteSet(From(S, i)) /\ Cardinality(From(S, i)) \in Nat
           /\ Cardinality(From(S, i)) =
                  Cardinality(From(S, i + 1)) + IF i \in S THEN 1 ELSE 0
<1>0. \A j \in S : j \in Int
  OBVIOUS
<1>1. ASSUME NEW k PROVE IsFiniteSet(From(S, k)) /\ Cardinality(From(S, k)) \in Nat
  <2>1. IsFiniteSet(1 .. n)
    BY FS_Interval
  <2>2. IsFiniteSet(From(S, k))
    BY <2>1, FS_Subset DEF From
  <2> QED
    BY <2>2, FS_CardinalityType
<1>2. CASE i \in S
  <2>1. \A j \in S : j >= i <=> j = i \/ j >= i + 1
    BY <1>0
  <2>2. From(S, i) = From(S, i + 1) \cup {i}
    BY <1>2, <2>1 DEF From
  <2>3. i \notin From(S, i + 1)
    BY DEF From
  <2> QED
    BY <1>1, <1>2, <2>2, <2>3, FS_AddElement
<1>3. CASE i \notin S
  <2>0. \A j \in S : j >= i <=> j >= i + 1
    BY <1>0, <1>3
  <2>1. From(S, i) = From(S, i + 1)
    BY <2>0, Zenon DEF From
  <2> QED
    BY <1>1, <1>3, <2>1
<1> QED
  BY <1>1, <1>2, <1>3

\* Behind the last place there is no member, from the first on all are.
LEMMA FromEnd ==
    ASSUME NEW n \in Nat, NEW S \in SUBSET (1 .. n)
    PROVE  Cardinality(From(S, n + 1)) = 0 /\ From(S, 1) = S
<1>1. \A j \in S : j \in 1 .. n
  OBVIOUS
<1>2. \A j \in S : ~(j >= n + 1) /\ j >= 1
  BY <1>1
<1>3. From(S, n + 1) = {} /\ From(S, 1) = S
  BY <1>2, Zenon DEF From
<1> QED
  BY <1>3, FS_EmptySet

\* The ends of lines, as LocRight has them.
LineEnds(data) ==
    {i \in 1 .. Len(data) :
        data[i] = LF \/ (data[i] = CR /\ (i = Len(data) \/ data[i + 1] # LF))}

LocEq(g, data) ==
    g = [i \in 1 .. Len(data) + 1 |->
            IF i > Len(data) THEN 0
            ELSE IF data[i] = LF THEN 1 + g[i + 1]
            ELSE IF data[i] = CR
                 THEN 1 + g[IF i < Len(data) /\ data[i + 1] = LF THEN i + 2 ELSE i + 1]
            ELSE g[i + 1]]

\* Blob#loc counts the ends of lines, and the last line if it has none.
LEMMA LinesOfCodeIs ==
    ASSUME NEW data \in Seq(Characters)
    PROVE  LinesOfCode(data) =
               Cardinality(LineEnds(data)) +
               IF Len(data) \in {0} \cup LineEnds(data) THEN 0 ELSE 1
<1> DEFINE n == Len(data)
           E == LineEnds(data)
           F == [i \in 1 .. n + 1 |-> Cardinality(From(E, i))]
           G == CHOOSE g : LocEq(g, data)
<1>0. n \in Nat /\ E \in SUBSET (1 .. n)
  BY DEF LineEnds
<1>1. ASSUME NEW i \in 1 .. n + 1
      PROVE  F[i] = IF i > n THEN 0 ELSE F[i + 1] + IF i \in E THEN 1 ELSE 0
  <2> HIDE DEF n, E
  <2>1. CASE i > n
    <3>1. i = n + 1
      BY <1>0, <2>1
    <3> QED
      BY <1>0, <2>1, <3>1, FromEnd
  <2>2. CASE ~(i > n)
    <3>1. i + 1 \in 1 .. n + 1 /\ i \in Int
      BY <1>0, <2>2
    <3>2. Cardinality(From(E, i)) = Cardinality(From(E, i + 1)) + IF i \in E THEN 1 ELSE 0
      BY <1>0, <3>1, FromStep
    <3> QED
      BY <2>2, <3>1, <3>2
  <2> QED
    BY <2>1, <2>2
<1>2. ASSUME NEW i \in 1 .. n + 1 PROVE F[i] \in Nat
  <2> HIDE DEF n, E
  <2>1. i \in Int /\ F[i] = Cardinality(From(E, i))
    BY <1>0
  <2>2. Cardinality(From(E, i)) \in Nat
    BY <1>0, <2>1, FromStep
  <2> HIDE DEF F
  <2> QED
    BY <2>1, <2>2
<1> HIDE DEF F
<1>3. ASSUME NEW i \in 1 .. n + 1
      PROVE  F[i] = IF i > n THEN 0
                    ELSE IF data[i] = LF THEN 1 + F[i + 1]
                    ELSE IF data[i] = CR
                         THEN 1 + F[IF i < n /\ data[i + 1] = LF THEN i + 2 ELSE i + 1]
                    ELSE F[i + 1]
  <2>1. CASE i > n
    BY <1>1, <2>1
  <2>2. CASE ~(i > n)
    <3>1. i \in 1 .. n /\ i + 1 \in 1 .. n + 1
      BY <1>0, <2>2
    <3>2. F[i] = F[i + 1] + IF i \in E THEN 1 ELSE 0
      BY <1>1, <2>2
    <3>3. i \in E <=> data[i] = LF \/ (data[i] = CR /\ (i = n \/ data[i + 1] # LF))
      BY <3>1 DEF LineEnds
    <3>4. F[i + 1] \in Nat
      BY <1>2, <3>1
    <3>5. CASE data[i] # LF /\ data[i] = CR /\ i < n /\ data[i + 1] = LF
      <4>1. i + 1 \in E /\ i + 2 \in 1 .. n + 1 /\ (i + 1) + 1 = i + 2 /\ ~(i + 1 > n)
        BY <1>0, <3>5 DEF LineEnds
      <4>2. F[i + 1] = F[i + 2] + 1 /\ F[i + 2] \in Nat
        BY <1>1, <1>2, <3>1, <4>1
      <4>3. i \notin E
        BY <1>0, <3>3, <3>5
      <4> HIDE DEF n, E
      <4>4. F[i] = 1 + F[i + 2]
        BY <3>2, <4>2, <4>3
      <4> QED
        BY <2>2, <3>5, <4>4
    <3>6. CASE ~(data[i] # LF /\ data[i] = CR /\ i < n /\ data[i + 1] = LF)
      <4>1. i = n \/ i < n
        BY <1>0, <3>1
      <4> HIDE DEF n, E
      <4> QED
        BY <2>2, <3>2, <3>3, <3>4, <3>6, <4>1
    <3> QED
      BY <3>5, <3>6
  <2> QED
    BY <2>1, <2>2
<1>4. LocEq(F, data)
  BY <1>3 DEF LocEq, F
<1>5. LocEq(G, data) /\ LinesOfCode(data) =
          IF data = <<>> THEN 0 ELSE G[1] + IF data[n] \in {LF, CR} THEN 0 ELSE 1
  BY <1>4 DEF LinesOfCode, LocEq
<1> HIDE DEF G
<1> DEFINE S == {i \in 1 .. n + 1 : G[i] = F[i]}
<1>6. ASSUME NEW i \in 1 .. n + 1, \A j \in i + 1 .. n + 1 : j \in S PROVE i \in S
  <2>1. G[i] = IF i > n THEN 0
               ELSE IF data[i] = LF THEN 1 + G[i + 1]
               ELSE IF data[i] = CR
                    THEN 1 + G[IF i < n /\ data[i + 1] = LF THEN i + 2 ELSE i + 1]
               ELSE G[i + 1]
    BY <1>5 DEF LocEq
  <2>2. i <= n => G[i + 1] = F[i + 1]
    BY <1>0, <1>6
  <2>3. i < n => G[i + 2] = F[i + 2]
    BY <1>0, <1>6
  <2> QED
    BY <1>0, <1>3, <2>1, <2>2, <2>3
<1> HIDE DEF S
<1>7. 1 .. n + 1 \subseteq S
  <2> HIDE DEF n
  <2>1. 1 \in Int /\ n + 1 \in Int
    BY <1>0
  <2> QED
    BY <1>6, <2>1, Downward
<1>8. G[1] = Cardinality(E)
  <2>1. 1 \in 1 .. n + 1
    BY <1>0
  <2> HIDE DEF n, E
  <2>2. G[1] = F[1] /\ F[1] = Cardinality(From(E, 1))
    BY <1>7, <2>1 DEF S, F
  <2> QED
    BY <1>0, <2>2, FromEnd
<1>9. LinesOfCode(data) = Cardinality(E) + IF n \in {0} \cup E THEN 0 ELSE 1
  <2>1. CASE data = <<>>
    <3>1. n = 0 /\ E = {}
      BY <2>1 DEF LineEnds
    <3> HIDE DEF n, E
    <3> QED
      BY <1>5, <2>1, <3>1, FS_EmptySet
  <2>2. CASE data # <<>>
    <3>1. n \in 1 .. n
      BY <1>0, <2>2
    <3>2. n \in E <=> data[n] \in {LF, CR}
      BY <3>1 DEF LineEnds
    <3> HIDE DEF n, E
    <3> QED
      BY <1>5, <1>8, <2>2, <3>1, <3>2
  <2> QED
    BY <2>1, <2>2
<1> QED
  BY <1>9

-----------------------------------------------------------------------------
(* Blob#sloc.                                                               *)

Solid(data) == {i \in 1 .. Len(data) : ~IsSpace(data[i])}

\* That no line feed is at a place from i to k - 1.
NoFeed(data, i, k) == \A j \in i .. k - 1 : data[j] # LF

\* The line feeds that the loop counts from i on: the first, and those behind
\* which a line that is not blank ends.
Counts(data, i) ==
    {k \in i .. Len(data) :
        /\ data[k] = LF
        /\ \/ NoFeed(data, i, k)
           \/ \E m \in i .. k - 1 : m \in Solid(data) /\ NoFeed(data, m, k)}

\* The line feeds that are counted can be counted.
LEMMA CountsFinite ==
    ASSUME NEW data \in Seq(Characters), NEW i \in Int
    PROVE  IsFiniteSet(Counts(data, i)) /\ Cardinality(Counts(data, i)) \in Nat
<1>1. IsFiniteSet(i .. Len(data))
  BY FS_Interval
<1>2. IsFiniteSet(Counts(data, i))
  BY <1>1, FS_Subset DEF Counts
<1> QED
  BY <1>2, FS_CardinalityType

\* In a line the loop goes on by one.
LEMMA CountsInLine ==
    ASSUME NEW data \in Seq(Characters), NEW i \in 1 .. Len(data), data[i] # LF
    PROVE  Counts(data, i) = Counts(data, i + 1)
<1> SUFFICES ASSUME NEW k PROVE k \in Counts(data, i) <=> k \in Counts(data, i + 1)
  OBVIOUS
<1> DEFINE n == Len(data)
<1>0. n \in Nat /\ i \in 1 .. n
  OBVIOUS
<1> HIDE DEF n
<1>1. k \in i + 1 .. n => k \in i .. n
  BY <1>0
<1>2. ASSUME k \in i .. n, data[k] = LF PROVE k \in i + 1 .. n
  BY <1>0, <1>2
<1>3. ASSUME k \in i + 1 .. n PROVE NoFeed(data, i, k) <=> NoFeed(data, i + 1, k)
  BY <1>0, <1>3 DEF NoFeed
<1>4. ASSUME k \in i + 1 .. n, NEW m \in i .. k - 1, NoFeed(data, m, k), ~(m \in i + 1 .. k - 1)
      PROVE  NoFeed(data, i + 1, k)
  <2>1. m = i
    BY <1>0, <1>4
  <2> QED
    BY <1>3, <1>4, <2>1
<1>5. \A m \in i + 1 .. k - 1 : m \in i .. k - 1
  BY <1>0
<1> QED
  BY <1>1, <1>2, <1>3, <1>4, <1>5, Zenon DEF Counts, n

\* At its end the loop counts one, and goes on behind the blanks.
LEMMA CountsAtFeed ==
    ASSUME NEW data \in Seq(Characters), NEW i \in 1 .. Len(data), data[i] = LF,
           NEW e, StopsAt(i + 1, Len(data) + 1, Solid(data), e)
    PROVE  Counts(data, i) = Counts(data, e) \cup {i} /\ i \notin Counts(data, e)
<1> DEFINE n == Len(data)
<1>0. /\ n \in Nat /\ i \in 1 .. n /\ e \in i + 1 .. n + 1
      /\ e = n + 1 \/ e \in Solid(data)
      /\ \A j \in i + 1 .. e - 1 : j \notin Solid(data)
  BY DEF StopsAt
<1> HIDE DEF n
<1>1. i \notin Counts(data, e)
  BY <1>0 DEF Counts
<1>2. i \in Counts(data, i)
  <2>1. i \in i .. n /\ NoFeed(data, i, i)
    BY <1>0 DEF NoFeed
  <2> QED
    BY <2>1 DEF Counts, n
<1>3. i \notin Solid(data)
  BY DEF Solid, IsSpace
<1>4. ASSUME NEW k, k \in Counts(data, i), k # i PROVE k \in Counts(data, e)
  <2>1. k \in i + 1 .. n /\ data[k] = LF
    BY <1>0, <1>4 DEF Counts, n
  <2>2. ~NoFeed(data, i, k)
    BY <1>0, <2>1 DEF NoFeed
  <2>3. PICK m \in i .. k - 1 : m \in Solid(data) /\ NoFeed(data, m, k)
    BY <1>4, <2>2 DEF Counts
  <2>4. m \in e .. k - 1
    BY <1>0, <1>3, <2>1, <2>3
  <2>5. k \in e .. n
    BY <1>0, <2>1, <2>4
  <2> QED
    BY <2>1, <2>3, <2>4, <2>5 DEF Counts, n
<1>5. ASSUME NEW k, k \in Counts(data, e) PROVE k \in Counts(data, i)
  <2>1. k \in e .. n /\ data[k] = LF /\ e \in 1 .. n
    BY <1>0, <1>5 DEF Counts, n
  <2>2. k \notin Solid(data)
    BY <2>1 DEF Solid, IsSpace
  <2>3. k \in e + 1 .. n /\ e \in Solid(data)
    BY <1>0, <2>1, <2>2
  <2>4. PICK m \in e .. k - 1 : m \in Solid(data) /\ NoFeed(data, m, k)
    <3>1. e \in e .. k - 1
      BY <1>0, <2>3
    <3> QED
      BY <1>5, <2>3, <3>1 DEF Counts
  <2>5. m \in i .. k - 1 /\ k \in i .. n
    BY <1>0, <2>3
  <2> QED
    BY <2>1, <2>4, <2>5 DEF Counts, n
<1> QED
  BY <1>1, <1>2, <1>4, <1>5

SlocEq(g, data) ==
    g = [i \in 1 .. Len(data) + 1 |->
            IF i > Len(data) THEN 0
            ELSE IF data[i] = LF THEN 1 + g[Seek(i + 1, Len(data) + 1, Solid(data))]
            ELSE g[i + 1]]

\* Blob#sloc counts those line feeds, and the last line if it has none.
LEMMA SourceLinesIs ==
    ASSUME NEW data \in Seq(Characters), data # <<>>
    PROVE  SourceLines(data) =
               Cardinality(Counts(data, 1)) + IF data[Len(data)] = LF THEN 0 ELSE 1
<1> DEFINE n == Len(data)
           E(i) == Seek(i + 1, n + 1, Solid(data))
           F == [i \in 1 .. n + 1 |-> Cardinality(Counts(data, i))]
           G == CHOOSE g : SlocEq(g, data)
<1>0. n \in Nat
  OBVIOUS
<1>1. ASSUME NEW i \in 1 .. n
      PROVE  /\ StopsAt(i + 1, n + 1, Solid(data), E(i))
             /\ E(i) \in i + 1 .. n + 1 /\ i + 1 \in i + 1 .. n + 1
             /\ E(i) \in 1 .. n + 1 /\ i + 1 \in 1 .. n + 1
  <2> HIDE DEF n
  <2>1. i + 1 \in Int /\ n + 1 \in Int /\ i + 1 <= n + 1
    BY <1>0
  <2>2. StopsAt(i + 1, n + 1, Solid(data), E(i))
    BY <2>1, SeekIs
  <2> QED
    BY <1>0, <2>1, <2>2 DEF StopsAt
<1> HIDE DEF E
<1>2. ASSUME NEW i \in 1 .. n + 1
      PROVE  F[i] = IF i > n THEN 0 ELSE IF data[i] = LF THEN 1 + F[E(i)] ELSE F[i + 1]
  <2>1. CASE i > n
    <3>1. Counts(data, i) = {}
      BY <1>0, <2>1 DEF Counts
    <3> QED
      BY <2>1, <3>1, FS_EmptySet
  <2>2. CASE ~(i > n)
    <3>1. i \in 1 .. n
      BY <1>0, <2>2
    <3>2. CASE data[i] = LF
      <4>1. Counts(data, i) = Counts(data, E(i)) \cup {i} /\ i \notin Counts(data, E(i))
        BY <1>1, <3>1, <3>2, CountsAtFeed
      <4>2. IsFiniteSet(Counts(data, E(i))) /\ Cardinality(Counts(data, E(i))) \in Nat
        <5>1. E(i) \in Int
          BY <1>1, <3>1
        <5> QED
          BY <5>1, CountsFinite
      <4>3. Cardinality(Counts(data, i)) = Cardinality(Counts(data, E(i))) + 1
        BY <4>1, <4>2, FS_AddElement
      <4>4. F[i] = Cardinality(Counts(data, i)) /\ F[E(i)] = Cardinality(Counts(data, E(i)))
        BY <1>1, <3>1
      <4> HIDE DEF F
      <4> QED
        BY <2>2, <3>2, <4>2, <4>3, <4>4
    <3>3. CASE data[i] # LF
      <4>1. Counts(data, i) = Counts(data, i + 1)
        BY <3>1, <3>3, CountsInLine
      <4> QED
        BY <1>1, <2>2, <3>1, <3>3, <4>1
    <3> QED
      BY <3>2, <3>3
  <2> QED
    BY <2>1, <2>2
<1>3. SlocEq(F, data)
  BY <1>2 DEF SlocEq, F, E
<1>4. SlocEq(G, data) /\ SourceLines(data) = G[1] + IF data[n] = LF THEN 0 ELSE 1
  BY <1>3 DEF SourceLines, SlocEq, Solid
<1>5. F[1] = Cardinality(Counts(data, 1)) /\ 1 \in 1 .. n + 1
  BY <1>0
<1> HIDE DEF F, G
<1> DEFINE S == {i \in 1 .. n + 1 : G[i] = F[i]}
<1>6. ASSUME NEW i \in 1 .. n + 1, \A j \in i + 1 .. n + 1 : j \in S PROVE i \in S
  <2>1. G[i] = IF i > n THEN 0 ELSE IF data[i] = LF THEN 1 + G[E(i)] ELSE G[i + 1]
    BY <1>4 DEF SlocEq, E
  <2>2. i <= n => G[i + 1] = F[i + 1] /\ G[E(i)] = F[E(i)]
    BY <1>0, <1>1, <1>6
  <2> QED
    BY <1>0, <1>2, <2>1, <2>2
<1> HIDE DEF S
<1>7. 1 .. n + 1 \subseteq S
  <2> HIDE DEF n
  <2>1. 1 \in Int /\ n + 1 \in Int
    BY <1>0
  <2> QED
    BY <1>6, <2>1, Downward
<1>8. G[1] = F[1]
  BY <1>5, <1>7 DEF S
<1> QED
  BY <1>4, <1>5, <1>8

\* What Blob#sloc counts of any text: a blank line, too, at the very beginning
\* and at the end without a line feed.
CodeLines(data) ==
    {i \in LineStarts(data) : ~BlankAt(data, i) \/ i = 1 \/ ~EndedAt(data, i)}

\* The line feed that ends the line which begins at i.
EndOf(data, i) == Seek(i, Len(data) + 1, Feeds(data))

\* It is the first one that is not before i.
LEMMA EndOfIs ==
    ASSUME NEW data \in Seq(Characters), NEW i \in 1 .. Len(data), EndedAt(data, i)
    PROVE  /\ EndOf(data, i) \in i .. Len(data)
           /\ data[EndOf(data, i)] = LF
           /\ NoFeed(data, i, EndOf(data, i))
<1> DEFINE n == Len(data)
           e == EndOf(data, i)
<1>0. n \in Nat /\ i \in 1 .. n
  OBVIOUS
<1>1. StopsAt(i, n + 1, Feeds(data), e)
  <2>1. i \in Int /\ n + 1 \in Int /\ i <= n + 1
    BY <1>0
  <2> QED
    BY <2>1, SeekIs DEF EndOf
<1> HIDE DEF e
<1>2. PICK k \in i .. n : data[k] = LF
  BY DEF EndedAt
<1> HIDE DEF n
<1>3. /\ e \in i .. n + 1
      /\ e = n + 1 \/ e \in Feeds(data)
      /\ \A j \in i .. e - 1 : j \notin Feeds(data)
  BY <1>1 DEF StopsAt
<1>4. \A j \in 1 .. n : j \in Feeds(data) <=> data[j] = LF
  BY DEF Feeds, n
<1>5. e \in i .. n
  BY <1>0, <1>2, <1>3, <1>4
<1>6. data[e] = LF /\ NoFeed(data, i, e)
  BY <1>0, <1>3, <1>4, <1>5 DEF NoFeed
<1> QED
  BY <1>5, <1>6 DEF n, e

\* The line in which a place is begins before it, with no feed between.
LEMMA StartOfIs ==
    ASSUME NEW data \in Seq(Characters), NEW k \in 1 .. Len(data)
    PROVE  \E i \in LineStarts(data) : i \in 1 .. k /\ NoFeed(data, i, k)
<1> DEFINE n == Len(data)
           T == {d \in Nat : k - d \in LineStarts(data)}
<1>0. n \in Nat /\ k \in 1 .. n
  OBVIOUS
<1> HIDE DEF n
<1>1. \A i : i \in LineStarts(data) <=> i \in 1 .. n /\ (i = 1 \/ data[i - 1] = LF)
  BY DEF LineStarts, n
<1>2. k - 1 \in T
  BY <1>0, <1>1
<1>3. PICK d \in T : \A f \in T : d <= f
  BY <1>2, Least, T \in SUBSET Nat
<1>4. k - d \in 1 .. n /\ d \in Nat /\ k - d \in LineStarts(data)
  BY <1>1, <1>3
<1>5. ASSUME NEW j \in k - d .. k - 1 PROVE data[j] # LF
  <2>1. j + 1 \in 1 .. n /\ (j + 1) - 1 = j /\ k - (k - (j + 1)) = j + 1 /\ k - (j + 1) \in Nat
        /\ k - (j + 1) < d
    BY <1>0, <1>4
  <2> DEFINE f == k - (j + 1)
  <2>2. f \in Nat /\ ~(d <= f)
    BY <1>4, <2>1
  <2> HIDE DEF f, T
  <2>3. f \notin T
    BY <1>3, <2>2
  <2> USE DEF f, T
  <2>4. ~(k - (j + 1) \in T)
    BY <2>3
  <2> QED
    BY <1>1, <2>1, <2>4
<1> QED
  BY <1>0, <1>4, <1>5 DEF NoFeed

\* A feed that the loop counts ends one of these lines, and no other.
LEMMA SlocPairs ==
    ASSUME NEW data \in Seq(Characters), data # <<>>
    PROVE  LET A == {i \in CodeLines(data) : EndedAt(data, i)}
           IN  IsFiniteSet(A) /\ Cardinality(A) = Cardinality(Counts(data, 1))
<1> DEFINE n == Len(data)
           A == {i \in CodeLines(data) : EndedAt(data, i)}
           B == Counts(data, 1)
           f == [i \in A |-> EndOf(data, i)]
<1>0. n \in Nat \ {0}
  OBVIOUS
<1>1. \A i : i \in LineStarts(data) <=> i \in 1 .. n /\ (i = 1 \/ data[i - 1] = LF)
  BY DEF LineStarts
<1>2. \A i : i \in A => i \in LineStarts(data) /\ i \in 1 .. n /\ EndedAt(data, i)
  BY <1>1 DEF CodeLines
<1>3. ASSUME NEW i \in A
      PROVE  f[i] \in i .. n /\ data[f[i]] = LF /\ NoFeed(data, i, f[i])
  BY <1>2, EndOfIs
<1>4. ASSUME NEW i \in A PROVE f[i] \in B
  <2> DEFINE k == f[i]
  <2>1. k \in i .. n /\ data[k] = LF /\ NoFeed(data, i, k) /\ i \in 1 .. n
    BY <1>2, <1>3
  <2> HIDE DEF k, f
  <2>2. CASE i = 1
    BY <2>1, <2>2 DEF Counts, k
  <2>3. CASE ~BlankAt(data, i)
    <3>1. PICK m \in i .. n : ~IsSpace(data[m]) /\ \A j \in i .. m : data[j] # LF
      BY <2>3 DEF BlankAt
    <3> HIDE DEF n
    <3>2. m \in i .. k - 1 /\ m \in 1 .. n /\ m \in 1 .. k - 1 /\ k \in 1 .. n
      BY <1>0, <2>1, <3>1
    <3>3. NoFeed(data, m, k)
      BY <1>0, <2>1, <3>2 DEF NoFeed
    <3>4. m \in Solid(data)
      BY <3>1, <3>2 DEF Solid, n
    <3> QED
      BY <2>1, <3>2, <3>3, <3>4 DEF Counts, n, k
  <2>4. i = 1 \/ ~BlankAt(data, i)
    BY DEF CodeLines
  <2> QED
    BY <2>2, <2>3, <2>4
<1>5. ASSUME NEW i \in A, NEW j \in A, i # j, f[i] = f[j] PROVE FALSE
  <2>1. ASSUME NEW a \in A, NEW b \in A, a < b, f[a] = f[b] PROVE FALSE
    <3>1. a \in 1 .. n /\ b \in 1 .. n /\ f[b] \in b .. n /\ NoFeed(data, a, f[a])
      BY <1>2, <1>3
    <3>2. data[b - 1] = LF
      BY <1>0, <1>1, <1>2, <2>1, <3>1
    <3> HIDE DEF f, n
    <3>3. b - 1 \in a .. f[a] - 1
      BY <1>0, <2>1, <3>1
    <3> QED
      BY <3>1, <3>2, <3>3 DEF NoFeed
  <2>2. i \in Int /\ j \in Int
    BY <1>2
  <2>3. i < j \/ j < i
    BY <1>5, <2>2
  <2> QED
    BY <1>5, <2>1, <2>3
<1>6. ASSUME NEW k \in B PROVE \E i \in A : f[i] = k
  <2>1. k \in 1 .. n /\ data[k] = LF
    BY DEF Counts
  <2>2. PICK i \in LineStarts(data) : i \in 1 .. k /\ NoFeed(data, i, k)
    BY <2>1, StartOfIs
  <2> HIDE DEF n
  <2>3. i \in 1 .. n /\ k \in i .. n
    BY <1>0, <2>1, <2>2
  <2>4. EndedAt(data, i)
    BY <2>1, <2>3 DEF EndedAt, n
  <2>5. ASSUME i # 1 PROVE ~BlankAt(data, i)
    <3>1. i - 1 \in 1 .. k - 1 /\ data[i - 1] = LF
      BY <1>0, <1>1, <2>1, <2>2, <2>3, <2>5
    <3>2. ~NoFeed(data, 1, k)
      BY <3>1 DEF NoFeed
    <3>3. PICK m \in 1 .. k - 1 : m \in Solid(data) /\ NoFeed(data, m, k)
      BY <3>2 DEF Counts
    <3>4. m \in i .. k - 1
      <4> SUFFICES ASSUME m < i PROVE FALSE
        BY <2>2, <3>3
      <4>1. i - 1 \in m .. k - 1
        BY <3>1, <3>3, <2>2
      <4> QED
        BY <3>1, <3>3, <4>1 DEF NoFeed
    <3>5. m \in i .. n /\ ~IsSpace(data[m])
      BY <1>0, <2>1, <2>2, <3>3, <3>4 DEF Solid
    <3>6. \A j \in i .. m : data[j] # LF
      BY <2>1, <2>2, <3>4 DEF NoFeed
    <3> QED
      BY <3>5, <3>6 DEF BlankAt, n
  <2>6. i \in A
    BY <2>4, <2>5 DEF CodeLines
  <2>7. f[i] = k
    <3>1. f[i] \in i .. n /\ data[f[i]] = LF /\ NoFeed(data, i, f[i])
      BY <1>3, <2>6
    <3> HIDE DEF f
    <3> QED
      BY <1>0, <2>1, <2>2, <2>3, <3>1 DEF NoFeed
  <2> QED
    BY <2>6, <2>7
<1> HIDE DEF A, B
<1>7. f \in Bijection(A, B)
  <2>1. f \in [A -> B]
    BY <1>4
  <2>2. \A i, j \in A : f[i] = f[j] => i = j
    BY <1>5
  <2>3. \A k \in B : \E i \in A : f[i] = k
    BY <1>6
  <2> QED
    BY <2>1, <2>2, <2>3 DEF Bijection, Injection, Surjection, IsInjective
<1>8. IsFiniteSet(A)
  <2>1. IsFiniteSet(1 .. n)
    BY <1>0, FS_Interval
  <2> QED
    BY <1>2, <2>1, FS_Subset
<1>9. Cardinality(A) = Cardinality(B)
  BY <1>7, <1>8, FS_Bijection DEF ExistsBijection
<1> QED
  BY <1>8, <1>9 DEF A, B

\* Blob#sloc counts these lines.
LEMMA SlocIs ==
    ASSUME NEW data \in Seq(Characters)
    PROVE  SourceLines(data) = Cardinality(CodeLines(data))
<1> DEFINE n == Len(data)
           A == {i \in CodeLines(data) : EndedAt(data, i)}
<1>1. CASE data = <<>>
  <2>1. CodeLines(data) = {}
    BY <1>1 DEF CodeLines, LineStarts
  <2>2. SourceLines(data) = 0
    BY <1>1 DEF SourceLines
  <2> QED
    BY <2>1, <2>2, FS_EmptySet
<1>2. CASE data # <<>>
  <2>1. IsFiniteSet(A) /\ Cardinality(A) = Cardinality(Counts(data, 1))
    BY <1>2, SlocPairs
  <2>2. n \in Nat \ {0} /\ n \in 1 .. n
    BY <1>2
  <2>3. \A i : i \in LineStarts(data) <=> i \in 1 .. n /\ (i = 1 \/ data[i - 1] = LF)
    BY DEF LineStarts
  <2>4. CASE data[n] = LF
    <3>1. \A i \in LineStarts(data) : EndedAt(data, i)
      BY <2>2, <2>3, <2>4 DEF EndedAt
    <3>2. A = CodeLines(data)
      BY <3>1 DEF CodeLines
    <3> HIDE DEF A
    <3>3. SourceLines(data) = Cardinality(Counts(data, 1)) + 0
      BY <1>2, <2>4, SourceLinesIs
    <3>4. Cardinality(Counts(data, 1)) \in Nat
      BY CountsFinite
    <3> QED
      BY <2>1, <3>2, <3>3, <3>4
  <2>5. CASE data[n] # LF
    <3>1. PICK i \in LineStarts(data) : i \in 1 .. n /\ NoFeed(data, i, n)
      BY <2>2, StartOfIs
    <3>2. ~EndedAt(data, i)
      BY <2>2, <2>5, <3>1 DEF EndedAt, NoFeed
    <3>3. ASSUME NEW j \in LineStarts(data), ~EndedAt(data, j) PROVE j = i
      <4>1. j \in 1 .. n /\ i \in 1 .. n
        BY <2>3, <3>1
      <4>2. \A k \in j .. n : data[k] # LF
        BY <3>3 DEF EndedAt
      <4>3. \A k \in i .. n : data[k] # LF
        BY <3>2 DEF EndedAt
      <4>4. CASE j < i
        <5>1. i - 1 \in j .. n /\ data[i - 1] = LF
          BY <2>2, <2>3, <4>1, <4>4
        <5> QED
          BY <4>2, <5>1
      <4>5. CASE i < j
        <5>1. j - 1 \in i .. n /\ data[j - 1] = LF
          BY <2>2, <2>3, <4>1, <4>5
        <5> QED
          BY <4>3, <5>1
      <4> QED
        BY <4>1, <4>4, <4>5
    <3>4. CodeLines(data) = A \cup {i} /\ i \notin A
      BY <3>1, <3>2, <3>3 DEF CodeLines
    <3> HIDE DEF A
    <3>5. SourceLines(data) = Cardinality(Counts(data, 1)) + 1
      BY <1>2, <2>5, SourceLinesIs
    <3>6. Cardinality(A \cup {i}) = Cardinality(A) + 1
      BY <2>1, <3>4, FS_AddElement
    <3> QED
      BY <2>1, <3>4, <3>5, <3>6
  <2> QED
    BY <2>4, <2>5
<1> QED
  BY <1>1, <1>2

-----------------------------------------------------------------------------
(* Tree#count_recursive.                                                    *)

\* What CountRight counts.
Files(walk) == {i \in 1 .. Len(walk) : walk[i] # "tree"}
Below(i, S) == Cardinality({j \in S : j < i})
Reaches(max, n) == max >= 0 /\ n >= max
BeforeLimits(walk, entries, trees) ==
    {i \in Files(walk) :
        /\ ~Reaches(entries, Below(i, Files(walk)))
        /\ ~Reaches(trees, Below(i, (1 .. Len(walk)) \ Files(walk)))}

\* Of the first i entries the callback has counted some as trees, the others not.
LEMMA TreesAndFiles ==
    ASSUME NEW walk \in Seq({"blob", "tree"}), NEW i \in 0 .. Len(walk)
    PROVE  LET trees == Tally(walk, {"tree"})
           IN  /\ trees[i] \in Nat /\ i - trees[i] \in Nat
               /\ trees[i] = Below(i + 1, (1 .. Len(walk)) \ Files(walk))
               /\ i - trees[i] = Below(i + 1, Files(walk))
               /\ i - trees[i] = Cardinality({j \in Files(walk) : j <= i})
<1> DEFINE n == Len(walk)
           t == Tally(walk, {"tree"})[i]
           P == Places(walk, {"tree"}, i)
<1>0. n \in Nat /\ i \in 0 .. n /\ i \in Nat
  OBVIOUS
<1>1. t = Cardinality(P) /\ t \in Nat /\ IsFiniteSet(P)
  BY <1>0, TallyIs, PlacesFinite
<1> HIDE DEF t
<1>2. IsFiniteSet(1 .. i) /\ Cardinality(1 .. i) = i
  BY <1>0, FS_Interval
<1>3. P \subseteq 1 .. i
  BY DEF Places
<1>4. \A j : j \in P <=> j \in 1 .. i /\ walk[j] = "tree"
  BY DEF Places
<1>5. \A j : j \in Files(walk) <=> j \in 1 .. n /\ walk[j] # "tree"
  BY DEF Files
<1> HIDE DEF P, n
<1>6. IsFiniteSet((1 .. i) \ P) /\ Cardinality((1 .. i) \ P) = i - t
  <2>1. (1 .. i) \cap P = P
    BY <1>3
  <2>2. IsFiniteSet((1 .. i) \ P)
        /\ Cardinality((1 .. i) \ P) = Cardinality(1 .. i) - Cardinality((1 .. i) \cap P)
    BY <1>2, FS_Difference
  <2> QED
    BY <1>1, <1>2, <2>1, <2>2
<1>7. i - t \in Nat
  <2>1. Cardinality((1 .. i) \ P) \in Nat
    BY <1>6, FS_CardinalityType
  <2> QED
    BY <1>6, <2>1
<1>8. \A j \in 1 .. n : j < i + 1 <=> j \in 1 .. i
  BY <1>0
<1>9. \A j \in 1 .. n : j <= i <=> j \in 1 .. i
  BY <1>0
<1>10. \A j \in 1 .. i : j \in 1 .. n
  BY <1>0
<1>11. {j \in (1 .. n) \ Files(walk) : j < i + 1} = P
  BY <1>4, <1>5, <1>8, <1>10, Zenon
<1>12. {j \in Files(walk) : j < i + 1} = (1 .. i) \ P
  BY <1>4, <1>5, <1>8, <1>10, Zenon
<1>13. {j \in Files(walk) : j <= i} = (1 .. i) \ P
  BY <1>4, <1>5, <1>9, <1>10, Zenon
<1>14. t = Below(i + 1, (1 .. n) \ Files(walk))
  BY <1>1, <1>11 DEF Below
<1>15. i - t = Below(i + 1, Files(walk))
  BY <1>6, <1>12 DEF Below
<1>16. i - t = Cardinality({j \in Files(walk) : j <= i})
  BY <1>6, <1>13
<1> QED
  BY <1>1, <1>7, <1>14, <1>15, <1>16 DEF t, n

\* The counts only grow.
LEMMA BelowGrows ==
    ASSUME NEW n \in Nat, NEW S \in SUBSET (1 .. n), NEW i \in Int, NEW j \in Int, i <= j
    PROVE  /\ Below(i, S) \in Nat /\ Below(j, S) \in Nat
           /\ Below(i, S) <= Below(j, S)
<1>1. IsFiniteSet(1 .. n)
  BY FS_Interval
<1> DEFINE I == {k \in S : k < i}
           J == {k \in S : k < j}
<1>2. \A k \in S : k \in Int
  OBVIOUS
<1>3. \A k \in S : k < i => k < j
  BY <1>2
<1>4. I \in SUBSET J /\ J \in SUBSET (1 .. n)
  BY <1>3, Zenon
<1>5. Below(i, S) = Cardinality(I) /\ Below(j, S) = Cardinality(J)
  BY DEF Below
<1> HIDE DEF I, J
<1>6. IsFiniteSet(J)
  BY <1>1, <1>4, FS_Subset
<1>7. IsFiniteSet(I) /\ Cardinality(I) <= Cardinality(J)
  BY <1>4, <1>6, FS_Subset
<1>8. Cardinality(I) \in Nat /\ Cardinality(J) \in Nat
  BY <1>6, <1>7, FS_CardinalityType
<1> QED
  BY <1>5, <1>7, <1>8

\* The callback counts the files before the limits.
LEMMA EntryCountIs ==
    ASSUME NEW walk \in Seq({"blob", "tree"}), NEW entries \in Int, NEW trees \in Int
    PROVE  EntryCount(walk, entries, trees) = Cardinality(BeforeLimits(walk, entries, trees))
<1> DEFINE n == Len(walk)
           t == Tally(walk, {"tree"})
           full == {i \in 0 .. n : \/ entries >= 0 /\ i - t[i] >= entries
                                   \/ trees >= 0 /\ t[i] >= trees}
           e == Seek(0, n, full)
           others == (1 .. n) \ Files(walk)
<1>0. n \in Nat /\ Files(walk) \in SUBSET (1 .. n) /\ others \in SUBSET (1 .. n)
  BY DEF Files
<1>1. EntryCount(walk, entries, trees) = e - t[e]
  BY DEF EntryCount
<1>2. StopsAt(0, n, full, e)
  <2> HIDE DEF n, full
  <2> QED
    BY <1>0, SeekIs
<1>3. ASSUME NEW i \in 0 .. n
      PROVE  /\ t[i] = Below(i + 1, others) /\ i - t[i] = Below(i + 1, Files(walk))
             /\ i - t[i] = Cardinality({j \in Files(walk) : j <= i})
  BY TreesAndFiles
<1>4. \A i : i \in full <=>
          i \in 0 .. n /\ (Reaches(entries, i - t[i]) \/ Reaches(trees, t[i]))
  BY DEF Reaches
<1> HIDE DEF n, t, full, e, others
<1>5. e \in 0 .. n /\ (e = n \/ e \in full) /\ \A j \in 0 .. e - 1 : j \notin full
  BY <1>2 DEF StopsAt
<1>6. ASSUME NEW i \in Files(walk)
      PROVE  i <= e <=> /\ ~Reaches(entries, Below(i, Files(walk)))
                        /\ ~Reaches(trees, Below(i, others))
  <2>1. i \in 1 .. n /\ i - 1 \in 0 .. n /\ (i - 1) + 1 = i /\ i \in Int /\ e + 1 \in Int
    BY <1>0, <1>5
  <2>2. i - 1 \in full <=> \/ Reaches(entries, Below(i, Files(walk)))
                           \/ Reaches(trees, Below(i, others))
    BY <1>3, <1>4, <2>1
  <2>3. CASE i <= e
    <3>1. i - 1 \in 0 .. e - 1
      BY <1>5, <2>1, <2>3
    <3> QED
      BY <1>5, <2>2, <2>3, <3>1
  <2>4. CASE ~(i <= e)
    <3>1. e # n /\ e + 1 <= i
      BY <1>0, <1>5, <2>1, <2>4
    <3>2. \/ Reaches(entries, Below(e + 1, Files(walk)))
          \/ Reaches(trees, Below(e + 1, others))
      BY <1>3, <1>4, <1>5, <3>1
    <3>3. /\ Below(e + 1, Files(walk)) \in Nat /\ Below(i, Files(walk)) \in Nat
          /\ Below(e + 1, Files(walk)) <= Below(i, Files(walk))
      BY <1>0, <2>1, <3>1, BelowGrows
    <3>4. /\ Below(e + 1, others) \in Nat /\ Below(i, others) \in Nat
          /\ Below(e + 1, others) <= Below(i, others)
      BY <1>0, <2>1, <3>1, BelowGrows
    <3> QED
      BY <2>4, <3>2, <3>3, <3>4 DEF Reaches
  <2> QED
    BY <2>3, <2>4
<1>7. BeforeLimits(walk, entries, trees) = {j \in Files(walk) : j <= e}
  BY <1>6, Zenon DEF BeforeLimits, others, n
<1> QED
  BY <1>1, <1>3, <1>5, <1>7

-----------------------------------------------------------------------------
(* The invariant of Objects.                                                *)

ObjectType ==
    \/ object = NoObject
    \/ \E data \in Seq(Characters) : object = Blob(data)
    \/ \E walk \in Seq({"blob", "tree"}) : object = Tree(walk)

SlocExact ==
    answer.method = "sloc" => answer.count = Cardinality(CodeLines(object.data))

\* A method is called on an object, and answers what it should.
Answered ==
    /\ answer # NoAnswer => object # NoObject
    /\ TextRight /\ LocRight /\ SlocExact /\ CountRight

IoType ==
    /\ reading \in {"no", "read", "write", "commit", "failed"}
    /\ given \in Seq(Characters) /\ rest \in Seq(Characters) /\ written \in Seq(Characters)
    /\ chunk = Nil \/ chunk \in Seq(Characters)

\* As long as the blob is being made, nothing the IO has given is lost: it is
\* written, or is what the last read has returned.
Streamed ==
    /\ reading # "no" => object = NoObject
    /\ reading \in {"read", "commit"} => given = written \o rest
    /\ reading = "write" =>
           /\ chunk \in Seq(Characters) /\ Len(chunk) <= MaxLength
           /\ given = (written \o chunk) \o rest
    /\ reading = "commit" /\ rest # <<>> => chunk # Nil /\ Len(chunk) < MaxLength

ObjectsInv == ObjectType /\ Answered /\ IoType /\ Streamed /\ FromIoRight

\* What the kinds say of an object.
LEMMA ObjectKinds ==
    /\ ObjectType /\ object.kind = "blob" =>
           object # NoObject /\ object.data \in Seq(Characters) /\ object = Blob(object.data)
    /\ ObjectType /\ object.kind = "tree" =>
           object # NoObject /\ object.walk \in Seq({"blob", "tree"})
    /\ NoObject.kind = "none" /\ NoAnswer.method = "none"
    /\ \A data : Blob(data).kind = "blob" /\ Blob(data).data = data /\ Blob(data) # NoObject
BY DEF ObjectType, NoObject, Blob, Tree, NoAnswer

\* An object, or an IO that nothing has been read from, satisfies the invariant.
LEMMA ObjectsInitInv == ObjectsInit => ObjectsInv
<1> SUFFICES ASSUME ObjectsInit PROVE ObjectsInv
  OBVIOUS
<1>0. answer = NoAnswer /\ answer.method = "none" /\ given \in Seq(Characters)
      /\ <<>> \in Seq(Characters)
  BY ContentsAssumption, ObjectKinds, EmptySeq DEF ObjectsInit
<1>1. ObjectType
  BY ContentsAssumption DEF ObjectsInit, ObjectType
<1>2. Answered
  BY <1>0 DEF Answered, TextRight, LocRight, SlocExact, CountRight
<1>3. IoType
  BY <1>0 DEF IoType, ObjectsInit
<1>4. given = <<>> \o given
  BY <1>0, ConcatEmptySeq
<1>5. Streamed /\ (given # <<>> => object = NoObject)
  BY <1>0, <1>4 DEF Streamed, ObjectsInit
<1>6. FromIoRight
  BY <1>5, ObjectKinds DEF FromIoRight
<1> QED
  BY <1>1, <1>2, <1>3, <1>5, <1>6 DEF ObjectsInv

\* A method that answers rightly keeps the invariant.
LEMMA AnswersStep ==
    ASSUME ObjectsInv, NEW a, Answers(a), object # NoObject,
           TextRight', LocRight', SlocExact', CountRight'
    PROVE  ObjectsInv'
<1>1. UNCHANGED <<object, given, rest, chunk, written, reading>>
  BY DEF Answers, io
<1>2. ObjectType' /\ IoType' /\ Streamed' /\ FromIoRight'
  BY <1>1 DEF ObjectsInv, ObjectType, IoType, Streamed, FromIoRight
<1>3. Answered'
  BY <1>1 DEF Answered
<1> QED
  BY <1>2, <1>3 DEF ObjectsInv

\* Blob#text keeps the invariant.
LEMMA TextStep ==
    ASSUME ObjectsInv, NEW m \in Limits, Text(m) PROVE ObjectsInv'
<1> DEFINE text == SubSeq(object.data, 1, TextSize(object.data, m))
           a == [method |-> "text", max |-> m, text |-> text]
<1>1. object.kind = "blob" /\ Answers(a) /\ answer' = a /\ object' = object
  BY DEF Text, Answers
<1>2. object # NoObject /\ object.data \in Seq(Characters) /\ m \in Int
  BY <1>1, ObjectKinds, ContentsAssumption DEF ObjectsInv
<1>3. IsText(object.data, m, text)
  BY <1>2, TextIs
<1> HIDE DEF text
<1>4. answer'.method = "text" /\ answer'.max = m /\ answer'.text = text
  BY <1>1
<1>5. TextRight'
  BY <1>1, <1>3, <1>4 DEF TextRight, IsText
<1>6. LocRight' /\ SlocExact' /\ CountRight'
  BY <1>4 DEF LocRight, SlocExact, CountRight
<1> HIDE DEF a
<1> QED
  BY <1>1, <1>2, <1>5, <1>6, AnswersStep

\* Blob#loc keeps the invariant.
LEMMA LocStep ==
    ASSUME ObjectsInv, Loc PROVE ObjectsInv'
<1> DEFINE c == LinesOfCode(object.data)
           a == [method |-> "loc", count |-> c]
<1>1. object.kind = "blob" /\ Answers(a) /\ answer' = a /\ object' = object
  BY DEF Loc, Answers
<1>2. object # NoObject /\ object.data \in Seq(Characters)
  BY <1>1, ObjectKinds DEF ObjectsInv
<1>3. c = Cardinality(LineEnds(object.data)) +
          IF Len(object.data) \in {0} \cup LineEnds(object.data) THEN 0 ELSE 1
  BY <1>2, LinesOfCodeIs
<1> HIDE DEF c
<1>4. answer'.method = "loc" /\ answer'.count = c
  BY <1>1
<1>5. LocRight'
  BY <1>1, <1>3, <1>4 DEF LocRight, LineEnds
<1>6. TextRight' /\ SlocExact' /\ CountRight'
  BY <1>4 DEF TextRight, SlocExact, CountRight
<1> HIDE DEF a
<1> QED
  BY <1>1, <1>2, <1>5, <1>6, AnswersStep

\* Blob#sloc keeps the invariant.
LEMMA SlocStep ==
    ASSUME ObjectsInv, Sloc PROVE ObjectsInv'
<1> DEFINE c == SourceLines(object.data)
           a == [method |-> "sloc", count |-> c]
<1>1. object.kind = "blob" /\ Answers(a) /\ answer' = a /\ object' = object
  BY DEF Sloc, Answers
<1>2. object # NoObject /\ object.data \in Seq(Characters)
  BY <1>1, ObjectKinds DEF ObjectsInv
<1>3. c = Cardinality(CodeLines(object.data))
  BY <1>2, SlocIs
<1> HIDE DEF c
<1>4. answer'.method = "sloc" /\ answer'.count = c
  BY <1>1
<1>5. SlocExact'
  BY <1>1, <1>3, <1>4 DEF SlocExact
<1>6. TextRight' /\ LocRight' /\ CountRight'
  BY <1>4 DEF TextRight, LocRight, CountRight
<1> HIDE DEF a
<1> QED
  BY <1>1, <1>2, <1>5, <1>6, AnswersStep

\* Tree#count_recursive keeps the invariant.
LEMMA CountStep ==
    ASSUME ObjectsInv, NEW m \in Limits, NEW t \in Limits, CountRecursive(m, t)
    PROVE  ObjectsInv'
<1> DEFINE r == TreeLimit(m, t)
           c == EntryCount(object.walk, m, r)
           a == [method |-> "count_recursive", entries |-> m, trees |-> r, count |-> c]
<1>1. object.kind = "tree" /\ Answers(a) /\ answer' = a /\ object' = object
  BY DEF CountRecursive, Answers
<1>2. object # NoObject /\ object.walk \in Seq({"blob", "tree"}) /\ m \in Int /\ r \in Int
  BY <1>1, ObjectKinds, ContentsAssumption DEF ObjectsInv, TreeLimit
<1> HIDE DEF r
<1>3. c = Cardinality(BeforeLimits(object.walk, m, r))
  BY <1>2, EntryCountIs
<1> HIDE DEF c
<1>4. /\ answer'.method = "count_recursive" /\ answer'.count = c
      /\ answer'.entries = m /\ answer'.trees = r
  BY <1>1
<1>5. CountRight'
  BY <1>1, <1>3, <1>4 DEF CountRight, BeforeLimits, Files, Below, Reaches
<1>6. TextRight' /\ LocRight' /\ SlocExact'
  BY <1>4 DEF TextRight, LocRight, SlocExact
<1> HIDE DEF a
<1> QED
  BY <1>1, <1>2, <1>5, <1>6, AnswersStep

\* What reads and writes leave alone.
LEMMA IoStep ==
    ASSUME ObjectsInv, UNCHANGED <<object, answer, given>>, reading # "no", reading' # "no",
           IoType', Streamed'
    PROVE  ObjectsInv'
<1>1. object = NoObject /\ object.kind = "none"
  BY ObjectKinds DEF ObjectsInv, Streamed
<1>2. ObjectType' /\ Answered' /\ FromIoRight'
  BY <1>1 DEF ObjectsInv, ObjectType, Answered, FromIoRight, TextRight, LocRight,
              SlocExact, CountRight
<1> QED
  BY <1>2 DEF ObjectsInv

\* A read splits the rest into the chunk and the new rest.
LEMMA ReadStep ==
    ASSUME ObjectsInv, Read PROVE ObjectsInv'
<1>0. /\ UNCHANGED <<object, answer, given, written>> /\ reading = "read"
      /\ IoType /\ given = written \o rest /\ object = NoObject
  BY DEF Read, ObjectsInv, Streamed
<1>1. CASE rest = <<>> /\ chunk' = Nil /\ reading' = "commit" /\ UNCHANGED rest
  <2>1. IoType' /\ Streamed'
    BY <1>0, <1>1 DEF IoType, Streamed
  <2> QED
    BY <1>0, <1>1, <2>1, IoStep
<1>2. ASSUME NEW n \in 0 .. Min({MaxLength, Len(rest)}), chunk' = SubSeq(rest, 1, n),
             rest' = SubSeq(rest, n + 1, Len(rest)), reading' = "write"
      PROVE  ObjectsInv'
  <2>1. rest \in Seq(Characters) /\ written \in Seq(Characters) /\ Len(rest) \in Nat
        /\ MaxLength \in Nat
    BY <1>0, MaxLengthAssumption DEF IoType
  <2>2. n \in 0 .. Len(rest) /\ n <= MaxLength
    <3> DEFINE T == {MaxLength, Len(rest)}
    <3>1. \E x \in T : \A y \in T : x <= y
      BY <2>1
    <3>2. Min(T) \in T /\ \A y \in T : Min(T) <= y
      BY <3>1 DEF Min
    <3> QED
      BY <2>1, <3>2
  <2>3. \A i \in 1 .. Len(rest) : rest[i] \in Characters
    BY <2>1
  <2>4. chunk' \in Seq(Characters) /\ Len(chunk') = n
    <3>1. \A i \in 1 .. n : rest[i] \in Characters
      BY <2>1, <2>2, <2>3
    <3> QED
      BY <1>2, <2>1, <2>2, <3>1, SubSeqProperties
  <2>5. rest' \in Seq(Characters)
    <3>1. \A i \in n + 1 .. Len(rest) : rest[i] \in Characters
      BY <2>1, <2>2, <2>3
    <3> QED
      BY <1>2, <2>1, <2>2, <3>1, SubSeqProperties
  <2>6. chunk' \o rest' = rest
    <3>1. n \in 1 - 1 .. Len(rest) /\ Len(rest) \in n .. Len(rest) /\ 1 \in 1 .. Len(rest) + 1
      BY <2>1, <2>2
    <3>2. SubSeq(rest, 1, n) \o SubSeq(rest, n + 1, Len(rest)) = SubSeq(rest, 1, Len(rest))
      BY <2>1, <3>1, ConcatAdjacentSubSeq
    <3> QED
      BY <1>2, <2>1, <3>2, SubSeqFull
  <2>7. given = (written \o chunk') \o rest'
    <3>1. ASSUME NEW s \in Seq(Characters), NEW t \in Seq(Characters), NEW u \in Seq(Characters)
          PROVE  (s \o t) \o u = s \o (t \o u)
      BY ConcatAssociative
    <3>2. (written \o chunk') \o rest' = written \o (chunk' \o rest')
      BY <2>1, <2>4, <2>5, <3>1
    <3> QED
      BY <1>0, <2>6, <3>2
  <2>8. IoType'
    BY <1>0, <1>2, <2>4, <2>5 DEF IoType
  <2>9. Streamed'
    BY <1>0, <1>2, <2>2, <2>4, <2>7 DEF Streamed
  <2> QED
    BY <1>0, <1>2, <2>8, <2>9, IoStep
<1> QED
  BY <1>1, <1>2 DEF Read

\* A write moves the chunk; the loop ends if it was short.
LEMMA WriteStep ==
    ASSUME ObjectsInv, Write PROVE ObjectsInv'
<1>1. /\ UNCHANGED <<object, answer, given, rest, chunk>> /\ reading = "write"
      /\ IoType /\ object = NoObject /\ given = (written \o chunk) \o rest
      /\ chunk \in Seq(Characters) /\ Len(chunk) <= MaxLength /\ written' = written \o chunk
      /\ reading' = IF Len(chunk) = MaxLength THEN "read" ELSE "commit"
  BY DEF Write, ObjectsInv, Streamed
<1>2. written' \in Seq(Characters) /\ Len(chunk) \in Nat /\ MaxLength \in Nat
  BY <1>1, ConcatProperties, MaxLengthAssumption DEF IoType
<1>3. IoType'
  BY <1>1, <1>2 DEF IoType
<1>4. chunk # Nil
  <2> SUFFICES ASSUME chunk = Nil PROVE FALSE
    OBVIOUS
  <2>1. Len(chunk) = 1 /\ chunk[1] = "nil"
    BY DEF Nil
  <2>2. chunk[1] \in Characters
    <3>1. 1 \in 1 .. Len(chunk)
      BY <2>1
    <3> QED
      BY <1>1, <3>1, ElementOfSeq
  <2> QED
    BY <2>1, <2>2, ContentsAssumption
<1>5. Streamed'
  BY <1>1, <1>2, <1>4 DEF Streamed
<1> QED
  BY <1>1, <1>3, <1>5, IoStep

\* A loop that fails leaves no object.
LEMMA FailStep ==
    ASSUME ObjectsInv, ReadRaises \/ WriteFails PROVE ObjectsInv'
<1>1. /\ UNCHANGED <<object, answer, given, rest, chunk, written>>
      /\ reading \in {"read", "write", "commit"} /\ reading' = "failed"
  BY DEF ReadRaises, WriteFails
<1>2. IoType' /\ Streamed'
  BY <1>1 DEF ObjectsInv, IoType, Streamed
<1> QED
  BY <1>1, <1>2, IoStep

\* The commit makes the blob of what was written.
LEMMA CommitStep ==
    ASSUME ObjectsInv, Commit PROVE ObjectsInv'
<1>1. /\ UNCHANGED <<answer, given, rest, chunk, written>> /\ reading = "commit"
      /\ reading' = "no" /\ object' = Blob(written)
      /\ object = NoObject /\ answer = NoAnswer /\ given = written \o rest
      /\ rest # <<>> => chunk # Nil /\ Len(chunk) < MaxLength
      /\ written \in Seq(Characters)
  BY DEF Commit, ObjectsInv, Streamed, Answered, IoType
<1>2. ObjectType'
  BY <1>1 DEF ObjectType
<1>3. Answered'
  BY <1>1, ObjectKinds DEF Answered, TextRight, LocRight, SlocExact, CountRight
<1>4. IoType' /\ Streamed'
  BY <1>1 DEF ObjectsInv, IoType, Streamed
<1>5. object'.data = written
  BY <1>1, ObjectKinds
<1>6. FromIoRight'
  BY <1>1, <1>5 DEF FromIoRight
<1> QED
  BY <1>2, <1>3, <1>4, <1>6 DEF ObjectsInv

\* Every step keeps the invariant.
LEMMA ObjectsStep == ObjectsInv /\ [ObjectsNext]_objectsVars => ObjectsInv'
<1> SUFFICES ASSUME ObjectsInv, [ObjectsNext]_objectsVars PROVE ObjectsInv'
  OBVIOUS
<1>1. ASSUME NEW m \in Limits, Text(m) PROVE ObjectsInv'
  BY <1>1, TextStep
<1>2. CASE Loc
  BY <1>2, LocStep
<1>3. CASE Sloc
  BY <1>3, SlocStep
<1>4. ASSUME NEW m \in Limits, NEW t \in Limits, CountRecursive(m, t) PROVE ObjectsInv'
  BY <1>4, CountStep
<1>5. CASE Read
  BY <1>5, ReadStep
<1>6. CASE Write
  BY <1>6, WriteStep
<1>7. CASE ReadRaises \/ WriteFails
  BY <1>7, FailStep
<1>8. CASE Commit
  BY <1>8, CommitStep
<1>9. CASE UNCHANGED objectsVars
  BY <1>9 DEF objectsVars, io, ObjectsInv, ObjectType, Answered, IoType, Streamed,
              FromIoRight, TextRight, LocRight, SlocExact, CountRight
<1> QED
  BY <1>1, <1>2, <1>3, <1>4, <1>5, <1>6, <1>7, <1>8, <1>9 DEF ObjectsNext

\* The invariant of Objects always holds.
LEMMA ObjectsInvariant == ObjectsSpec => []ObjectsInv
<1>1. ObjectsInit => ObjectsInv
  BY ObjectsInitInv
<1>2. ObjectsInv /\ [ObjectsNext]_objectsVars => ObjectsInv'
  BY ObjectsStep
<1> QED
  BY <1>1, <1>2, PTL DEF ObjectsSpec

\* Blob#text is the whole text or ends with the line feed of the last line that
\* is asked for, for every blob and every number of lines.
THEOREM TextCorrect == ObjectsSpec => []TextRight
<1>1. ObjectsInv => TextRight
  BY DEF ObjectsInv, Answered
<1> QED
  BY <1>1, ObjectsInvariant, PTL

\* Blob#loc counts the ends of lines in all three conventions, for every blob;
\* Blob#sloc the lines that are not blank, for every blob that neither begins with
\* a blank line nor ends in one without a line feed.
THEOREM LinesCorrect == ObjectsSpec => []LinesRight
<1>1. ASSUME SlocExact PROVE SlocRight
  <2> DEFINE data == object.data
             blank == {i \in LineStarts(data) : BlankAt(data, i)}
  <2> SUFFICES ASSUME answer.method = "sloc", \A i \in blank : i # 1 /\ EndedAt(data, i)
               PROVE  answer.count = Cardinality(LineStarts(data) \ blank)
    BY DEF SlocRight
  <2>1. CodeLines(data) = LineStarts(data) \ blank
    BY DEF CodeLines
  <2> QED
    BY <1>1, <2>1 DEF SlocExact
<1>2. ObjectsInv => LinesRight
  BY <1>1 DEF ObjectsInv, Answered, LinesRight
<1> QED
  BY <1>2, ObjectsInvariant, PTL

\* Tree#count_recursive counts the files that come before the place at which a
\* limit is reached, for every tree and all limits.
THEOREM CountCorrect == ObjectsSpec => []CountRight
<1>1. ObjectsInv => CountRight
  BY DEF ObjectsInv, Answered
<1> QED
  BY <1>1, ObjectsInvariant, PTL

\* A blob that Blob.from_io has made is what was read, whatever the sizes of the
\* reads, and all there is unless the last read was short.
THEOREM FromIoCorrect == ObjectsSpec => []FromIoRight
<1>1. ObjectsInv => FromIoRight
  BY DEF ObjectsInv
<1> QED
  BY <1>1, ObjectsInvariant, PTL

=============================================================================
