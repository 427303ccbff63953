-------------------------------- MODULE Walk --------------------------------
(***************************************************************************)
(* Walking commits: Walker.walk, which makes a walker, walks once and      *)
(* frees it, and Walker#each and #each_oid, which walk with a walker that  *)
(* the program keeps and that its block may use while it walks.            *)
(*                                                                         *)
(* :offset and :limit are counted down in two uint64_t.                    *)
(***************************************************************************)
EXTENDS Naturals, Sequences, Descent

CONSTANTS
    Commits,
    UINT64_MAX,
    Histories,  \* bound: what a walker can be set up to walk
    Options     \* bound: the values that programs give for :offset and :limit

ASSUME LimitsAssumption ==
    /\ UINT64_MAX \in Nat \ {0}
    /\ Options \subseteq 0 .. UINT64_MAX
ASSUME HistoriesAssumption ==
    /\ <<>> \in Histories
    /\ Histories \subseteq Seq(Commits)
    /\ \A h \in Histories : Len(h) < UINT64_MAX

VARIABLES
    list,       \* the commits that the walker walks
    pos,        \* how many of them git_revwalk_next has returned
    allocated,  \* whether the walker of Walker.walk is allocated
    pc,         \* where the method is
    method,     \* Walker.walk or Walker#each
    offset,     \* w.offset and w.limit
    limit,
    asked,      \* what they were when the walk began, with the walker's list
    start,      \* and position
    disturbed,  \* whether the block has used the walker since
    yielded,    \* the commits that the block was given
    raised,     \* whether the block has raised
    outcome     \* how the method ended

vars == <<list, pos, allocated, pc, method, offset, limit, asked, start,
          disturbed, yielded, raised, outcome>>

walker == <<list, pos, allocated>>
window == <<asked, start, disturbed>>

UInt64 == 0 .. UINT64_MAX

TypeOK ==
    /\ list \in Histories
    /\ pos \in 0 .. Len(list)
    /\ allocated \in BOOLEAN
    /\ pc \in {"idle", "options", "next", "block", "free"}
    /\ method \in {"walk", "each"}
    /\ offset \in UInt64 /\ limit \in UInt64
    /\ asked \in [offset: UInt64, limit: UInt64, list: Histories]
    /\ start \in Nat
    /\ disturbed \in BOOLEAN
    /\ yielded \in Seq(Commits)
    /\ raised \in BOOLEAN
    /\ outcome \in {"pending", "returned", "raised", "failed"}

Init ==
    /\ list \in Histories
    /\ pos = 0
    /\ allocated = FALSE
    /\ pc = "idle"
    /\ method \in {"walk", "each"}
    /\ offset = 0
    /\ limit = UINT64_MAX
    /\ asked = [offset |-> 0, limit |-> UINT64_MAX, list |-> <<>>]
    /\ start = 0
    /\ disturbed = FALSE
    /\ yielded = <<>>
    /\ raised = FALSE
    /\ outcome = "pending"

-----------------------------------------------------------------------------
(* The program, outside of a walk.                                          *)

\* walker.push, hide, sorting, reset, count: what the walker will walk changes.
SetUp(h) ==
    /\ pc = "idle"
    /\ list' = h
    /\ pos' = 0
    /\ UNCHANGED <<allocated, pc, method, offset, limit, window, yielded, raised, outcome>>

\* Walker#each begins with the walker as the last walk has left it, Walker.walk
\* with a new one.
Call(m) ==
    /\ pc = "idle"
    /\ pc' = "options"
    /\ method' = m
    /\ allocated' = (m = "walk")
    /\ IF m = "walk" THEN list' = <<>> /\ pos' = 0 ELSE UNCHANGED <<list, pos>>
    /\ offset' = 0
    /\ limit' = UINT64_MAX
    /\ yielded' = <<>>
    /\ raised' = FALSE
    /\ outcome' = "pending"
    /\ UNCHANGED window

\* The way out of a method: git_revwalk_free is called for Walker.walk, also
\* when an exception is to be raised again.
Leave(how) ==
    /\ outcome' = how
    /\ pc' = IF method = "walk" THEN "free" ELSE "idle"

\* Mutant: rb_jump_tag comes before git_revwalk_free.
Free_JumpFirst ==
    /\ pc = "free"
    /\ pc' = "idle"
    /\ allocated' = (outcome # "returned")
    /\ UNCHANGED <<list, pos, method, offset, limit, window, yielded, raised, outcome>>

Free ==
    /\ pc = "free"
    /\ pc' = "idle"
    /\ allocated' = FALSE
    /\ UNCHANGED <<list, pos, method, offset, limit, window, yielded, raised, outcome>>

\* load_walk_limits, and for Walker.walk load_all_options, which sets up the
\* new walker.
LoadOptions(o, l, h) ==
    /\ pc = "options"
    /\ pc' = "next"
    /\ offset' = o
    /\ limit' = l
    /\ list' = IF method = "walk" THEN h ELSE list
    /\ asked' = [offset |-> o, limit |-> l, list |-> list']
    /\ start' = pos
    /\ disturbed' = FALSE
    /\ UNCHANGED <<pos, allocated, method, yielded, raised, outcome>>

\* An option has the wrong class or a tip does not exist.
RefuseOptions ==
    /\ pc = "options"
    /\ Leave("failed")
    /\ UNCHANGED <<walker, method, offset, limit, window, yielded, raised>>

-----------------------------------------------------------------------------
(* do_walk                                                                  *)

More == pos < Len(list)

\* Mutant: the commit at which the offset ends is skipped too.
Skip_OneMore ==
    /\ pc = "next"
    /\ More
    /\ offset > 0
    /\ pos' = IF offset = 1 THEN pos + 2 ELSE pos + 1
    /\ offset' = offset - 1
    /\ UNCHANGED <<list, allocated, pc, method, limit, window, yielded, raised, outcome>>

Skip ==
    /\ pc = "next"
    /\ More
    /\ offset > 0
    /\ pos' = pos + 1
    /\ offset' = offset - 1
    /\ UNCHANGED <<list, allocated, pc, method, limit, window, yielded, raised, outcome>>

\* The commit is looked up and the block begins.
Yield ==
    /\ pc = "next"
    /\ More
    /\ offset = 0
    /\ pos' = pos + 1
    /\ yielded' = Append(yielded, list[pos + 1])
    /\ pc' = "block"
    /\ UNCHANGED <<list, allocated, method, offset, limit, window, raised, outcome>>

\* The block uses the walker that it is called from: reset, push, count or
\* another walk.  It has no hold of the one of Walker.walk.
Disturb(h) ==
    /\ pc = "block"
    /\ method = "each"
    /\ list' = h
    /\ pos' = 0
    /\ disturbed' = TRUE
    /\ UNCHANGED <<allocated, pc, method, offset, limit, asked, start, yielded, raised, outcome>>

\* Mutant: a block that has used the walker is given the same commit again.
BlockReturns_Again ==
    /\ pc = "block"
    /\ limit' = IF disturbed THEN limit ELSE IF limit = 0 THEN UINT64_MAX ELSE limit - 1
    /\ IF limit' = 0 THEN Leave("returned")
       ELSE pc' = (IF disturbed THEN "block" ELSE "next") /\ UNCHANGED outcome
    /\ disturbed' = FALSE
    /\ UNCHANGED <<walker, method, offset, asked, start, yielded, raised>>

\* if (--w->limit == 0) break;  A limit of 0 becomes UINT64_MAX.
BlockReturns ==
    /\ pc = "block"
    /\ limit' = IF limit = 0 THEN UINT64_MAX ELSE limit - 1
    /\ IF limit' = 0 THEN Leave("returned") ELSE pc' = "next" /\ UNCHANGED outcome
    /\ UNCHANGED <<walker, method, offset, window, yielded, raised>>

BlockRaises ==
    /\ pc = "block"
    /\ raised' = TRUE
    /\ Leave("raised")
    /\ UNCHANGED <<walker, method, offset, limit, window, yielded>>

\* GIT_ITEROVER.  libgit2 resets a walker that has come to its end.
WalkEnds ==
    /\ pc = "next"
    /\ ~More
    /\ list' = <<>>
    /\ pos' = 0
    /\ Leave("returned")
    /\ UNCHANGED <<allocated, method, offset, limit, window, yielded, raised>>

\* git_revwalk_next or git_commit_lookup fails.
WalkFails ==
    /\ pc = "next"
    /\ Leave("failed")
    /\ UNCHANGED <<walker, method, offset, limit, window, yielded, raised>>

Next ==
    \/ \E h \in Histories : SetUp(h) \/ Disturb(h)
    \/ \E m \in {"walk", "each"} : Call(m)
    \/ \E o, l \in Options, h \in Histories : LoadOptions(o, l, h)
    \/ RefuseOptions
    \/ Skip \/ Yield
    \/ BlockReturns \/ BlockRaises
    \/ WalkEnds \/ WalkFails
    \/ Free

Spec == Init /\ [][Next]_vars

\* What the methods do themselves.
Step ==
    \/ \E o, l \in Options, h \in Histories : LoadOptions(o, l, h)
    \/ RefuseOptions
    \/ Skip \/ Yield \/ WalkEnds \/ WalkFails
    \/ Free

\* A method goes on in the thread that has called it, and a block ends.  The
\* block may use the walker before that, as often as it likes; and nothing makes
\* the program call a method.
FairSpec ==
    /\ Spec
    /\ WF_vars(Step)
    /\ WF_vars(BlockReturns \/ BlockRaises)

-----------------------------------------------------------------------------
(* Properties                                                               *)

\* The block is given the commits from :offset on, in order, none twice and
\* none left out.  If the method returns, it was given :limit of them or all.
\* This is for a block that leaves the walker alone.
Window ==
    ~disturbed =>
        LET first == start + asked.offset
            n == Len(yielded)
        IN  /\ \A i \in 1 .. n : first + i <= Len(asked.list) /\ yielded[i] = asked.list[first + i]
            /\ outcome = "returned" =>
                   (asked.limit > 0 /\ n = asked.limit) \/ first + n >= Len(asked.list)

\* The block runs at most :limit times, whatever it does with the walker; a
\* limit of 0 is no limit.
LimitHolds == asked.limit > 0 => Len(yielded) <= asked.limit

\* Walker.walk has freed its walker whenever the program runs again, but for
\* the block.
Freed == pc = "idle" => ~allocated

\* Walker.walk always comes to the point where it frees its walker: however the
\* walk ends, no way out jumps over it.
EventuallyFreed == allocated ~> ~allocated

\* What a method has left to do: parts of it, runs of the block, and commits to
\* be passed before the next run.
Part == CASE pc = "options" -> 3 [] pc \in {"next", "block"} -> 2 [] pc = "free" -> 1 [] OTHER -> 0
Runs == IF limit = 0 THEN UINT64_MAX + 1 ELSE limit
Ahead == IF pc = "next" THEN Len(list) - pos + 1 ELSE 0
Left == <<Part, Runs, Ahead>>

\* Every step of a walk, and every end of its block, brings the end of the method
\* nearer.  What the block does with the walker does not put it off: the counter
\* of the limit goes down all the same, if there is no limit from UINT64_MAX.
EndsSooner ==
    [][pc # "idle" =>
         \/ Before(Left', Left)
         \/ Left' = Left /\ \E h \in Histories : Disturb(h)]_vars

\* A walk with a :limit ends, even when its block resets the walker that it is
\* called from at every commit; without one such a walk ends only after more
\* runs of the block than a uint64_t can count.
LimitedEnds == pc = "next" /\ asked.limit > 0 ~> pc = "idle"

=============================================================================
