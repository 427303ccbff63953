--------------------------- MODULE WorktreeProofs ---------------------------
(***************************************************************************)
(* What Repository#checkout does, proved for any number of processes,      *)
(* commits, branches and files.                                            *)
(*                                                                         *)
(* The invariant follows one call that nothing else disturbs from step to  *)
(* step: how HEAD, the files and the target stand to each other before the *)
(* files are written, between the files and HEAD, and at the end.          *)
(***************************************************************************)
EXTENDS Worktree, TLAPS

Ends4 == {"pending", "returned", "raised", "dead"}

\* A call has the fields of a call.
Shaped(c) ==
    /\ c = [how |-> c.how, kind |-> c.kind, branch |-> c.branch, commit |-> c.commit,
            strategy |-> c.strategy, todo |-> c.todo, since |-> c.since]
    /\ c.strategy \in Strategies

Typed ==
    /\ tips \in [Branches -> Commits \union {Absent}]
    /\ \A p \in Processes : call[p].how # "none" => Shaped(call[p])

HeadTreeAt(h, t) == Tree(IF h \in Branches THEN t[h] ELSE h)

\* No file has been written yet: what the user had changed still is so.
Untouched(c, h, t, F) ==
    c.since.changed = {f \in Paths : F[f] \notin {HeadTreeAt(h, t)[f], Tree(c.commit)[f]}}

\* What was untracked still is.
Apart(c, h, t, I) ==
    c.since.untracked =
        {f \in Paths \ I :
            Tree(c.commit)[f] = NoFile /\ (HeadTreeAt(h, t)[f] = NoFile \/ c.kind = "commit")}

\* The files are those of the commit that was looked up, but for some of the user's.
Written(c, F) ==
    \A f \in Paths : F[f] = Tree(c.commit)[f] \/ f \in Spared(c)

CleanAt(c, h, t, F) ==
    \A f \in Paths : F[f] = HeadTreeAt(h, t)[f] \/ f \in Spared(c)

\* The user's files are as they were.
Kept(c, F) == \A f \in Spared(c) : f \in Paths /\ F[f] = c.since.files[f]

HeadReady(c, h, t, F, I) ==
    /\ c.kind = "head" /\ c.todo = <<"files">>
    /\ c.commit = IF h \in Branches THEN t[h] ELSE h
    /\ h = c.since.head
    /\ Untouched(c, h, t, F) /\ Apart(c, h, t, I)

BranchReady(c, h, t, F, I) ==
    /\ c.kind = "branch"
    /\ c.commit \in Commits /\ c.branch \in Branches
    /\ c.since.stale = (t[c.branch] # c.commit)
    /\ h = c.since.head
    /\ \/ /\ c.todo = <<"files", "head">>
          /\ Untouched(c, h, t, F) /\ Apart(c, h, t, I)
       \/ c.todo = <<"head">> /\ Written(c, F)

CommitReady(c, h, t, I) ==
    /\ c.kind = "commit" /\ c.branch = NoBranch
    /\ \/ c.todo = <<"parse">> /\ c.commit \in Branches /\ t[c.commit] = Absent
       \/ c.todo = <<"head", "files">> /\ c.commit \in Commits /\ Apart(c, h, t, I)
       \/ c.todo = <<"files">> /\ c.commit \in Commits /\ h = c.commit /\ Apart(c, h, t, I)

Ready(c, h, t, F, I) ==
    HeadReady(c, h, t, F, I) \/ BranchReady(c, h, t, F, I) \/ CommitReady(c, h, t, I)

\* What BranchCheckedOut promises of a call that has returned.
Promised(c) ==
    /\ c.kind = "commit" => c.strategy = "force"
    /\ c.branch \in Locals => ~c.since.stale

Sound(c, h, t, F, I) ==
    /\ c.how \in Ends4
    /\ c.how = "pending" => Ready(c, h, t, F, I)
    /\ c.how \in {"raised", "dead"} /\ c.kind # "commit" => h = c.since.head
    /\ c.how = "returned" /\ Promised(c) => CleanAt(c, h, t, F)
    /\ Kept(c, F)

IInv ==
    /\ Typed
    /\ \A p \in Processes : Alone(call[p]) => Sound(call[p], head, tips, files, index)

-----------------------------------------------------------------------------
(* Records.                                                                 *)

\* Changing one field of a checkout in progress leaves the others.
LEMMA SetHow ==
    ASSUME NEW c, Shaped(c), NEW x
    PROVE  [c EXCEPT !.how = x] =
               [how |-> x, kind |-> c.kind, branch |-> c.branch, commit |-> c.commit,
                strategy |-> c.strategy, todo |-> c.todo, since |-> c.since]
BY DEF Shaped

\* The same for the field since.
LEMMA SetSince ==
    ASSUME NEW c, Shaped(c), NEW x
    PROVE  [c EXCEPT !.since = x] =
               [how |-> c.how, kind |-> c.kind, branch |-> c.branch, commit |-> c.commit,
                strategy |-> c.strategy, todo |-> c.todo, since |-> x]
BY DEF Shaped

\* The same for the field todo.
LEMMA SetTodo ==
    ASSUME NEW c, Shaped(c), NEW x
    PROVE  [c EXCEPT !.todo = x] =
               [how |-> c.how, kind |-> c.kind, branch |-> c.branch, commit |-> c.commit,
                strategy |-> c.strategy, todo |-> x, since |-> c.since]
BY DEF Shaped

\* The same for the field commit.
LEMMA SetCommit ==
    ASSUME NEW c, Shaped(c), NEW x
    PROVE  [c EXCEPT !.commit = x] =
               [how |-> c.how, kind |-> c.kind, branch |-> c.branch, commit |-> x,
                strategy |-> c.strategy, todo |-> c.todo, since |-> c.since]
BY DEF Shaped

\* Two fields at once: todo and how.
LEMMA SetTodoHow ==
    ASSUME NEW c, Shaped(c), NEW x, NEW y
    PROVE  [c EXCEPT !.todo = x, !.how = y] =
               [how |-> y, kind |-> c.kind, branch |-> c.branch, commit |-> c.commit,
                strategy |-> c.strategy, todo |-> x, since |-> c.since]
<1>1. \A d : d = [c EXCEPT !.todo = x] => [d EXCEPT !.how = y] = [c EXCEPT !.todo = x, !.how = y]
  BY Zenon
<1>2. ASSUME NEW d, d = [c EXCEPT !.todo = x]
      PROVE  /\ Shaped(d)
             /\ d = [how |-> c.how, kind |-> c.kind, branch |-> c.branch, commit |-> c.commit,
                     strategy |-> c.strategy, todo |-> x, since |-> c.since]
  BY <1>2, SetTodo DEF Shaped
<1>3. PICK d : d = [c EXCEPT !.todo = x]
  OBVIOUS
<1> QED
  BY <1>1, <1>2, <1>3, SetHow

\* Two fields at once: commit and todo.
LEMMA SetCommitTodo ==
    ASSUME NEW c, Shaped(c), NEW x, NEW y
    PROVE  [c EXCEPT !.commit = x, !.todo = y] =
               [how |-> c.how, kind |-> c.kind, branch |-> c.branch, commit |-> x,
                strategy |-> c.strategy, todo |-> y, since |-> c.since]
<1>1. \A d : d = [c EXCEPT !.commit = x] =>
                 [d EXCEPT !.todo = y] = [c EXCEPT !.commit = x, !.todo = y]
  BY Zenon
<1>2. ASSUME NEW d, d = [c EXCEPT !.commit = x]
      PROVE  /\ Shaped(d)
             /\ d = [how |-> c.how, kind |-> c.kind, branch |-> c.branch, commit |-> x,
                     strategy |-> c.strategy, todo |-> c.todo, since |-> c.since]
  BY <1>2, SetCommit DEF Shaped
<1>3. PICK d : d = [c EXCEPT !.commit = x]
  OBVIOUS
<1> QED
  BY <1>1, <1>2, <1>3, SetTodo

-----------------------------------------------------------------------------
(* One process acts: the calls of the others are not alone any more.        *)

Moves(p) == call' = [q \in Processes |-> IF q = p THEN call'[p] ELSE Disturb(q)]

\* A checkout that another process got in the way of is not alone any more.
LEMMA DisturbedCall ==
    ASSUME Typed, NEW q \in Processes
    PROVE  /\ Disturb(q).how # "none" => Shaped(Disturb(q))
           /\ ~Alone(Disturb(q))
<1>1. CASE Pending(q)
  <2>1. Shaped(call[q])
    BY <1>1 DEF Typed, Pending
  <2>2. Disturb(q) = [call[q] EXCEPT !.since = Interrupted]
    BY <1>1 DEF Disturb
  <2> HIDE DEF Shaped
  <2>3. Disturb(q) =
          [how |-> call[q].how, kind |-> call[q].kind, branch |-> call[q].branch,
           commit |-> call[q].commit, strategy |-> call[q].strategy,
           todo |-> call[q].todo, since |-> Interrupted]
    BY <2>1, <2>2, SetSince
  <2> QED
    BY <2>1, <2>3 DEF Shaped, Alone
<1>2. CASE ~Pending(q)
  BY <1>2 DEF Disturb, NoCall, Alone
<1> QED
  BY <1>1, <1>2

\* A step of one process, when what it knows stays true,
LEMMA MovesKeeps ==
    ASSUME Typed, NEW p \in Processes, Moves(p), Shaped(call[p])',
           (tips \in [Branches -> Commits \union {Absent}])',
           Alone(call[p])' => Sound(call[p], head, tips, files, index)'
    PROVE  IInv'
<1>1. ASSUME NEW q \in Processes, q # p
      PROVE  /\ call'[q].how # "none" => Shaped(call[q])'
             /\ ~Alone(call[q])'
  <2>1. call'[q] = Disturb(q)
    BY <1>1 DEF Moves
  <2> QED
    BY <2>1, DisturbedCall DEF Shaped, Alone
<1> QED
  BY <1>1 DEF IInv, Typed

\* and one of another process keep the invariant.
LEMMA DisturbedKeeps ==
    ASSUME Typed, Disturbed, (tips \in [Branches -> Commits \union {Absent}])'
    PROVE  IInv'
<1>1. ASSUME NEW q \in Processes
      PROVE  /\ call'[q].how # "none" => Shaped(call[q])'
             /\ ~Alone(call[q])'
  <2>1. call'[q] = Disturb(q)
    BY DEF Disturbed
  <2> QED
    BY <2>1, DisturbedCall DEF Shaped, Alone
<1> QED
  BY <1>1 DEF IInv, Typed

-----------------------------------------------------------------------------
(* A call begins.                                                           *)

\* A step of a process changes its own call, and disturbs the others.
LEMMA ActsMoves ==
    ASSUME NEW p \in Processes, NEW c, Acts(p, c)
    PROVE  call'[p] = c /\ Moves(p)
BY DEF Acts, Moves

\* A checkout that begins knows nothing that is not so.
LEMMA BeginKeeps ==
    ASSUME IInv, NEW p \in Processes, Moves(p), UNCHANGED <<head, tips, files, index>>,
           Shaped(call[p])', call'[p].how = "pending", Kept(call'[p], files),
           Ready(call'[p], head, tips, files, index)
    PROVE  IInv'
<1>1. Sound(call[p], head, tips, files, index)'
  BY DEF Sound, Ends4, Ready, HeadReady, BranchReady, CommitReady, Untouched, Apart, Written,
         Kept, HeadTreeAt, Tree, EmptyTree
<1> QED
  BY <1>1, MovesKeeps DEF IInv, Typed

\* No file is touched yet when a call begins.
LEMMA CallFinds ==
    ASSUME NEW kind, NEW branch, NEW commit, NEW s
    PROVE  LET c == Call(kind, branch, commit, s)
           IN  /\ Shaped(c) <=> s \in Strategies
               /\ c.how = "pending" /\ c.kind = kind /\ c.branch = branch
               /\ c.commit = commit /\ c.todo = Order(kind) /\ c.since.head = head
               /\ c.since.stale = (branch \in Branches /\ tips[branch] # commit)
               /\ Untouched(c, head, tips, files)
               /\ Apart(c, head, tips, index)
               /\ Kept(c, files)
BY DEF Call, Shaped, Untouched, Apart, Kept, Spared, Changed, Untracked, HeadTreeAt,
       HeadTree, CommitOf

\* checkout_head
LEMMA CheckoutHeadKeeps ==
    ASSUME IInv, NEW p \in Processes, NEW s \in Strategies, CheckoutHead(p, s)
    PROVE  IInv'
<1> DEFINE c == Call("head", NoBranch, CommitOf(head), s)
<1>1. call'[p] = c /\ Moves(p) /\ UNCHANGED <<head, tips, files, index>>
  BY ActsMoves DEF CheckoutHead, Begin
<1>2. /\ Shaped(c) /\ c.how = "pending" /\ Kept(c, files)
      /\ c.kind = "head" /\ c.commit = CommitOf(head) /\ c.todo = Order("head")
      /\ c.since.head = head
      /\ Untouched(c, head, tips, files) /\ Apart(c, head, tips, index)
  BY CallFinds
<1> HIDE DEF c
<1>3. HeadReady(c, head, tips, files, index)
  BY <1>2 DEF HeadReady, Order, CommitOf
<1> QED
  BY <1>1, <1>2, <1>3, BeginKeeps DEF Ready, Shaped

\* checkout of a branch, by its name or as an object
LEMMA CheckoutBranchKeeps ==
    ASSUME IInv, NEW p \in Processes, NEW s \in Strategies, NEW b \in Branches,
           NEW target \in Commits, Begin(p, Call("branch", b, target, s))
    PROVE  IInv'
<1> DEFINE c == Call("branch", b, target, s)
<1>1. call'[p] = c /\ Moves(p) /\ UNCHANGED <<head, tips, files, index>>
  BY ActsMoves DEF Begin
<1>2. /\ Shaped(c) /\ c.how = "pending" /\ Kept(c, files)
      /\ c.kind = "branch" /\ c.branch = b /\ c.commit = target /\ c.todo = Order("branch")
      /\ c.since.head = head /\ c.since.stale = (tips[b] # target)
      /\ Untouched(c, head, tips, files) /\ Apart(c, head, tips, index)
  BY CallFinds
<1> HIDE DEF c
<1>3. BranchReady(c, head, tips, files, index)
  BY <1>2 DEF BranchReady, Order
<1> QED
  BY <1>1, <1>2, <1>3, BeginKeeps DEF Ready, Shaped

\* checkout with a name that is no branch
LEMMA CheckoutMissingKeeps ==
    ASSUME IInv, NEW p \in Processes, NEW s \in Strategies, NEW b \in Branches,
           CheckoutMissing(p, b, s)
    PROVE  IInv'
<1> DEFINE d == Call("commit", NoBranch, b, s)
           c == [d EXCEPT !.todo = <<"parse">>]
<1>1. call'[p] = c /\ Moves(p) /\ UNCHANGED <<head, tips, files, index>> /\ tips[b] = Absent
  BY ActsMoves DEF CheckoutMissing, Begin
<1>2. /\ Shaped(d) /\ Kept(d, files)
      /\ d.how = "pending" /\ d.kind = "commit" /\ d.branch = NoBranch /\ d.commit = b
  BY CallFinds
<1>3. c = [how |-> d.how, kind |-> d.kind, branch |-> d.branch, commit |-> d.commit,
           strategy |-> d.strategy, todo |-> <<"parse">>, since |-> d.since]
  BY <1>2, SetTodo
<1> HIDE DEF c, d
<1>5. /\ Shaped(c) /\ c.how = "pending" /\ Kept(c, files)
      /\ CommitReady(c, head, tips, index)
  BY <1>1, <1>2, <1>3 DEF Shaped, CommitReady, Kept, Spared
<1> QED
  BY <1>1, <1>5, BeginKeeps DEF Ready, Shaped

\* checkout with a commit
LEMMA CheckoutCommitKeeps ==
    ASSUME IInv, NEW p \in Processes, NEW s \in Strategies, NEW target \in Commits,
           CheckoutCommit(p, target, s)
    PROVE  IInv'
<1> DEFINE c == Call("commit", NoBranch, target, s)
<1>1. call'[p] = c /\ Moves(p) /\ UNCHANGED <<head, tips, files, index>>
  BY ActsMoves DEF CheckoutCommit, Begin
<1>2. /\ Shaped(c) /\ c.how = "pending" /\ Kept(c, files)
      /\ c.kind = "commit" /\ c.branch = NoBranch /\ c.commit = target
      /\ c.todo = Order("commit") /\ Apart(c, head, tips, index)
  BY CallFinds
<1> HIDE DEF c
<1>3. CommitReady(c, head, tips, index)
  BY <1>2 DEF CommitReady, Order
<1> QED
  BY <1>1, <1>2, <1>3, BeginKeeps DEF Ready, Shaped

-----------------------------------------------------------------------------
(* A call goes on.                                                          *)

\* A call that fails, or whose process dies, without touching HEAD, a branch or
\* a file of the user.
LEMMA EndsKeeps ==
    ASSUME IInv, NEW p \in Processes, Pending(p), NEW how \in {"raised", "dead"},
           Ends(p, how), UNCHANGED <<head, tips>>,
           Alone(call[p]) => Kept(call[p], files')
    PROVE  IInv'
<1> DEFINE c == call[p]
           e == [c EXCEPT !.how = how]
<1>1. Shaped(c) /\ call'[p] = e /\ Moves(p)
  BY ActsMoves DEF IInv, Typed, Pending, Ends
<1>2. e = [how |-> how, kind |-> c.kind, branch |-> c.branch, commit |-> c.commit,
           strategy |-> c.strategy, todo |-> c.todo, since |-> c.since]
  BY <1>1, SetHow
<1>3. Alone(c) => /\ Sound(c, head, tips, files, index) /\ c.how = "pending"
                  /\ Kept(c, files')
  BY DEF IInv, Pending
<1> HIDE DEF c, e
<1>4. Shaped(e)
  BY <1>1, <1>2 DEF Shaped
<1>5. Alone(e) => (e.kind # "commit" => head = e.since.head) /\ Kept(e, files')
  BY <1>2, <1>3 DEF Alone, Sound, Ready, HeadReady, BranchReady, CommitReady, Kept, Spared
<1>6. Alone(e) => Sound(e, head', tips', files', index')
  BY <1>2, <1>5 DEF Sound, Ends4
<1> QED
  BY <1>1, <1>4, <1>6, MovesKeeps DEF IInv, Typed, Shaped, Alone

\* The same when no file is touched at all.
LEMMA QuietEndKeeps ==
    ASSUME IInv, NEW p \in Processes, Pending(p), NEW how \in {"raised", "dead"},
           Ends(p, how), UNCHANGED <<head, tips, files, index>>
    PROVE  IInv'
<1>1. Alone(call[p]) => Kept(call[p], files')
  BY DEF IInv, Sound
<1> QED
  BY <1>1, EndsKeeps

\* rev_parse of the name
LEMMA ParseKeeps ==
    ASSUME IInv, NEW p \in Processes, Parse(p)
    PROVE  IInv'
<1> DEFINE c == call[p]
           tip == tips[c.commit]
           e == [c EXCEPT !.commit = tip, !.todo = Order("commit")]
<1>1. CASE tip = Absent
  BY <1>1, QuietEndKeeps DEF Parse, Now
<1>2. CASE tip # Absent
  <2>1. /\ Shaped(c) /\ call'[p] = e /\ Moves(p)
        /\ c.how = "pending" /\ Head(c.todo) = "parse"
        /\ UNCHANGED <<head, tips, files, index>>
    BY <1>2, ActsMoves DEF Parse, Now, IInv, Typed, Pending
  <2>2. e = [how |-> c.how, kind |-> c.kind, branch |-> c.branch, commit |-> tip,
             strategy |-> c.strategy, todo |-> Order("commit"), since |-> c.since]
    BY <2>1, SetCommitTodo
  <2>3. ~Alone(c)
    BY <1>2, <2>1 DEF IInv, Sound, Ready, HeadReady, BranchReady, CommitReady
  <2> HIDE DEF c, e, tip
  <2>4. Shaped(e) /\ ~Alone(e)
    BY <2>1, <2>2, <2>3 DEF Shaped, Alone
  <2> QED
    BY <2>1, <2>4, MovesKeeps DEF IInv, Typed, Shaped, Alone
<1> QED
  BY <1>1, <1>2

\* What the call has become when its first step is done.
LEMMA DoneCall ==
    ASSUME Typed, NEW p \in Processes, Pending(p), Done(p)
    PROVE  /\ Moves(p)
           /\ call'[p] =
                [how |-> IF Tail(call[p].todo) = <<>> THEN "returned" ELSE "pending",
                 kind |-> call[p].kind, branch |-> call[p].branch,
                 commit |-> call[p].commit, strategy |-> call[p].strategy,
                 todo |-> Tail(call[p].todo), since |-> call[p].since]
           /\ Shaped(call[p])'
<1> DEFINE c == call[p]
           how == IF Tail(c.todo) = <<>> THEN "returned" ELSE "pending"
           e == [c EXCEPT !.todo = Tail(c.todo), !.how = how]
<1>1. Shaped(c) /\ call'[p] = e /\ Moves(p)
  BY ActsMoves DEF Typed, Pending, Done
<1>2. e = [how |-> how, kind |-> c.kind, branch |-> c.branch, commit |-> c.commit,
           strategy |-> c.strategy, todo |-> Tail(c.todo), since |-> c.since]
  BY <1>1, SetTodoHow
<1>3. Shaped(e)
  <2> HIDE DEF c, e, how
  <2> QED
    BY <1>1, <1>2 DEF Shaped
<1> QED
  BY <1>1, <1>2, <1>3 DEF Shaped

\* The target of a call that is about to write files.
LEMMA TargetOf ==
    ASSUME NEW p \in Processes, Ready(call[p], head, tips, files, index)
    PROVE  Target(p) = Tree(call[p].commit)
BY DEF Ready, HeadReady, BranchReady, CommitReady, Target, HeadTree, CommitOf

\* The files are then those of the target, but for those of the user.
LEMMA FilesWritten ==
    ASSUME NEW p \in Processes, NEW G, Write(p, Updates(p), G), Shaped(call[p]),
           Ready(call[p], head, tips, files, index),
           Apart(call[p], head, tips, index),
           call[p].strategy = "force" \/ Untouched(call[p], head, tips, files)
    PROVE  Written(call[p], files')
<1> DEFINE c == call[p]
<1>1. SUFFICES ASSUME NEW f \in Paths
               PROVE  files'[f] = Tree(c.commit)[f] \/ f \in Spared(c)
  BY DEF Written
<1>2. Target(p) = Tree(c.commit)
  BY TargetOf
<1>3. files'[f] = IF f \in Updates(p) THEN Tree(c.commit)[f] ELSE files[f]
  BY <1>2 DEF Write
<1>4. CASE f \in Updates(p)
  BY <1>3, <1>4
<1>5. CASE f \notin Updates(p) /\ c.strategy = "safe"
  <2>1. HeadTree[f] = Tree(c.commit)[f]
    BY <1>2, <1>5 DEF Updates
  <2>2. files[f] \in {HeadTree[f], Tree(c.commit)[f]} \/ f \in c.since.changed
    BY <1>5 DEF Untouched, HeadTreeAt, HeadTree, CommitOf
  <2> QED
    BY <1>3, <1>5, <2>1, <2>2 DEF Spared
<1>6. CASE f \notin Updates(p) /\ c.strategy = "force"
  <2>1. HeadTree[f] = NoFile /\ Tree(c.commit)[f] = NoFile /\ f \notin index
    BY <1>2, <1>6 DEF Updates
  <2>2. f \in c.since.untracked
    BY <2>1 DEF Apart, HeadTreeAt, HeadTree, CommitOf
  <2> QED
    BY <1>6, <2>2 DEF Spared
<1> QED
  BY <1>4, <1>5, <1>6 DEF Shaped, Strategies

\* What is to be written is none of the user's files: they would be in conflict,
\* or they are untracked.
LEMMA UpdatesSpare ==
    ASSUME NEW p \in Processes, Now(p, "files"), ~Conflict(p), Shaped(call[p]),
           Ready(call[p], head, tips, files, index), NEW f \in Paths, f \in Spared(call[p])
    PROVE  f \notin Updates(p)
<1> DEFINE c == call[p]
<1>1. Target(p) = Tree(c.commit)
  BY TargetOf
<1>2. c.todo # <<"head">> /\ c.todo # <<"parse">> /\ c.todo # <<"head", "files">>
  <2>1. Head(<<"head">>) = "head" /\ Head(<<"parse">>) = "parse" /\ Head(<<"head", "files">>) = "head"
    OBVIOUS
  <2> QED
    BY <2>1 DEF Now
<1> HIDE DEF c
<1>3. CASE c.kind = "commit"
  <2>1. head = c.commit /\ c.commit \in Commits /\ Apart(c, head, tips, index)
    BY <1>2, <1>3 DEF Ready, HeadReady, BranchReady, CommitReady, c
  <2>2. HeadTree = Tree(c.commit)
    BY <2>1, NamesAssumption DEF HeadTree, CommitOf
  <2>3. c.strategy # "safe" => HeadTree[f] = NoFile /\ Tree(c.commit)[f] = NoFile /\ f \notin index
    BY <2>1, <2>2 DEF Spared, Apart, c
  <2> QED
    BY <1>1, <2>2, <2>3 DEF Updates, c, Shaped, Strategies
<1>4. CASE c.kind # "commit"
  <2>1. Untouched(c, head, tips, files) /\ Apart(c, head, tips, index)
    BY <1>2, <1>4 DEF Ready, HeadReady, BranchReady, CommitReady, c
  <2>2. c.strategy = "safe" => files[f] \notin {HeadTree[f], Tree(c.commit)[f]}
    BY <2>1 DEF Spared, Untouched, HeadTreeAt, HeadTree, CommitOf, c
  <2>3. c.strategy # "safe" => HeadTree[f] = NoFile /\ Tree(c.commit)[f] = NoFile /\ f \notin index
    BY <1>4, <2>1 DEF Spared, Apart, HeadTreeAt, HeadTree, CommitOf, c
  <2>4. CASE c.strategy = "safe"
    BY <1>1, <2>2, <2>4 DEF Conflict, c
  <2>5. CASE c.strategy # "safe"
    BY <1>1, <2>3, <2>5 DEF Updates, c, Shaped, Strategies
  <2> QED
    BY <2>4, <2>5
<1> QED
  BY <1>3, <1>4

\* So they are left alone, however many of the others are written.
LEMMA SparedKept ==
    ASSUME IInv, NEW p \in Processes, Now(p, "files"), ~Conflict(p), Alone(call[p]),
           NEW F \in SUBSET Updates(p), NEW G, Write(p, F, G)
    PROVE  Kept(call[p], files')
<1>1. /\ Shaped(call[p]) /\ Ready(call[p], head, tips, files, index)
      /\ Kept(call[p], files)
  BY DEF IInv, Typed, Sound, Now, Pending
<1>2. SUFFICES ASSUME NEW f \in Spared(call[p])
               PROVE  f \in Paths /\ files'[f] = call[p].since.files[f]
  BY DEF Kept
<1>3. f \in Paths /\ files[f] = call[p].since.files[f]
  BY <1>1 DEF Kept
<1>4. f \notin F
  BY <1>1, <1>3, UpdatesSpare
<1> QED
  BY <1>3, <1>4 DEF Write

\* libgit2 writes the files.
LEMMA WriteFilesKeeps ==
    ASSUME IInv, NEW p \in Processes, WriteFiles(p)
    PROVE  IInv'
<1> DEFINE c == call[p]
           e == call'[p]
<1>1. /\ Typed /\ Pending(p) /\ Done(p) /\ Head(c.todo) = "files"
      /\ Write(p, Updates(p), Updates(p)) /\ UNCHANGED <<head, tips>>
      /\ Now(p, "files") /\ ~Conflict(p)
  BY DEF WriteFiles, Now, IInv
<1>2. Shaped(c)
  BY <1>1 DEF Typed, Pending
<1>3. /\ Moves(p) /\ Shaped(call[p])'
      /\ e = [how |-> IF Tail(c.todo) = <<>> THEN "returned" ELSE "pending",
              kind |-> c.kind, branch |-> c.branch, commit |-> c.commit,
              strategy |-> c.strategy, todo |-> Tail(c.todo), since |-> c.since]
  BY <1>1, DoneCall
<1>4. SUFFICES ASSUME Alone(c) PROVE Sound(e, head, tips, files', index')
  <2>1. Alone(e) => Alone(c)
    BY <1>3 DEF Alone
  <2> QED
    BY <1>1, <1>3, <1>4, <2>1, MovesKeeps DEF Typed, Alone, Sound, Ready, HeadReady,
       BranchReady, CommitReady, Untouched, Apart, Written, CleanAt, Kept, HeadTreeAt, Tree
<1>5. Ready(c, head, tips, files, index)
  BY <1>1, <1>4 DEF IInv, Sound, Pending
<1>6. /\ Apart(c, head, tips, index)
      /\ Untouched(c, head, tips, files) \/ c.strategy = "force"
      => Written(c, files')
  BY <1>1, <1>2, <1>5, FilesWritten
<1>10. Kept(c, files')
  BY <1>1, <1>4, SparedKept
<1> HIDE DEF c, e
<1>11. Kept(e, files')
  BY <1>3, <1>10 DEF Kept, Spared
<1>7. CASE HeadReady(c, head, tips, files, index)
  <2>1. Written(c, files') /\ c.commit = (IF head \in Branches THEN tips[head] ELSE head)
    BY <1>6, <1>7 DEF HeadReady
  <2>2. CleanAt(c, head, tips, files')
    BY <2>1 DEF Written, CleanAt, HeadTreeAt
  <2>3. Tail(c.todo) = <<>>
    BY <1>7 DEF HeadReady
  <2> QED
    BY <1>3, <1>11, <2>2, <2>3 DEF Sound, Ends4, CleanAt, Spared
<1>8. CASE BranchReady(c, head, tips, files, index)
  <2>1. c.todo = <<"files", "head">> /\ Written(c, files')
    <3>1. Head(<<"head">>) = "head"
      OBVIOUS
    <3>2. c.todo # <<"head">>
      BY <1>1, <3>1
    <3> QED
      BY <1>6, <1>8, <3>2 DEF BranchReady
  <2>2. Tail(c.todo) = <<"head">> /\ Tail(c.todo) # <<>>
    BY <2>1
  <2>3. BranchReady(e, head, tips, files', index') /\ e.how = "pending"
    BY <1>3, <1>8, <2>1, <2>2 DEF BranchReady, Written, Spared
  <2> QED
    BY <1>11, <2>3 DEF Sound, Ends4, Ready
<1>9. CASE CommitReady(c, head, tips, index)
  <2>1. /\ c.todo = <<"files">> /\ c.commit \in Commits /\ head = c.commit
        /\ c.kind = "commit" /\ Tail(c.todo) = <<>> /\ Apart(c, head, tips, index)
    <3>1. Head(<<"parse">>) = "parse" /\ Head(<<"head", "files">>) = "head"
      OBVIOUS
    <3>2. c.todo # <<"parse">> /\ c.todo # <<"head", "files">>
      BY <1>1, <3>1
    <3>3. /\ c.todo = <<"files">> /\ c.commit \in Commits /\ head = c.commit
          /\ c.kind = "commit" /\ Apart(c, head, tips, index)
      BY <1>9, <3>2 DEF CommitReady
    <3> QED
      BY <3>3
  <2>2. head \notin Branches
    BY <2>1, NamesAssumption
  <2>3. Promised(c) => CleanAt(c, head, tips, files')
    BY <1>6, <2>1, <2>2 DEF Promised, Written, CleanAt, HeadTreeAt
  <2> QED
    BY <1>3, <1>11, <2>1, <2>3 DEF Sound, Ends4, CleanAt, Promised, Spared
<1> QED
  BY <1>5, <1>7, <1>8, <1>9 DEF Ready

\* The head is written after the files.
LEMMA WriteHeadKeeps ==
    ASSUME IInv, NEW p \in Processes, WriteHead(p)
    PROVE  IInv'
<1> DEFINE c == call[p]
           e == call'[p]
<1>1. /\ Typed /\ Pending(p) /\ Done(p) /\ Head(c.todo) = "head"
      /\ head' = (IF c.branch \in Locals THEN c.branch ELSE c.commit)
      /\ UNCHANGED <<tips, files, index>>
  BY DEF WriteHead, Now, IInv
<1>3. /\ Moves(p) /\ Shaped(call[p])'
      /\ e = [how |-> IF Tail(c.todo) = <<>> THEN "returned" ELSE "pending",
              kind |-> c.kind, branch |-> c.branch, commit |-> c.commit,
              strategy |-> c.strategy, todo |-> Tail(c.todo), since |-> c.since]
  BY <1>1, DoneCall
<1>4. SUFFICES ASSUME Alone(c) PROVE Sound(e, head', tips, files, index)
  <2>1. Alone(e) => Alone(c)
    BY <1>3 DEF Alone
  <2> QED
    BY <1>1, <1>3, <1>4, <2>1, MovesKeeps DEF Typed, Alone, Sound, Ready, HeadReady,
       BranchReady, CommitReady, Untouched, Apart, Written, CleanAt, Kept, HeadTreeAt, Tree
<1>5. Ready(c, head, tips, files, index)
  BY <1>1, <1>4 DEF IInv, Sound, Pending
<1>9. Kept(c, files)
  BY <1>4 DEF IInv, Sound
<1> HIDE DEF c, e
<1>10. Kept(e, files)
  BY <1>3, <1>9 DEF Kept, Spared
<1>6. ~HeadReady(c, head, tips, files, index)
  BY <1>1 DEF HeadReady
<1>7. CASE BranchReady(c, head, tips, files, index)
  <2>1. /\ c.todo = <<"head">> /\ Written(c, files) /\ Tail(c.todo) = <<>>
        /\ c.commit \in Commits /\ c.branch \in Branches
        /\ c.since.stale = (tips[c.branch] # c.commit)
    <3>1. Head(<<"files", "head">>) = "files"
      OBVIOUS
    <3>2. c.todo # <<"files", "head">>
      BY <1>1, <3>1
    <3>3. c.todo = <<"head">> /\ Written(c, files)
      BY <1>7, <3>2 DEF BranchReady
    <3>4. c.commit \in Commits /\ c.branch \in Branches
          /\ c.since.stale = (tips[c.branch] # c.commit)
      BY <1>7 DEF BranchReady
    <3> QED
      BY <3>3, <3>4
  <2>2. Promised(c) => HeadTreeAt(head', tips) = Tree(c.commit)
    BY <1>1, <2>1, NamesAssumption DEF Promised, HeadTreeAt, Branches
  <2>3. Promised(c) => CleanAt(c, head', tips, files)
    BY <2>1, <2>2 DEF Written, CleanAt
  <2> QED
    BY <1>3, <1>10, <2>1, <2>3 DEF Sound, Ends4, CleanAt, Promised, Spared
<1>8. CASE CommitReady(c, head, tips, index)
  <2>1. /\ c.todo = <<"head", "files">> /\ c.commit \in Commits
        /\ c.branch = NoBranch /\ c.kind = "commit" /\ Apart(c, head, tips, index)
    <3>1. Head(<<"parse">>) = "parse" /\ Head(<<"files">>) = "files"
      OBVIOUS
    <3>2. c.todo # <<"parse">>
      BY <1>1, <3>1
    <3>3. c.todo # <<"files">>
      BY <1>1, <3>1
    <3> QED
      BY <1>8, <3>2, <3>3 DEF CommitReady
  <2>2. Tail(c.todo) = <<"files">> /\ Tail(c.todo) # <<>>
    BY <2>1
  <2>3. head' = c.commit
    BY <1>1, <2>1, NamesAssumption DEF Branches
  <2>4. Apart(e, head', tips, index)
    BY <1>3, <2>1 DEF Apart
  <2>5. CommitReady(e, head', tips, index) /\ e.how = "pending"
    BY <1>3, <2>1, <2>2, <2>3, <2>4 DEF CommitReady
  <2> QED
    BY <1>10, <2>5 DEF Sound, Ends4, Ready
<1> QED
  BY <1>5, <1>6, <1>7, <1>8 DEF Ready

-----------------------------------------------------------------------------
(* The invariant.                                                           *)

\* No checkout has begun.
LEMMA InitIInv == Init => IInv
BY DEF Init, IInv, Typed, NoCall, Alone

\* The rest of the program moves a branch,
LEMMA MoveTipKeeps ==
    ASSUME IInv, NEW b \in Branches, NEW c \in Commits \union {Absent}, MoveTip(b, c)
    PROVE  IInv'
BY DisturbedKeeps DEF MoveTip, IInv, Typed

\* or changes a file or the index.
LEMMA EditKeeps ==
    ASSUME IInv, NEW f \in Paths, NEW content, Edit(f, content) \/ Stage(f)
    PROVE  IInv'
BY DisturbedKeeps DEF Edit, Stage, IInv, Typed

\* Every step keeps the invariant.
LEMMA NextIInv == IInv /\ [Next]_vars => IInv'
<1> SUFFICES ASSUME IInv, [Next]_vars PROVE IInv'
  OBVIOUS
<1>1. ASSUME NEW p \in Processes, NEW s \in Strategies, CheckoutHead(p, s) PROVE IInv'
  BY <1>1, CheckoutHeadKeeps
<1>2. ASSUME NEW p \in Processes, NEW s \in Strategies, NEW b \in Branches,
             CheckoutName(p, b, s)
      PROVE  IInv'
  <2>1. tips[b] \in Commits
    BY <1>2 DEF CheckoutName, IInv, Typed
  <2> QED
    BY <1>2, <2>1, CheckoutBranchKeeps DEF CheckoutName
<1>3. ASSUME NEW p \in Processes, NEW s \in Strategies, NEW b \in Branches,
             CheckoutMissing(p, b, s)
      PROVE  IInv'
  BY <1>3, CheckoutMissingKeeps
<1>4. ASSUME NEW p \in Processes, NEW s \in Strategies, NEW c \in Commits,
             CheckoutCommit(p, c, s)
      PROVE  IInv'
  BY <1>4, CheckoutCommitKeeps
<1>5. ASSUME NEW p \in Processes, NEW s \in Strategies, NEW c \in Commits,
             NEW b \in Branches, CheckoutObject(p, b, c, s)
      PROVE  IInv'
  BY <1>5, CheckoutBranchKeeps DEF CheckoutObject
<1>6. ASSUME NEW p \in Processes, Parse(p) PROVE IInv'
  BY <1>6, ParseKeeps
<1>7. ASSUME NEW p \in Processes, WriteFiles(p) PROVE IInv'
  BY <1>7, WriteFilesKeeps
<1>8. ASSUME NEW p \in Processes, RefuseFiles(p) PROVE IInv'
  BY <1>8, QuietEndKeeps DEF RefuseFiles, Now
<1>9. ASSUME NEW p \in Processes, WriteHead(p) PROVE IInv'
  BY <1>9, WriteHeadKeeps
<1>10. ASSUME NEW p \in Processes, NEW how \in {"raised", "dead"}, WriteSomeFiles(p, how)
       PROVE  IInv'
  <2>1. PICK F \in SUBSET Updates(p) : \E G \in SUBSET F : Write(p, F, G)
    BY <1>10 DEF WriteSomeFiles
  <2>2. PICK G \in SUBSET F : Write(p, F, G)
    BY <2>1
  <2>3. Alone(call[p]) => Kept(call[p], files')
    BY <1>10, <2>2, SparedKept DEF WriteSomeFiles
  <2> QED
    BY <1>10, <2>3, EndsKeeps DEF WriteSomeFiles, Now
<1>11. ASSUME NEW p \in Processes, NEW how \in {"raised", "dead"}, Stop(p, how)
       PROVE  IInv'
  BY <1>11, QuietEndKeeps DEF Stop
<1>12. CASE UNCHANGED vars
  BY <1>12 DEF vars, IInv, Typed, Shaped, Alone, Sound, Ready, HeadReady, BranchReady,
               CommitReady, Untouched, Apart, Written, CleanAt, Kept, Spared, Promised,
               HeadTreeAt, Tree, EmptyTree
<1> QED
  BY <1>1, <1>2, <1>3, <1>4, <1>5, <1>6, <1>7, <1>8, <1>9, <1>10, <1>11, <1>12,
     MoveTipKeeps, EditKeeps DEF Next

\* What a checkout that was left alone has read and written is so at any time.
THEOREM WorktreeInvariant == Spec => []IInv
BY InitIInv, NextIInv, PTL DEF Spec

\* Repository#checkout of a branch, a Branch that is up to date, or HEAD, and of
\* a commit by force, leaves the files of what HEAD then points to, whatever
\* earlier calls have left behind; safe, it spares what the user had changed.
THEOREM ChecksOut == Spec => []BranchCheckedOut
<1>1. IInv => BranchCheckedOut
  <2> SUFFICES ASSUME IInv, NEW p \in Processes,
                      call[p].how = "returned", Alone(call[p]), Promised(call[p])
               PROVE  Clean(call[p])
    BY DEF BranchCheckedOut, Promised
  <2>1. CleanAt(call[p], head, tips, files)
    BY DEF IInv, Sound
  <2> QED
    BY <2>1 DEF CleanAt, Clean, Spared, HeadTreeAt, HeadTree, CommitOf, IInv, Typed, Shaped,
       Strategies
<1> QED
  BY <1>1, WorktreeInvariant, PTL

\* A checkout of a branch writes HEAD last: one that fails or whose process dies
\* leaves HEAD where it was.
THEOREM KeepsHead == Spec => []FailedKeepsHead
<1>1. IInv => FailedKeepsHead
  BY DEF IInv, Sound, FailedKeepsHead
<1> QED
  BY <1>1, WorktreeInvariant, PTL

\* At no moment of a checkout are the files that the user had changed (of a safe
\* one) or that were untracked (of one by force) other than when it began.
THEOREM KeepsUserFiles == Spec => []UserFilesKept
<1>1. ASSUME IInv, NEW p \in Processes, call[p].how # "none", Alone(call[p]),
             NEW f \in Spared(call[p])
      PROVE  files[f] = call[p].since.files[f]
  BY <1>1 DEF IInv, Sound, Kept
<1>2. IInv => UserFilesKept
  BY <1>1 DEF UserFilesKept
<1> QED
  BY <1>2, WorktreeInvariant, PTL

=============================================================================
