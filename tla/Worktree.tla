------------------------------ MODULE Worktree ------------------------------
(***************************************************************************)
(* Repository#checkout of lib/rugged/repository.rb: it looks its target    *)
(* up, writes the files with checkout_tree and makes HEAD point to the     *)
(* target, in an order that depends on the target.  Several processes may  *)
(* call it in one repository; branches are moved and files are edited      *)
(* meanwhile; a call may fail or its process die at any point, also with   *)
(* some of the files written.                                              *)
(***************************************************************************)
EXTENDS Naturals, Sequences

CONSTANTS
    Processes,
    Commits,
    Paths,
    TreeOf,         \* the files of a commit: [Commits -> [Paths -> contents]]
    Locals,         \* the names of local branches
    Remotes,        \* the names of remote branches
    Kinds,          \* the kinds of targets that are asked for
    NoFile,         \* the contents of a file that is not there
    Edited,         \* the contents of a file that the user has edited
    Absent          \* the tip of a branch that does not exist

Branches == Locals \union Remotes
NoBranch == <<>>

ASSUME NamesAssumption ==
    /\ Locals \intersect Remotes = {}
    /\ Branches \intersect Commits = {}
    /\ NoBranch \notin Branches

ASSUME ContentsAssumption ==
    /\ Absent \notin Commits
    /\ \A c \in Commits, f \in Paths : TreeOf[c][f] # Edited

VARIABLES
    head,       \* what HEAD points to: a branch, or a commit
    tips,       \* the commits of the branches
    files,      \* the contents of the working directory
    index,      \* the paths that the index lists; other files are untracked
    call        \* the last call of each process

vars == <<head, tips, files, index, call>>

\* How a call has ended; what it is still to do; what there was when it began,
\* unless anything else has happened since.
Interrupted == <<>>
NoCall == [how |-> "none", todo |-> <<>>, since |-> Interrupted]

EmptyTree == [f \in Paths |-> NoFile]

CommitOf(h) == IF h \in Branches THEN tips[h] ELSE h
Tree(c) == IF c \in Commits THEN TreeOf[c] ELSE EmptyTree
HeadTree == Tree(CommitOf(head))

Init ==
    /\ tips \in [Branches -> Commits]
    /\ head \in Locals
    /\ files = TreeOf[tips[head]]
    /\ index = {f \in Paths : files[f] # NoFile}
    /\ call = [p \in Processes |-> NoCall]

Pending(p) == call[p].how = "pending"

\* Whatever one process does, the calls of the others are no longer alone.
Disturb(q) == IF Pending(q) THEN [call[q] EXCEPT !.since = Interrupted] ELSE NoCall

Acts(p, c) == call' = [q \in Processes |-> IF q = p THEN c ELSE Disturb(q)]

Disturbed == call' = [q \in Processes |-> Disturb(q)]

Ends(p, how) == Acts(p, [call[p] EXCEPT !.how = how])

-----------------------------------------------------------------------------
(* The call.                                                                *)

\* Mutant: HEAD is always written first.
Order_HeadFirst(kind) ==
    IF kind = "head" THEN <<"files">> ELSE <<"head", "files">>

\* What is written, in order.  For HEAD itself only the files are.
Order(kind) ==
    IF kind = "head" THEN <<"files">>
    ELSE IF kind = "commit" THEN <<"head", "files">>
    ELSE <<"files", "head">>

\* The files that the user has changed: neither those of HEAD nor those of the target.
Changed(target) == {f \in Paths : files[f] \notin {HeadTree[f], Tree(target)[f]}}

\* The files that a checkout has nothing to do with: the target has none of that
\* name, nor the index, nor HEAD.  What HEAD was does not count for a commit, which
\* HEAD is made to be before the files are looked at.
Untracked(kind, target) ==
    {f \in Paths \ index :
        Tree(target)[f] = NoFile /\ (HeadTree[f] = NoFile \/ kind = "commit")}

\* A call with its target: the branch by its name (NoBranch if there is none)
\* and the commit that was looked up.
Call(kind, branch, commit, strategy) == [
    how |-> "pending", kind |-> kind, branch |-> branch, commit |-> commit,
    strategy |-> strategy, todo |-> Order(kind),
    since |-> [head |-> head, files |-> files, changed |-> Changed(commit),
               untracked |-> Untracked(kind, commit),
               stale |-> branch \in Branches /\ tips[branch] # commit]]

\* The strategy is :safe by default; :paths is dropped from the options, so
\* that the checkout is about all files.
Strategies == {"safe", "force"}

Begin(p, c) ==
    /\ ~Pending(p)
    /\ Acts(p, c)
    /\ UNCHANGED <<head, tips, files, index>>

CheckoutHead(p, strategy) ==
    /\ "head" \in Kinds
    /\ Begin(p, Call("head", NoBranch, CommitOf(head), strategy))

\* branches[target] finds the branch; its commit is the one of that moment.
CheckoutName(p, b, strategy) ==
    /\ "branch" \in Kinds
    /\ tips[b] # Absent
    /\ Begin(p, Call("branch", b, tips[b], strategy))

\* It does not, and the name is parsed.
CheckoutMissing(p, b, strategy) ==
    /\ "branch" \in Kinds
    /\ tips[b] = Absent
    /\ Begin(p, [Call("commit", NoBranch, b, strategy) EXCEPT !.todo = <<"parse">>])

\* The target is a Branch object; its commit is the one that the branch had
\* when the program made that object.
CheckoutObject(p, b, c, strategy) ==
    /\ "object" \in Kinds
    /\ Begin(p, Call("branch", b, c, strategy))

\* The target is the id of a commit.
CheckoutCommit(p, c, strategy) ==
    /\ "commit" \in Kinds
    /\ Begin(p, Call("commit", NoBranch, c, strategy))

Now(p, what) == Pending(p) /\ Head(call[p].todo) = what

\* The first step is done; the call returns after the last one.
Done(p) ==
    LET rest == Tail(call[p].todo)
    IN  Acts(p, [call[p] EXCEPT !.todo = rest,
                                !.how = IF rest = <<>> THEN "returned" ELSE "pending"])

\* rev_parse_oid raises, unless the branch has been created meanwhile: it is
\* then checked out like a commit.
Parse(p) ==
    /\ Now(p, "parse")
    /\ LET tip == tips[call[p].commit]
       IN  IF tip = Absent THEN Ends(p, "raised")
           ELSE Acts(p, [call[p] EXCEPT !.commit = tip, !.todo = Order("commit")])
    /\ UNCHANGED <<head, tips, files, index>>

\* checkout_head looks HEAD up itself.
Target(p) == IF call[p].kind = "head" THEN HeadTree ELSE Tree(call[p].commit)

\* Mutant: a checkout by force removes untracked files, too.
Updates_All(p) ==
    IF call[p].strategy = "force" THEN Paths ELSE {f \in Paths : HeadTree[f] # Target(p)[f]}

\* The files that are to be written.  What a safe checkout expects to find is
\* the tree of HEAD, as it is now; where that is what it is asked for it does
\* nothing.  One by force makes all files those of the target, and removes
\* others that HEAD or the index have; it leaves untracked files alone.
Updates(p) ==
    IF call[p].strategy = "force"
    THEN {f \in Paths : HeadTree[f] # NoFile \/ Target(p)[f] # NoFile \/ f \in index}
    ELSE {f \in Paths : HeadTree[f] # Target(p)[f]}

\* A safe checkout gives up before it writes when a file to be written is
\* neither what it expects nor what it is asked for, and when one that is to be
\* added is there.
Conflict(p) ==
    /\ call[p].strategy = "safe"
    /\ \E f \in Updates(p) :
          files[f] # HeadTree[f] /\ (files[f] # Target(p)[f] \/ HeadTree[f] = NoFile)

\* There is no commit that checkout_head could check out.
Unborn(p) == call[p].kind = "head" /\ CommitOf(head) \notin Commits

\* The files of F are written; the index knows of those of G.
Write(p, F, G) ==
    /\ files' = [f \in Paths |-> IF f \in F THEN Target(p)[f] ELSE files[f]]
    /\ index' = (index \ G) \union {f \in G : Target(p)[f] # NoFile}

\* checkout_tree or checkout_head
WriteFiles(p) ==
    /\ Now(p, "files")
    /\ ~Conflict(p) /\ ~Unborn(p)
    /\ Write(p, Updates(p), Updates(p))
    /\ Done(p)
    /\ UNCHANGED <<head, tips>>

RefuseFiles(p) ==
    /\ Now(p, "files")
    /\ Conflict(p) \/ Unborn(p)
    /\ Ends(p, "raised")
    /\ UNCHANGED <<head, tips, files, index>>

\* It fails, or the process dies, when some of the files are written: the index,
\* which is saved last, may know of all or some of them or of none.
WriteSomeFiles(p, how) ==
    /\ Now(p, "files")
    /\ ~Conflict(p) /\ ~Unborn(p)
    /\ \E F \in SUBSET Updates(p) : \E G \in SUBSET F : Write(p, F, G)
    /\ Ends(p, how)
    /\ UNCHANGED <<head, tips>>

\* references.create("HEAD", ...): a remote branch and a commit detach it.
WriteHead(p) ==
    /\ Now(p, "head")
    /\ head' = IF call[p].branch \in Locals THEN call[p].branch ELSE call[p].commit
    /\ Done(p)
    /\ UNCHANGED <<tips, files, index>>

\* The reference cannot be written, or the process dies.
Stop(p, how) ==
    /\ Pending(p)
    /\ Ends(p, how)
    /\ UNCHANGED <<head, tips, files, index>>

-----------------------------------------------------------------------------
(* What goes on meanwhile.                                                  *)

\* A commit, a fetch, the deletion of a branch.
MoveTip(b, c) ==
    /\ tips[b] # c
    /\ tips' = [tips EXCEPT ![b] = c]
    /\ Disturbed
    /\ UNCHANGED <<head, files, index>>

\* The user edits, makes or removes a file,
Edit(f, content) ==
    /\ files[f] # content
    /\ files' = [files EXCEPT ![f] = content]
    /\ Disturbed
    /\ UNCHANGED <<head, tips, index>>

\* and adds it to the index or takes it out of it.
Stage(f) ==
    /\ index' = IF f \in index THEN index \ {f} ELSE index \union {f}
    /\ Disturbed
    /\ UNCHANGED <<head, tips, files>>

Next ==
    \/ \E p \in Processes, s \in Strategies :
          \/ CheckoutHead(p, s)
          \/ \E b \in Branches : CheckoutName(p, b, s) \/ CheckoutMissing(p, b, s)
          \/ \E c \in Commits :
                CheckoutCommit(p, c, s) \/ \E b \in Branches : CheckoutObject(p, b, c, s)
    \/ \E p \in Processes :
          \/ Parse(p) \/ WriteFiles(p) \/ RefuseFiles(p) \/ WriteHead(p)
          \/ \E how \in {"raised", "dead"} : WriteSomeFiles(p, how) \/ Stop(p, how)
    \/ \E b \in Branches, c \in Commits \union {Absent} : MoveTip(b, c)
    \/ \E f \in Paths : Stage(f) \/ \E content \in {Edited, NoFile} : Edit(f, content)

Spec == Init /\ [][Next]_vars

-----------------------------------------------------------------------------

\* Nothing else has happened since the call began.
Alone(c) == c.since # Interrupted

\* Of every file: it is that of the commit that HEAD points to, or the user had
\* changed it before the call and is not overwritten, or it is untracked, which
\* is not what :force is about.
Clean(c) ==
    \A f \in Paths :
        \/ files[f] = HeadTree[f]
        \/ c.strategy = "safe" /\ f \in c.since.changed
        \/ c.strategy = "force" /\ f \in c.since.untracked

\* checkout checks out the branch or commit that it is asked for.
CheckedOut ==
    \A p \in Processes : call[p].how = "returned" /\ Alone(call[p]) => Clean(call[p])

\* It does for a branch, a Branch that is up to date, or HEAD, and for a commit
\* by force; whatever earlier calls that failed or died have left behind.
BranchCheckedOut ==
    \A p \in Processes :
        /\ call[p].how = "returned" /\ Alone(call[p])
        /\ call[p].kind = "commit" => call[p].strategy = "force"
        /\ call[p].branch \in Locals => ~call[p].since.stale
        => Clean(call[p])

\* A checkout of a branch that fails, or dies, leaves HEAD where it was.
FailedKeepsHead ==
    \A p \in Processes :
        call[p].how \in {"raised", "dead"} /\ Alone(call[p]) /\ call[p].kind # "commit" =>
            head = call[p].since.head

\* What a checkout may not touch: a safe one what the user had changed, and one by
\* force what was untracked.
Spared(c) == IF c.strategy = "safe" THEN c.since.changed ELSE c.since.untracked

\* At no moment of a checkout, and however it ends, are these files other than they
\* were when it began.
UserFilesKept ==
    \A p \in Processes :
        call[p].how # "none" /\ Alone(call[p]) =>
            \A f \in Spared(call[p]) : files[f] = call[p].since.files[f]

=============================================================================
