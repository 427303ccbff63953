------------------------------- MODULE Index -------------------------------
(***************************************************************************)
(* The entries of one Rugged::Index, the methods that change them, and one *)
(* call of a method that runs its block for entry after entry: each,       *)
(* add_all, update_all or remove_all.  The block may use the same index.   *)
(*                                                                         *)
(* libgit2 keeps the entries sorted by path and stage.  remove_all goes    *)
(* through the positions of this vector, and so does each; add_all and     *)
(* update_all go through a comparison with the working directory that was  *)
(* made when the call began.                                               *)
(***************************************************************************)
EXTENDS Integers, Sequences, FiniteSets, SequencesExt, Descent

CONSTANTS
    Paths,      \* the paths, as numbers in their order
    Oids,       \* what an entry or a file can contain
    None,       \* no file
    Files,      \* bound: what the files of the working directory contain
    Loads,      \* bound: what reload, read_tree and clear can put in the index
    Given,      \* bound: the stages programs give for an entry
    MaxChanges  \* bound: how often the program changes the index by itself

ASSUME PathsAssumption == Paths \subseteq Nat /\ IsFiniteSet(Paths)
ASSUME NoneAssumption == None \notin Oids
ASSUME FilesAssumption == Files \subseteq [Paths -> Oids \cup {None}]

Stages == 0 .. 3
Entry == [path: Paths, stage: Stages, oid: Oids]

\* libgit2 keeps at most one entry for a path and a stage.
Single(E) == \A d, e \in E : d.path = e.path /\ d.stage = e.stage => d = e

ASSUME LoadsAssumption == Loads \subseteq {E \in SUBSET Entry : Single(E)}
ASSUME GivenAssumption == Given \subseteq Int
ASSUME BoundAssumption == MaxChanges \in Nat

VARIABLES
    entries,    \* the entries of the index
    workdir,    \* what the files in the working directory contain
    pc,         \* where the method is
    method,     \* which one was called
    hasBlock,   \* whether it was given a block
    matching,   \* the paths that match its pathspecs
    todo,       \* the paths that differ from the working directory
    position,   \* in the vector of entries or in todo
    current,    \* path and stage that libgit2 is about to add or remove
    exception,  \* what rb_protect stored in the payload
    error,      \* whether libgit2 returned an error
    outcome,    \* how the method ended
    changes,    \* how often the program has changed the index
    before,     \* the entries when the call began
    yielded,    \* what the block was given
    wanted,     \* paths the block said yes to, or that were not asked about
    refused,    \* paths the block said no to
    disturbed,  \* whether the block has changed the index
    raised,     \* whether the block has raised
    added       \* the sides of the conflict that was added last

vars == <<entries, workdir, pc, method, hasBlock, matching, todo, position, current,
          exception, error, outcome, changes, before, yielded, wanted, refused,
          disturbed, raised, added>>

asked == <<method, hasBlock, matching, todo, before>>
ending == <<exception, error, outcome>>
answers == <<wanted, refused>>
program == <<workdir, changes, disturbed, added>>

Methods == {"each", "add_all", "update_all", "remove_all"}

TypeOK ==
    /\ entries \subseteq Entry /\ Single(entries)
    /\ workdir \in [Paths -> Oids \cup {None}]
    /\ pc \in {"idle", "next", "block", "apply", "after", "done"}
    /\ method \in Methods \cup {"none"}
    /\ hasBlock \in BOOLEAN
    /\ matching \subseteq Paths
    /\ todo \in Seq(Paths)
    /\ position \in Nat \ {0}
    /\ current = None \/ current \in [path: Paths, stage: Stages]
    /\ exception \in BOOLEAN /\ error \in BOOLEAN
    /\ outcome \in {"pending", "returned", "raised", "failed"}
    /\ changes \in 0 .. MaxChanges
    /\ before \subseteq Entry
    /\ wanted \subseteq Paths /\ refused \subseteq Paths
    /\ disturbed \in BOOLEAN /\ raised \in BOOLEAN
    /\ added \subseteq Entry

Init ==
    /\ entries \in Loads
    /\ workdir \in Files
    /\ pc = "idle"
    /\ method = "none"
    /\ hasBlock = FALSE
    /\ matching = {}
    /\ todo = <<>>
    /\ position = 1
    /\ current = None
    /\ exception = FALSE
    /\ error = FALSE
    /\ outcome = "pending"
    /\ changes = 0
    /\ before = {}
    /\ yielded = <<>>
    /\ wanted = {}
    /\ refused = {}
    /\ disturbed = FALSE
    /\ raised = FALSE
    /\ added = {}

-----------------------------------------------------------------------------
(* What libgit2 does with the entries.                                      *)

\* The members of S in an order: i - 1 are before the i-th.
Ahead(x, S, order) == {y \in S : <<y, x>> \in order}

InOrder(S, order) ==
    [i \in 1 .. Cardinality(S) |-> CHOOSE x \in S : Cardinality(Ahead(x, S, order)) = i - 1]

PathOrder == {o \in Paths \X Paths : o[1] < o[2]}

EntryOrder ==
    {o \in Entry \X Entry :
        \/ o[1].path < o[2].path
        \/ o[1].path = o[2].path /\ o[1].stage < o[2].stage}

\* git_index_get_byindex
Vector(E) == InOrder(E, EntryOrder)

Without(E, p) == {e \in E : e.path # p}

\* git_index_add and git_index_conflict_add: a new entry takes the place of the
\* one with its path and stage.
Inserted(E, new) ==
    {e \in E : ~\E n \in new : n.path = e.path /\ n.stage = e.stage} \cup new

\* git_index_add_bypath, or git_index_remove_bypath for a file that is gone: the
\* path is no longer in conflict.
Synchronized(E, p) ==
    Without(E, p) \cup
        (IF workdir[p] = None THEN {} ELSE {[path |-> p, stage |-> 0, oid |-> workdir[p]]})

\* The paths that differ between index and working directory; files that are
\* not in the index count for add_all only.
Deltas(m) ==
    {p \in Paths :
        /\ Synchronized(entries, p) # entries
        /\ m = "update_all" => \E e \in entries : e.path = p}

-----------------------------------------------------------------------------
(* The methods that change the index and run no block.  The program calls   *)
(* them before the iteration or in its block.                               *)

Edit(E, sides) ==
    /\ pc \in {"idle", "block"}
    /\ changes < MaxChanges
    /\ changes' = changes + 1
    /\ entries' = E
    /\ disturbed' = (pc = "block")
    /\ added' = sides
    /\ UNCHANGED <<workdir, pc, asked, position, current, ending, yielded, answers, raised>>

\* rb_git_indexentry_toC: the stage is shifted into the flags and masked.
IndexEntry(p, s, c) == [path |-> p, stage |-> s % 4, oid |-> c]

\* index.add, update and << with a hash, and with a path.
AddEntry(e) == Edit(Inserted(entries, {e}), {})

AddPath(p) == workdir[p] # None /\ Edit(Synchronized(entries, p), {})

\* index.remove
RemoveEntry(p, s) ==
    /\ \E e \in entries : e.path = p /\ e.stage = s
    /\ Edit({e \in entries : ~(e.path = p /\ e.stage = s)}, {})

\* index.remove_dir: dir contains the paths under the directory.
RemoveDir(dir, s) == Edit({e \in entries : ~(e.path \in dir /\ e.stage = s)}, {})

\* index.clear, reload and read_tree
Load(E) == Edit(E, {})

\* The three sides of a conflict are the stages 1 to 3.  ours is passed on if
\* theirs is given, and the other way round.
Passed(sides, garbage) ==
    LET given(s) == {e \in sides : e.stage = s}
        ours == IF given(2) # {} THEN given(2) ELSE {[garbage EXCEPT !.stage = 2]}
        theirs == IF given(3) # {} THEN given(3) ELSE {[garbage EXCEPT !.stage = 3]}
    IN  given(1) \cup (IF given(3) = {} THEN {} ELSE ours) \cup (IF given(2) = {} THEN {} ELSE theirs)

\* index.conflict_add, when git_index_conflict_add accepts what it is passed. An
\* entry that rb_git_indexentry_toC did not fill in contains anything.
ConflictAdd(sides, garbage) ==
    LET passed == Passed(sides, garbage)
        cleared == {e \in entries : ~(e.stage = 0 /\ \E n \in passed : n.path = e.path)}
    IN  Edit(Inserted(cleared, passed), sides)

\* index.conflict_remove and conflict_cleanup
ConflictRemove(p) == Edit({e \in entries : ~(e.path = p /\ e.stage > 0)}, {})

ConflictCleanup == Edit({e \in entries : e.stage = 0}, {})

-----------------------------------------------------------------------------
(* each, add_all, update_all and remove_all                                 *)

\* each without a block makes an enumerator and runs nothing.  The others turn
\* their pathspecs and options into C; that may raise.
Start(m, b, M) ==
    /\ pc = "idle"
    /\ m = "each" => b /\ M = Paths
    /\ pc' = "next"
    /\ method' = m
    /\ hasBlock' = b
    /\ matching' = M
    /\ todo' = IF m \in {"add_all", "update_all"}
               THEN InOrder(Deltas(m) \cap M, PathOrder)
               ELSE <<>>
    /\ before' = entries
    /\ added' = {}
    /\ UNCHANGED <<entries, workdir, position, current, ending, changes, yielded, answers,
                   disturbed, raised>>

Refuse ==
    /\ pc = "idle"
    /\ pc' = "done"
    /\ outcome' = "failed"
    /\ UNCHANGED <<entries, asked, position, current, exception, error, program, yielded,
                   answers, raised>>

\* Mutant: the entries are counted again before each one.
EachYield_Recount ==
    /\ pc = "next"
    /\ method = "each"
    /\ position <= Cardinality(entries)
    /\ yielded' = Append(yielded, Vector(entries)[position])
    /\ pc' = "block"
    /\ UNCHANGED <<entries, asked, position, current, ending, program, answers, raised>>

\* rb_git_index_each: the entries are counted once; a position that is no longer
\* there is passed over.
EachYield ==
    /\ pc = "next"
    /\ method = "each"
    /\ position <= Cardinality(before)
    /\ IF position <= Cardinality(entries)
       THEN yielded' = Append(yielded, Vector(entries)[position]) /\ pc' = "block" /\ UNCHANGED position
       ELSE position' = position + 1 /\ UNCHANGED <<yielded, pc>>
    /\ UNCHANGED <<entries, asked, current, ending, program, answers, raised>>

\* libgit2 has come to a matching path: it asks the block, if there is one.
Consider(p, s) ==
    /\ current' = [path |-> p, stage |-> s]
    /\ IF hasBlock
       THEN pc' = "block" /\ yielded' = Append(yielded, p) /\ UNCHANGED wanted
       ELSE pc' = "apply" /\ wanted' = wanted \cup {p} /\ UNCHANGED yielded
    /\ UNCHANGED <<entries, asked, position, ending, program, refused, raised>>

ConsiderDelta ==
    /\ pc = "next"
    /\ position <= Len(todo)
    /\ Consider(todo[position], 0)

ConsiderEntry ==
    /\ pc = "next"
    /\ method = "remove_all"
    /\ position <= Cardinality(entries)
    /\ LET e == Vector(entries)[position]
       IN  IF e.path \in matching
           THEN Consider(e.path, e.stage)
           ELSE /\ position' = position + 1
                /\ UNCHANGED <<entries, pc, asked, current, ending, program, yielded, answers, raised>>

\* What the block says of the current path; each does not look at it.
Answer(yes) ==
    /\ wanted' = IF yes /\ method # "each" THEN wanted \cup {current.path} ELSE wanted
    /\ refused' = IF yes \/ method = "each" THEN refused ELSE refused \cup {current.path}

\* Mutant: the callback returns 1 for a true value.
BlockReturns_Inverted(yes) ==
    /\ pc = "block"
    /\ Answer(yes)
    /\ IF ~yes /\ method # "each"
       THEN pc' = "apply" /\ UNCHANGED position
       ELSE pc' = "next" /\ position' = position + 1
    /\ UNCHANGED <<entries, asked, current, ending, program, yielded, raised>>

\* rugged__index_matched_path_cb: 0 if the block returned a true value, 1 if a
\* false one, GIT_ERROR if it raised.
BlockReturns(yes) ==
    /\ pc = "block"
    /\ Answer(yes)
    /\ IF yes /\ method # "each"
       THEN pc' = "apply" /\ UNCHANGED position
       ELSE pc' = "next" /\ position' = position + 1
    /\ UNCHANGED <<entries, asked, current, ending, program, yielded, raised>>

BlockRaises ==
    /\ pc = "block"
    /\ raised' = TRUE
    /\ exception' = TRUE
    /\ error' = (method # "each")
    /\ pc' = "after"
    /\ UNCHANGED <<entries, asked, position, current, outcome, program, yielded, answers>>

\* libgit2 does what the method is for with the path.  The block of remove_all may
\* have removed the entry that libgit2 holds, and with it the path.
Apply(p) ==
    /\ pc = "apply"
    /\ \/ p = current.path
       \/ /\ method = "remove_all"
          /\ \A e \in entries : e.path # current.path \/ e.stage # current.stage
    /\ pc' = "next"
    /\ IF method = "remove_all"
       THEN entries' = Without(entries, p) /\ UNCHANGED position
       ELSE entries' = Synchronized(entries, p) /\ position' = position + 1
    /\ UNCHANGED <<asked, current, ending, program, yielded, answers, raised>>

\* A file cannot be read, or memory runs out.
ApplyFails ==
    /\ pc \in {"next", "apply"}
    /\ method # "each"
    /\ error' = TRUE
    /\ pc' = "after"
    /\ UNCHANGED <<entries, asked, position, current, exception, outcome, program, yielded,
                   answers, raised>>

\* The last position that a method comes to.
LoopEnd ==
    CASE method = "each" -> Cardinality(before)
      [] method = "remove_all" -> Cardinality(entries)
      [] OTHER -> Len(todo)

Exhausted ==
    /\ pc = "next"
    /\ position > LoopEnd
    /\ pc' = "after"
    /\ UNCHANGED <<entries, asked, position, current, ending, program, yielded, answers, raised>>

\* Mutant: rugged_exception_check comes before rb_jump_tag.
Return_ErrorFirst ==
    /\ pc = "after"
    /\ pc' = "done"
    /\ outcome' = IF error THEN "failed" ELSE IF exception THEN "raised" ELSE "returned"
    /\ UNCHANGED <<entries, asked, position, current, exception, error, program, yielded,
                   answers, raised>>

\* if (exception) rb_jump_tag(exception); rugged_exception_check(error);
Return ==
    /\ pc = "after"
    /\ pc' = "done"
    /\ outcome' = IF exception THEN "raised" ELSE IF error THEN "failed" ELSE "returned"
    /\ UNCHANGED <<entries, asked, position, current, exception, error, program, yielded,
                   answers, raised>>

Program ==
    \/ \E p \in Paths, s \in Given, c \in Oids : AddEntry(IndexEntry(p, s, c))
    \/ \E p \in Paths : AddPath(p) \/ ConflictRemove(p)
    \/ \E p \in Paths, s \in Given : RemoveEntry(p, s)
    \/ \E dir \in SUBSET Paths, s \in Given : RemoveDir(dir, s)
    \/ \E E \in Loads : Load(E)
    \/ \E p \in Paths, c \in Oids, S \in SUBSET (1 .. 3), garbage \in {e \in Entry : e.stage = 0} :
           ConflictAdd({IndexEntry(p, s, c) : s \in S}, garbage)
    \/ ConflictCleanup

Next ==
    \/ Program
    \/ \E m \in Methods, b \in BOOLEAN, M \in SUBSET Paths : Start(m, b, M)
    \/ Refuse
    \/ EachYield \/ ConsiderDelta \/ ConsiderEntry
    \/ \E yes \in BOOLEAN : BlockReturns(yes)
    \/ BlockRaises
    \/ \E p \in Paths : Apply(p)
    \/ ApplyFails
    \/ Exhausted
    \/ Return

Spec == Init /\ [][Next]_vars

-----------------------------------------------------------------------------
(* Properties                                                               *)

\* add_all, update_all and remove_all change the index for the paths that the
\* block said yes to, or for all that match if there is no block, and for no
\* other; also if the block has then raised.  A method that returns has asked
\* about every path.  This is for a block that leaves the index alone and does
\* not change its mind about a path with several stages.
OnlyWanted ==
    LET made(p) == IF method = "remove_all" THEN {} ELSE Synchronized({}, p)
        candidates ==
            IF method = "remove_all" THEN matching \cap {e.path : e \in before} ELSE ToSet(todo)
    IN  method \notin {"each", "none"} /\ ~disturbed /\ wanted \cap refused = {}
            /\ outcome \in {"returned", "raised"} =>
            /\ entries = {e \in before : e.path \notin wanted} \cup UNION {made(p) : p \in wanted}
            /\ outcome = "returned" =>
                   candidates = IF hasBlock THEN ToSet(yielded) ELSE wanted

\* The block of each runs at most as often as there were entries, whatever it
\* does with the index.  If it leaves the index alone, it is given the entries in
\* their order, and all of them if each returns.
EachInOrder ==
    method = "each" =>
        /\ Len(yielded) <= Cardinality(before)
        /\ ~disturbed =>
               /\ IsPrefix(yielded, Vector(before))
               /\ outcome = "returned" => yielded = Vector(before)

\* What a method has left to do: parts of it, entries or paths, and what is to be
\* done with the one it has come to.
Part == CASE pc \in {"next", "block", "apply"} -> 2 [] pc = "after" -> 1 [] OTHER -> 0
Items == IF position <= LoopEnd THEN LoopEnd - position + 1 ELSE 0
Turn == CASE pc = "next" -> 2 [] pc = "block" -> 1 [] OTHER -> 0
Left == <<Part, Items, Turn>>

\* Every step of the four methods, and every end of their block, brings the end
\* of the method nearer, and what the block does with the index does not put it
\* off.  For remove_all, which goes through the entries as they are, that holds
\* only for a block that leaves the index alone.
EndsSooner ==
    [][Part # 0 /\ (method = "remove_all" => ~disturbed') =>
         \/ Before(Left', Left)
         \/ Left' = Left /\ changes' = changes + 1]_vars

\* All four methods keep the promise of Relay.  A block that is running has not
\* ended yet.
AsRelay == INSTANCE Relay WITH
    calls <- IF pc = "block" THEN Len(yielded) - 1 ELSE Len(yielded),
    failing <- raised

RelaySpec == AsRelay!Spec

\* conflict_add: "Any of those paris can be nil (or left out) to indicate that
\* the file was not present in the respective tree"; the sides that are given
\* become entries.
ConflictAsGiven == added \subseteq entries

=============================================================================
