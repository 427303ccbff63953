----------------------------- MODULE RepoOwned -----------------------------
(***************************************************************************)
(* Who owns the native index behind Rugged::Repository#index.              *)
(*                                                                         *)
(* A Rugged::Repository, Rugged::Rebase or Rugged::Index is a Ruby object  *)
(* that wraps one libgit2 structure.  libgit2 counts the references to a   *)
(* native index; Rugged keeps the Ruby objects alive with two instance     *)
(* variables, "@index" of a repository (ivar) and "@owner" of everything   *)
(* derived from one (owner).  The garbage collector frees the wrappers     *)
(* that cannot be reached, one by one and in any order, and every dfree    *)
(* gives back one native reference.                                        *)
(*                                                                         *)
(* Repository#config goes through the same two macros of rugged_repo.c     *)
(* (RB_GIT_REPO_OWNED_GET and _SET); reading "config" for "index" gives    *)
(* its model.  Ruby objects are assumed not to be frozen.                  *)
(***************************************************************************)
EXTENDS Integers, FiniteSets

CONSTANTS
    Repos,      \* Rugged::Repository objects
    Rebases,    \* Rugged::Rebase objects
    Indexes,    \* Rugged::Index objects
    Handles,    \* native git_index structures
    Nil         \* Ruby's nil, and C's NULL

Objects == Repos \cup Rebases \cup Indexes

ASSUME KindsAssumption ==
    /\ Repos \cap Rebases = {}
    /\ Repos \cap Indexes = {}
    /\ Rebases \cap Indexes = {}
    /\ Nil \notin Objects \cup Handles
    /\ IsFiniteSet(Objects)

VARIABLES
    live,       \* the Ruby objects that exist
    roots,      \* those the Ruby program refers to from its own variables
    ivar,       \* "@index" of a repository
    owner,      \* "@owner" of a rebase or of an index
    hold,       \* the native index an object's C structure refers to
    rc,         \* libgit2's reference count of a native index
    nowner,     \* the repository libgit2 records as owner of a native index
    alive       \* the native indexes that are allocated

vars == <<live, roots, ivar, owner, hold, rc, nowner, alive>>

ruby == <<live, roots, ivar, owner>>
native == <<rc, nowner, alive>>

TypeOK ==
    /\ live \subseteq Objects
    /\ roots \subseteq Objects
    /\ ivar \in [Repos -> Indexes \cup {Nil}]
    /\ owner \in [Rebases \cup Indexes -> Repos \cup Rebases \cup {Nil}]
    /\ hold \in [Objects -> Handles \cup {Nil}]
    /\ rc \in [Handles -> Nat]
    /\ nowner \in [Handles -> Repos \cup {Nil}]
    /\ alive \subseteq Handles

Init ==
    /\ live = {}
    /\ roots = {}
    /\ ivar = [r \in Repos |-> Nil]
    /\ owner = [x \in Rebases \cup Indexes |-> Nil]
    /\ hold = [x \in Objects |-> Nil]
    /\ rc = [h \in Handles |-> 0]
    /\ nowner = [h \in Handles |-> Nil]
    /\ alive = {}

-----------------------------------------------------------------------------
(* The garbage collector's view: an object keeps alive what its instance   *)
(* variables point to.  Ruby marks some set that contains the roots and is *)
(* closed under those pointers, possibly more than the smallest one.       *)

Points(x) == (IF x \in Repos THEN {ivar[x]} ELSE {owner[x]}) \ {Nil}

Marked == {S \in SUBSET Objects : roots \subseteq S /\ \A x \in S : Points(x) \subseteq S}

Reachable == {x \in Objects : \A S \in Marked : x \in S}

-----------------------------------------------------------------------------
(* libgit2's side.                                                          *)

\* git_repository_set_index(r, h), also with h NULL: the repository takes a
\* reference to h and becomes its owner, and gives back the one it had.
RepoSetIndex(r, h) ==
    LET old == hold[r] IN
    /\ rc' = [g \in Handles |-> rc[g] + (IF g = h THEN 1 ELSE 0)
                                      - (IF g = old THEN 1 ELSE 0)]
    /\ nowner' = [g \in Handles |-> IF g = old THEN Nil
                                    ELSE IF g = h THEN r ELSE nowner[g]]
    /\ alive' = {g \in alive : g = old => rc'[g] > 0}

\* git_index_free(h), also with h NULL: one reference less, and the structure
\* goes when it was the last one and no repository owns it.
IndexFree(h) ==
    /\ rc' = [g \in Handles |-> IF g = h THEN rc[g] - 1 ELSE rc[g]]
    /\ alive' = {g \in alive : g = h => (rc'[g] > 0 \/ nowner[g] # Nil)}
    /\ nowner' = nowner

\* A new native index with one reference, owned by n or by nobody.
IndexAlloc(h, n) ==
    /\ h \in Handles \ alive
    /\ alive' = alive \cup {h}
    /\ rc' = [rc EXCEPT ![h] = 1]
    /\ nowner' = [nowner EXCEPT ![h] = n]

\* An operation of libgit2 that needs the index opens it if there is none
\* (git_repository_index__weakptr), for example the status of a file.
OpenIndex(r, h) ==
    /\ r \in roots \cap Repos
    /\ hold[r] = Nil
    /\ IndexAlloc(h, r)
    /\ hold' = [hold EXCEPT ![r] = h]
    /\ UNCHANGED ruby

-----------------------------------------------------------------------------
(* Rugged's side.                                                           *)

\* rugged_index_new: a wrapper i for the native index h, with its owner o;
\* the caller of the method now refers to it.
rugged_index_new(i, o, h) ==
    /\ i \in Indexes \ live
    /\ live' = live \cup {i}
    /\ roots' = roots \cup {i}
    /\ owner' = [owner EXCEPT ![i] = o]

\* Repository.new and every other way to get a repository.
RepoNew(r) ==
    /\ r \in Repos \ live
    /\ live' = live \cup {r}
    /\ roots' = roots \cup {r}
    /\ ivar' = [ivar EXCEPT ![r] = Nil]
    /\ UNCHANGED <<owner, hold, native>>

\* Index.new([path])
IndexNew(i, h) ==
    /\ rugged_index_new(i, Nil, h)
    /\ IndexAlloc(h, Nil)
    /\ hold' = [hold EXCEPT ![i] = h]
    /\ UNCHANGED ivar

\* repo.merge_commits(...), and with it revert_commit, cherrypick_commit and
\* Tree#merge: the resulting index belongs to no repository in libgit2, but
\* its wrapper keeps the repository alive.
MergeCommits(r, i, h) ==
    /\ r \in roots \cap Repos
    /\ rugged_index_new(i, r, h)
    /\ IndexAlloc(h, Nil)
    /\ hold' = [hold EXCEPT ![i] = h]
    /\ UNCHANGED ivar

\* repo.index: the wrapper made by an earlier call, if there is one.
GetIndexCached(r) ==
    /\ r \in roots \cap Repos
    /\ ivar[r] # Nil
    /\ roots' = roots \cup {ivar[r]}
    /\ UNCHANGED <<live, ivar, owner, hold, native>>

\* Mutant: the wrapper borrows the index (git_repository_index__weakptr).
GetIndexOpen_Weak(r, i) ==
    /\ r \in roots \cap Repos
    /\ ivar[r] = Nil
    /\ hold[r] # Nil
    /\ rugged_index_new(i, r, hold[r])
    /\ ivar' = [ivar EXCEPT ![r] = i]
    /\ hold' = [hold EXCEPT ![i] = hold[r]]
    /\ UNCHANGED native

\* repo.index, first call, when libgit2 has the index open already.
GetIndexOpen(r, i) ==
    /\ r \in roots \cap Repos
    /\ ivar[r] = Nil
    /\ hold[r] # Nil
    /\ rugged_index_new(i, r, hold[r])
    /\ ivar' = [ivar EXCEPT ![r] = i]
    /\ hold' = [hold EXCEPT ![i] = hold[r]]
    /\ rc' = [rc EXCEPT ![hold[r]] = @ + 1]
    /\ UNCHANGED <<nowner, alive>>

\* repo.index, first call, when libgit2 has to open the index.
GetIndexLoad(r, i, h) ==
    /\ r \in roots \cap Repos
    /\ ivar[r] = Nil
    /\ hold[r] = Nil
    /\ rugged_index_new(i, r, h)
    /\ ivar' = [ivar EXCEPT ![r] = i]
    /\ h \in Handles \ alive
    /\ alive' = alive \cup {h}
    /\ rc' = [rc EXCEPT ![h] = 2]
    /\ nowner' = [nowner EXCEPT ![h] = r]
    /\ hold' = [hold EXCEPT ![i] = h, ![r] = h]

\* Mutant: an index that has an owner is accepted.
SetIndex_Unchecked(r, i) ==
    /\ r \in roots \cap Repos
    /\ i \in roots \cap Indexes
    /\ RepoSetIndex(r, hold[i])
    /\ hold' = [hold EXCEPT ![r] = hold[i]]
    /\ owner' = [x \in Rebases \cup Indexes |->
                    IF x = i THEN r ELSE IF x = ivar[r] THEN Nil ELSE owner[x]]
    /\ ivar' = [ivar EXCEPT ![r] = i]
    /\ UNCHANGED <<live, roots>>

\* Mutant: only the Ruby side is updated, git_repository_set_index is not called.
SetIndex_RubyOnly(r, i) ==
    /\ r \in roots \cap Repos
    /\ i \in roots \cap Indexes
    /\ owner[i] = Nil
    /\ owner' = [x \in Rebases \cup Indexes |->
                    IF x = i THEN r ELSE IF x = ivar[r] THEN Nil ELSE owner[x]]
    /\ ivar' = [ivar EXCEPT ![r] = i]
    /\ UNCHANGED <<live, roots, hold, native>>

\* repo.index = idx.  It raises, and changes nothing, when idx has an owner.
SetIndex(r, i) ==
    /\ r \in roots \cap Repos
    /\ i \in roots \cap Indexes
    /\ owner[i] = Nil
    /\ RepoSetIndex(r, hold[i])
    /\ hold' = [hold EXCEPT ![r] = hold[i]]
    /\ owner' = [x \in Rebases \cup Indexes |->
                    IF x = i THEN r ELSE IF x = ivar[r] THEN Nil ELSE owner[x]]
    /\ ivar' = [ivar EXCEPT ![r] = i]
    /\ UNCHANGED <<live, roots>>

\* repo.close: git_repository__cleanup gives back the index, "@index" stays.
Close(r) ==
    /\ r \in roots \cap Repos
    /\ RepoSetIndex(r, Nil)
    /\ hold' = [hold EXCEPT ![r] = Nil]
    /\ UNCHANGED ruby

\* Rebase.new(repo, ...) with inmemory: true
RebaseNew(k, r) ==
    /\ r \in roots \cap Repos
    /\ k \in Rebases \ live
    /\ live' = live \cup {k}
    /\ roots' = roots \cup {k}
    /\ owner' = [owner EXCEPT ![k] = r]
    /\ UNCHANGED <<ivar, hold, native>>

\* rebase.next: libgit2 allocates the index of an in-memory rebase with the
\* first operation and rewrites the same structure afterwards.
RebaseNext(k, h) ==
    /\ k \in roots \cap Rebases
    /\ hold[k] = Nil
    /\ IndexAlloc(h, Nil)
    /\ hold' = [hold EXCEPT ![k] = h]
    /\ UNCHANGED ruby

\* rebase.inmemory_index: a new wrapper each time, all for the same index.
InmemoryIndex(k, i) ==
    /\ k \in roots \cap Rebases
    /\ hold[k] # Nil
    /\ rugged_index_new(i, k, hold[k])
    /\ hold' = [hold EXCEPT ![i] = hold[k]]
    /\ rc' = [rc EXCEPT ![hold[k]] = @ + 1]
    /\ UNCHANGED <<ivar, nowner, alive>>

\* The Ruby program forgets an object.
Forget(x) ==
    /\ x \in roots
    /\ roots' = roots \ {x}
    /\ UNCHANGED <<live, ivar, owner, hold, native>>

\* Mutant: the wrapper goes without a call of git_index_free.
SweepWrapper_NoFree(x) ==
    /\ x \in live \ Repos
    /\ \E S \in Marked : x \notin S
    /\ live' = live \ {x}
    /\ hold' = [hold EXCEPT ![x] = Nil]
    /\ owner' = [owner EXCEPT ![x] = Nil]
    /\ UNCHANGED <<roots, ivar, native>>

\* The collector frees an unmarked wrapper of an index or of a rebase
\* (rb_git_index__free, rb_git_rebase__free): one reference less.
SweepWrapper(x) ==
    /\ x \in live \ Repos
    /\ \E S \in Marked : x \notin S
    /\ IndexFree(hold[x])
    /\ live' = live \ {x}
    /\ hold' = [hold EXCEPT ![x] = Nil]
    /\ owner' = [owner EXCEPT ![x] = Nil]
    /\ UNCHANGED <<roots, ivar>>

\* Mutant: the repository goes without a call of git_repository_free.
SweepRepo_NoFree(r) ==
    /\ r \in live \cap Repos
    /\ \E S \in Marked : r \notin S
    /\ live' = live \ {r}
    /\ hold' = [hold EXCEPT ![r] = Nil]
    /\ ivar' = [ivar EXCEPT ![r] = Nil]
    /\ UNCHANGED <<roots, owner, native>>

\* The collector frees an unmarked repository (rb_git_repo__free).
SweepRepo(r) ==
    /\ r \in live \cap Repos
    /\ \E S \in Marked : r \notin S
    /\ RepoSetIndex(r, Nil)
    /\ live' = live \ {r}
    /\ hold' = [hold EXCEPT ![r] = Nil]
    /\ ivar' = [ivar EXCEPT ![r] = Nil]
    /\ UNCHANGED <<roots, owner>>

Next ==
    \/ \E r \in Repos :
        \/ RepoNew(r)
        \/ GetIndexCached(r)
        \/ Close(r)
        \/ SweepRepo(r)
        \/ \E h \in Handles : OpenIndex(r, h)
        \/ \E i \in Indexes : GetIndexOpen(r, i) \/ SetIndex(r, i)
        \/ \E i \in Indexes, h \in Handles : GetIndexLoad(r, i, h) \/ MergeCommits(r, i, h)
    \/ \E i \in Indexes, h \in Handles : IndexNew(i, h)
    \/ \E k \in Rebases :
        \/ \E r \in Repos : RebaseNew(k, r)
        \/ \E h \in Handles : RebaseNext(k, h)
        \/ \E i \in Indexes : InmemoryIndex(k, i)
    \/ \E x \in Objects : Forget(x) \/ SweepWrapper(x)

Spec == Init /\ [][Next]_vars

-----------------------------------------------------------------------------
(* Properties                                                               *)

Holders(h) == {x \in live : hold[x] = h}

\* libgit2's count of a native index is the number of Ruby objects that will
\* give a reference back: neither a wrapper that freed too much nor one that
\* forgot to take its reference (rugged_repo.c:622-653, the dfree functions).
RefcountExact == \A h \in Handles : rc[h] = Cardinality(Holders(h))

\* No Ruby object that exists, swept last or first, refers to a native index
\* that has been freed.
NoDangling == \A x \in live : hold[x] # Nil => hold[x] \in alive

\* A native index that nothing refers to any more has been freed.
NoLeak == \A h \in alive : Holders(h) # {}

\* libgit2's back pointer from an index to its repository, which Index#add
\* and Index#write_tree follow, is to a repository that exists and uses it.
BackPointer ==
    \A h \in alive : nowner[h] # Nil => nowner[h] \in live /\ hold[nowner[h]] = h

\* The objects the program can reach have not been swept: ivar and owner
\* together keep alive all that a method of a reachable object uses.
ReachableLive == Reachable \subseteq live

\* The wrapper in "@index" names the repository as its owner, so that no
\* second repository accepts it in "repo.index = idx".
OwnerAgrees ==
    \A r \in Reachable \cap Repos : ivar[r] # Nil => owner[ivar[r]] = r

\* A repository shares its native index with the wrapper in its "@index" and
\* with no other object, in particular with no other repository.
IndexExclusive ==
    \A r \in Reachable \cap Repos : \A x \in live \ {r} :
        hold[x] = hold[r] /\ hold[r] # Nil => x = ivar[r]

\* The index in "@index" is the one libgit2 uses for the repository.
Shared(r) == ivar[r] # Nil => hold[ivar[r]] = hold[r]

\* Of all that can happen to a repository that stays within reach, only a
\* close makes the index that repo.index returns and the one that libgit2
\* uses for the repository two different ones.
OnlyCloseSeparates ==
    [][\A r \in Repos :
         Shared(r) /\ ~Shared(r)' /\ r \in Reachable' => Close(r)]_vars

=============================================================================
