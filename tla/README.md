# Rugged: TLA+ models, checks and proofs

Rugged binds libgit2 to Ruby. Its core is the C extension in `ext/rugged/` (33 C
files, about 15,900 lines) with a thin Ruby layer in `lib/rugged/`. libgit2 itself is a
submodule and not part of this repository: here it is the *environment*, modelled from how
the C code calls it, and every definition that stands for it is marked external in the map.

Most of Rugged converts values. What can go wrong in ways that a test hardly reaches comes
from six mechanisms, and the models are about these:

1. **Ownership.** A Ruby object wraps a native structure and frees it when the garbage
   collector, in any order and at any time, sweeps the object. `@owner` (and `@index`,
   `@config`) keep other objects alive. libgit2 counts references and keeps back pointers.
2. **Exceptions are long jumps.** A Ruby exception that leaves a callback would jump over
   libgit2's frames, so a callback runs its block under `rb_protect`, stores the state in a
   payload, gives libgit2 an error, and the method cleans up and jumps afterwards.
3. **Blocks run in the middle of an operation**, and may use the very objects the operation
   is working on.
4. **Other processes** use the same repository and the same configuration files; what is
   looked up may be different when it is written.
5. **Protocols**: transactions, walks and rebases are sequences of calls with a state that
   lives in libgit2 between them.
6. **Acquire, raise, release.** Nearly every method gets something from libgit2, converts Ruby
   values, any of which may raise, and has to give it back on every way out.

## Inventory

| Component | Source (`ext/rugged/` unless said) | State it keeps | Operations | What is hard |
|---|---|---|---|---|
| Core | `rugged.c`, `rugged.h`, `rugged_signature.c` | `@owner` of every object | error codes to exceptions, oids, string arrays, options | arrays copied before something raises |
| Repository, owned objects | `rugged_repo.c` 150-178, 622-713, 1903-1921 | `@index`, `@config`, native handle | `new`, `index`, `index=`, `config=`, `close`, dfree | sweep order, sharing, reference counts, stale `@index` |
| Repository, checkout | `rugged_repo.c` 2035-2502 | options, two payloads | `checkout_tree`, `checkout_index`, `checkout_head` | two callbacks that may raise, cleanup |
| Repository, rest | `rugged_repo.c`, `lib/rugged/repository.rb` | none of its own | `apply`, `merge_*`, `revert_commit`, `cherrypick*`, `status`, `each_id`, `reset*`, `clone_at`, `checkout`, object database | blocks that raise; HEAD and files updated one after the other |
| Remote | `rugged_remote.c`, `rugged_cred.c` | the connection, a payload | `ls`, `check_connection`, `fetch`, `push` | seven callbacks, nesting, disconnection, cleanup |
| Remote collection | `rugged_remote_collection.c` | none | create, rename, delete, set_url | several configuration keys per call |
| Config | `rugged_config.c` | native handle, a transaction | get, store, delete, snapshot, `transaction`, each | locks between processes, death inside a block |
| References | `rugged_reference.c`, `rugged_reference_collection.c` | native reference | lookup, create, update, rename, delete, each, reflog | lookup and write are two steps |
| Branches | `rugged_branch.c`, `rugged_branch_collection.c` | the same | lookup in three steps, create, move, delete, upstream | the same, and short names |
| Walker | `rugged_revwalk.c` | position, `:limit`, `:offset` | push, hide, sorting, reset, each, walk, count | wrap-around, nested use, exceptions |
| Index | `rugged_index.c` | native index | add, remove, `*_all`, conflicts, read, write, each | blocks that raise or change the index |
| Rebase | `rugged_rebase.c` | native rebase | new, next, commit, abort, finish, inmemory_index | order of calls, callbacks kept by libgit2 |
| Submodules | `rugged_submodule*.c`, `lib/rugged/submodule_collection.rb` | native submodule | add, update, sync, init | four writes in sequence |
| Objects | `rugged_object.c`, `_commit`, `_tag*`, `_blob`, `_tree`, `_note` | immutable objects, builders | create, read, walk, merge | acquire, raise, release; blocks |
| Diff, patch, blame | `rugged_diff*.c`, `rugged_patch.c`, `rugged_blame.c` | native diff, patch | each, merge!, find_similar! | iteration over what the block changes |
| Settings, allocator, backend | `rugged_settings.c`, `rugged_allocator.c`, `rugged_backend.c` | options of libgit2 | get, set | nothing that a model would show |
| Ruby layer | `lib/rugged/*.rb` | none | conveniences | `Repository#checkout` only |

How they interact: a Repository owns its Index and Config and keeps them alive; everything
else names the Repository as `@owner`. References, branches, remotes, submodules and config
of one repository share its files with other processes. Blocks of the program run inside
checkout, remote, apply, walker, index and diff operations, on the program's own stack.

For each component, what makes it correct: native structures are freed once and only when
nothing uses them (ownership); a block's exception ends the operation, is the one raised,
and nothing is left allocated or connected (callbacks); no write of another process is lost
unknowingly (references, config); a transaction is atomic (config); a block is given what
the options ask for, in order and once (walker, iterators).

The hazards are listed one by one, with their lines and the properties that cover them, in
`PROJECT.json`. Where a property leaves something out that the code does, or there is no
property, a note says so.

## Modules

| Module | What it is | Corresponds to |
|---|---|---|
| `RepoOwned` | Native indexes of repositories and rebases, their Ruby wrappers and the collector | `RB_GIT_REPO_OWNED_GET/SET`, `rugged_index_new`, `close`, the dfree functions |
| `RepoOwnedProofs` | Its safety properties, proved | |
| `Relay` | Abstract: what a method that runs blocks inside libgit2 promises | |
| `Checkout` | One checkout with `:notify` and `:progress` | `rugged_parse_checkout_options`, the two callbacks, the tails of the three methods |
| `CheckoutProofs` | Its safety properties and that it implements Relay, proved | |
| `Remote` | Network operations, nested in the block of `ls` | `rugged_remote.c` callbacks and methods |
| `AtomicConfig` | Abstract: a file with atomic transactions | |
| `Config` | Config objects of several processes on one file | `rugged_config.c` get, store, delete, snapshot, transaction |
| `NestingProofs` | Config implements AtomicConfig; the lock of Config, and the properties of Remote and that it implements Relay, proved | |
| `References` | Reference and branch methods of several processes | `rugged_reference_collection.c`, `rugged_branch_collection.c` |
| `Descent` | An order in which what a method has left to do gets smaller | |
| `Index` | The entries of an index and one iteration with a block | `rugged_index.c` without the file, diffs and written trees |
| `IndexProofs` | Its iterations implement Relay, change what the block accepted, show all entries in order and come to an end, proved | |
| `Walk` | One walker, its walks and its blocks | `do_walk`, `rb_git_walk`, `rb_git_walk_with_opts`, `load_*` |
| `LoopProofs` | The safety properties of Walk and Objects, proved | |
| `ReferencesProofs` | Its three properties, proved | |
| `Worktree` | `Repository#checkout` by several processes, while branches move and the user works on files and the index | `lib/rugged/repository.rb` 29-54 |
| `WorktreeProofs` | Its three properties, proved | |
| `Steps` | The vocabulary in which a native method is written down | |
| `Calls` | How such a method runs, and a discipline that can be read off its steps | `rugged_exception_check`, `rb_jump_tag`, the cleanup of each method |
| `CallsProofs` | What the discipline is good for, proved | |
| `NativeHelpers` | Conversions that methods share; `rugged.c`, `rugged_object.c`, `rugged_signature.c` | one definition per function |
| `NativeRepository` | `rugged_repo.c` but for `RepoOwned` and `Checkout` | one definition per method |
| `NativeObjects` | Trees, commits, blobs, tags, notes | one definition per method |
| `NativeDiff` | Diffs, patches, blames | one definition per method |
| `NativeCollections` | References, branches, remotes, submodules, rebases, configuration, settings | one definition per method |
| `Objects` | What Rugged computes of contents itself, and `Blob.from_io` | `text`, `loc`, `sloc`, `count_recursive`, `rb_git_blob_from_io` |
| `MC*` | Instances for TLC | |

### RepoOwned

State: which Ruby objects exist (`live`) and which the program refers to (`roots`); `@index`
(`ivar`) and `@owner`; the native index each C structure points to (`hold`); libgit2's
reference count, back pointer and allocation (`rc`, `nowner`, `alive`). There is one action
per method. The collector is conservative: it may mark any set that contains the roots and
is closed under instance variables, and sweeps what is not in it, one object at a time and in
any order, between any two calls. `Index.new`, `repo.index` (three cases: cached, opened
before by libgit2, opened now), `repo.index =`, `merge_commits` (with `revert_commit`,
`cherrypick_commit` and `Tree#merge`, which end in the same call), a rebase with its
in-memory index, `close`.

Names of swept objects and freed structures are used again, as addresses are, so a stale
pointer in the model would point at something alive, and be noticed by the counts.

### Relay, Checkout and Remote

`Relay` is the contract: blocks run one at a time, the first that raises is the last that
runs, and the method raises that exception and returns only if there was none.

`Checkout` follows one call through its phases: arguments, payloads, rest of the options,
libgit2's two visits (decide, then update), the tail. Callbacks may raise at each call.
`Remote` has a stack of operations, because the block of `ls` may start another one on the
same remote. `connected` and `gen` are the transport; a list of heads belongs to the
connection `gen` under which it was made. Which callbacks there are depends on the phase; the
payload is shared by all of one operation, as in the code.

### AtomicConfig and Config

`AtomicConfig` has a file, at most one open transaction with its changes (`delta`) and a
commit in one step. `Config` has the lock file, libgit2's copy of the contents and the
stacks of running blocks; `git_config_lock` may fail, which the code ignores: such blocks
are "unlocked" and the process may then die, because the code uses an uninitialised pointer.
The refinement mapping takes the abstract open transaction to be the holder of the lock.
Reading never sees the copy, as the documentation of `transaction` says.

### References

Each method is a lookup, or up to three for a short branch name, and then one change in
libgit2, which locks the reference and compares its value with the one that was found.
Between any two of these steps other processes take theirs. A name is the sequence of its
components, so the three candidates of `rugged_branch_lookup` are concatenations.
A program may keep the object it was given and use it later; only its name is used then.

### Index

The entries are a set of path, stage and content, at most one for a path and a stage; libgit2's
vector is that set in order (`Vector`: an entry is where the number of entries before it says). The
program changes the index by itself (`Edit`), before it iterates or in its block, and calls one
of `each`, `add_all`, `update_all`, `remove_all`. `each` and `remove_all` go by position in a
vector that shrinks and grows under them; the other two by a comparison with the working
directory made at the start. If the block of `remove_all` removes the entry that libgit2 holds,
libgit2 reads its path from freed memory: any path. An entry that `conflict_add` has not filled
in is any entry. Exceptions take the way of Relay: `rugged__index_matched_path_cb` stores the
state, libgit2 gives up, the method jumps.

### Walk

`do_walk` with the two counters as unsigned integers that wrap at `UINT64_MAX`. The walker of
`Walker#each` keeps its position between calls, and its block may reset it, push to it or
walk with it (`Disturb`).

The method is one action per turn of the loop, and `FairSpec` says that it goes on and that a block
ends, which is what `EventuallyFreed` and `LimitedEnds` need.

### Worktree

`Repository#checkout` is Ruby and consists of calls to other parts: it looks a branch up, checks
files out and writes HEAD, in an order that depends on the target (`Order`). The module composes
what `References` and `Checkout` have in detail into one step each: a lookup, a checkout of files,
which may write only some of them and fail, and an update of HEAD. A call may also stop before any
of them, because something raises or the process dies; whatever that leaves behind is where the next
call starts. `index` is which paths the index lists: it is saved last, so that a checkout that stops
midway may leave files which it does not know of. Meanwhile the user edits, makes and removes files
(`Edit`) and adds them to the index or takes them out (`Stage`). `since` records what there was when
a call began, until something else happens: what a checkout promises, it promises if it is alone.

`Updates` and `Conflict` are libgit2's strategies. `:safe`: what a file is expected to be is what it
is in HEAD *at that moment* (the default baseline, `rugged_repo.c:2359`), a file that is expected
and wanted to be the same is not looked at, and one that is to be added must not be there. `:force`
makes files like the target and removes those that only HEAD or the index have; to remove others
is what `:remove_untracked` is for (`rugged_repo.c:2273-2281`), so untracked files stay. A checkout
of HEAD raises when HEAD has no commit (`Unborn`).

What a checkout promises is therefore told with two exceptions (`Clean`): a safe one leaves what the
user had changed, and one by force leaves what was untracked when it began, such as a file which an
earlier checkout that died has added. `UserFilesKept` says that these files (`Spared`) are not only
permitted to be different but left as they were, at every moment of the call.

### Steps, Calls and the Native modules

Most methods of the extension are short and keep no state, and what is hard about each is the
same: it must not lose or use twice what it has acquired, whichever of its calls fails and
whichever conversion raises, and it must not let an exception pass through libgit2. So these
methods, 137 of them, are data: sequences of *steps*, such as `Convert` (a Ruby value is checked,
may raise), `Acquire` (a call of libgit2 that returns something to be freed, or fails), `Wrap` (it
is handed to a Ruby object), `Release`, `Check` (`rugged_exception_check`), `YieldProtected` and
`JumpTag` (a block under `rb_protect`, and what makes up for it), `Foreach` (libgit2 calls back
any number of times), `Loop`, `Optional`. `Calls` runs them, one step at a time: what a method
holds, has given away, whether libgit2 is calling back, whether a call has failed or a block has
raised, and `Skip`, the `goto cleanup` of the code. Each step is a line or a block of lines of C,
in their order; the helpers of `rugged.c` that methods call are inlined as they are in the C code.

Five constants list what methods do that the properties do not allow. They were
found by TLC, one run at a time, and checked against the code; `MCCalls` gives them:

* `KnownLeaks`: 32 methods that lose something when an exception of Ruby passes over them,
  because they convert or yield with something in hand (`rugged_commit.c:429`: a wrong option
  of `Commit.create` loses the signatures, the tree and the parents).
* `KnownLosses`: 8 methods that never free something, also when all goes well: the pathspec of
  `Blob#diff` and `Patch.from_strings`, the references to both databases of a repository with
  a backend (`rugged_repo.c:268`), a branch in `each_name`, the upstream in `remote_name`, the
  copied `:headers` of `clone_at` (`rugged_repo.c:545`, with no counterpart in 611-619), the
  payloads of `:progress` and `:notify` and the copied `:paths` of `Rebase.new`
  (`rugged_rebase.c:43`, with no counterpart in 184-194).
* `KnownJumps`: `Tree::Builder#reject!` (`rugged_tree.c:903`), `Diff#write_patch`
  (`rugged_diff.c:244`), `each_note` (`rugged_note.c:265`) and a clone whose `:certificate_check`
  answers with no boolean: there an exception jumps over libgit2.
* `KnownSilent`: `apply`, which makes an error of libgit2 of its block's exception
  (`rugged_repo.c:435`), and `new`, `next` and `abort` of a rebase, which do the same with that of
  `:notify`: `rugged_rebase.c` never looks at the payload. (What `:progress` raises there does
  not even become an error; it is left out of the scripts.)
* `KnownWild`: `SubmoduleCollection#each` and `Tag#annotation` wrap an uninitialised pointer after
  some errors (`rugged_submodule_collection.c:112`, `rugged_tag.c:171`).

The lists are per method and resource, and all else is checked.

The discipline is the reason why the methods are safe, as two computations over the steps. The
first (`Shape`, `Disciplined`) is about what a method has: what may be held at each step when all
went well (`may`) and when something failed (`bad`), whether anything can have failed or raised,
and whether libgit2 is calling back; a loop must give back what it takes in a turn. The second
(`Supply`, `Provident`) is about what it does not have: which resources it may lack and which it
may have freed or handed over already.

### Objects

`Blob#text`, `loc`, `sloc` and `Tree#count_recursive` are loops in C over the contents; the module
has the loops as recursive functions of the position (`Seek`, `Tally` and the like), and the
properties say what the answers mean without a loop. That `sloc` is the number of lines that are not
blank is said of texts that neither begin with a blank line nor end in one without a line feed; of
the others it does not hold, against the documentation. `Blob.from_io` is a protocol with an IO of
the program, which returns what it likes from `read`: the blob is what was read, in order, and a
read that is not full ends it.

## Runs

| Run | Instance | Shows |
|---|---|---|
| `owned` | 2 repositories, 1 rebase, 3 wrappers, 4 native indexes | Counts are exact, nothing dangles or leaks, back pointers agree, no index has two repositories, and only `close` makes `repo.index` and libgit2's index two |
| `checkout` | 3 paths | An exception of `:notify` cancels before any file is touched, the payloads are freed; without `:progress`, Relay |
| `remote` | 2 heads, 2 tips, 3 blocks per operation, 3 operations | ls and check_connection disconnect, memory is released, a failed tip cancels the others, ls reads heads of its own connection as long as its block leaves the remote alone, Relay |
| `config` | 2 objects, 2 keys, 1 value (and absent), nesting 2 | The lock is held exactly in the block, transactions are atomic for every reader and no write of another is lost |
| `references` | 2 processes, HEAD, one name as local and as remote-tracking branch, 2 oids | No value is lost, `update` keeps the kind of a reference, a local branch that is there is what a short name finds |
| `index` | 2 paths, each with no entry, one, or a conflict; files there or not; 1 change by the program | Exactly the paths that the block accepted are changed, also if it then raises; each runs its block at most once per entry and shows all of them in order; every step and every end of the block brings the end nearer; Relay |
| `index_conflict` | the same | **Violation**: a conflict without `:ours` or `:theirs` is not the one that was given |
| `walk` | histories of 0 to 3 commits, `:offset` and `:limit` in {0, 1, 2, 5}, wrap at 6 | The window is exact, the walker is freed on every way out and is freed at last, every step and every end of the block brings the end nearer, a walk with a limit ends although its block resets the walker |
| `calls` | the 137 scripts, 3 turns of loops per call | But for the listed exceptions: nothing acquired is lost, nothing is used that is not held or freed twice, no exception jumps over libgit2, Relay; and each script keeps to the discipline |
| `objects` | texts of up to 5 characters of 4 kinds, trees of up to 5 entries, limits from none to 3, reads of up to 2 | `text`, `loc`, `sloc` and `count_recursive` are what they mean, told without their loops (`sloc` but for blank lines at the two ends); the blob of an IO is what was read |
| `worktree` | 1 process (calls one after the other, each stopped anywhere), 2 commits, 2 files, one of which only one commit has, 2 local and 1 remote branch | After a checkout of a branch, HEAD, or a commit by force, the files are those of HEAD but for the user's; one that fails leaves HEAD; what the user had changed (safe) or not tracked (by force) is never touched |
| `worktree_commit` | the same, commits only | **Violation**: a checkout of a commit leaves the files of the old one |

Why the bounds are enough: two repositories are needed for an index to pass from one to the other,
three wrappers for one to be replaced while another is in hand, and four native indexes for every
holder to have its own. A checkout has paths before, at and after the one whose callback raises.
Three operations on a remote nest twice or run one after the other. A transaction that locks, one
that does not get the lock and a nested one need two objects and two levels, and atomicity needs
two keys. Two processes are enough for every race between a lookup and a write, since what the
first sees is only the state that the second leaves. With one local name there is no branch to
move to: moving is checked through `references.rename`, which is the same action. Two paths with
up to two stages are enough for an entry before, at and after the one that moves the positions,
and one change of the program for every entry to come or go during a block. Histories of up to
three commits and limits of zero, one, less and more than that take every branch of `do_walk`, and
the wrap-around is at the largest option. Three turns are enough to go through a loop, fail in it
and go through one inside it; that more turns add nothing is what `KeepsDiscipline` and
`CallsProofs` say. Five characters hold a line, a blank line and another with any of the three
line ends between them. In a checkout of the working directory another process can only end what a
call promises, since it is not alone any more; one process is checked, which may die and begin
again, and any number is proved. One of the two files
differs between the commits and the other is in one of them only, so that a checkout updates, adds
and removes. Local branches are symmetric: nothing tells them apart but their names.

`CHECK_DEADLOCK FALSE` is set where a method or a program may come to its end: all runs but
that of `RepoOwned`.

Fairness: only `Walk` assumes any (`FairSpec`): the method goes on in the thread that has called
it, as C code does, and a block ends, by returning or raising, after it has used the walker as
often as it likes. A program need not call anything, and for no other module is anything assumed:
nothing in this code waits for another party except inside libgit2, and whether a block returns is
up to the program. The other properties are invariants, action properties and refinements, and
hold without fairness.

### Disagreements found

Two are runs of their own:

1. `Index#conflict_add` tests `:theirs` before it passes `:ours` on, and the other way round
   (`rugged_index.c:787`, run `index_conflict`).
2. `Repository#checkout` of a commit with the default strategy writes HEAD first, so that the safe
   checkout that follows finds nothing to do and leaves the old files
   (`lib/rugged/repository.rb:51`, run `worktree_commit`).

The models show these too; the properties name what they leave out because of them:

3. `Repository#close` says that the repository can still be used; `@index` is kept and
   libgit2 opens another index, so that changes through `repo.index` and operations of
   libgit2 are on two different ones (`rugged_repo.c:1918`; `OnlyCloseSeparates`).
4. With `:notify` and `:progress`, the exception of `:notify` is overwritten; an exception of
   `:progress` is overwritten by its own next call, and the checkout then succeeds
   (`rugged_repo.c:2401`, 2048; `RelaySpec` of `Checkout` is about checkouts without `:progress`).
5. `Remote#ls` iterates over heads that another use of the remote in its block has freed
   (`rugged_remote.c:366`; `HeadsFresh`).
6. `Config#transaction` ignores a failure to lock (`rugged_config.c:362`; the blocks that are
   "unlocked" in `Config`).
7. What the five lists of `MCCalls` name (see *Steps, Calls and the Native modules*).
8. `Blob#sloc` also counts an empty line at the beginning of a text, and a blank one at its end
   without a line feed (`rugged_blob.c:360`, 369; a text of one line feed has one), against 340,
   "the number of non-empty code lines" (`SlocRight` leaves these texts out). `Blob.from_io` stops
   at a read that is not full (`rugged_blob.c:283`), where an IO may return less than it was asked
   for before its end (230-231; `FromIoRight`). `count_recursive` takes the limit of entries for
   that of trees if only the first is given.
9. A Branch object that is not up to date is checked out with the files of its old commit while
   HEAD points to the branch (`BranchCheckedOut`, `stale`).

`OnlyWanted` holds for a block that answers the same for every stage of a path. Without that
condition TLC finds a block of `remove_all` that refuses stage 2 and accepts stage 3: libgit2
then removes both, the positions move by two instead of one, and the next path is passed over.
Nothing promises what such a block gets, so this is no run.

## Proofs

TLC looks at the instances above; the theorems below hold for all values of the constants.

* `RepoOwnedProofs`. **Assumptions**: the kinds of objects are disjoint and finitely many, and
  nil is none of them (`KindsAssumption`). The properties are not inductive. That `repo.index =
  idx` keeps an index to one repository depends on what else holds the native index of `idx`,
  and `@owner` tells that only as long as the collector has not swept the owner. `IInv` adds:
  objects that do not exist hold nothing (`Unborn`), allocation and count agree (`AliveExact`),
  libgit2's owner is the repository that uses the index (`OwnerExact`), whatever else holds the
  index of a repository or a rebase names it as owner (`HostExclusive`), two wrappers share an
  index only if it is a rebase's (`Twins`), and there is a set that the collector may mark in
  which all objects are live and agree with each other (`Kept`). One lemma per action shows
  that it keeps `IInv`; `Rehold` and `Recount` do the counting. `RefcountCorrect`, `MemorySafe`,
  `BackPointerCorrect`, `NothingLeaks`, `ExclusiveCorrect` and `OwnershipCorrect` follow.
  `SeparatedByClose` is about steps: while a repository is within reach no step but its own `close`
  makes `repo.index` and libgit2's index two, because the wrapper in `@index` is alive, is its own
  (`Known`) and holds something (`Filled`).
* `CheckoutProofs`. **Assumption**: the number of paths is a natural number. `IInv` adds to the
  properties what has not begun yet in each phase (`Order`), how the calls are bounded by the
  visits (`CallsBounded`), and what a payload knows (`Payloads`): that of `:notify` remembers an
  exception because no call follows, that of `:progress` knows the last call only, which is why
  `RelaySpec` leaves checkouts with `:progress` out.
  `CheckoutReleases` is about the payloads and the copied `:paths` from the first decision of
  libgit2 on.
* `IndexProofs`. **Assumptions**: there are finitely many paths, numbered in their order, and "no
  file" is not the content of one; what programs load has one entry for a path and a stage
  (`LoadsAssumption`, as any index of libgit2); stages are integers; the bound on the changes of the
  program is a natural number (`BoundAssumption`). `Carried` says that the payload holds the
  exception of the block and that only the end follows it; every step is then one of
  three (`Stutters`, `Calls`, `Ends`), and `IterationsRelay` follows. `IterationsFaithful` and
  `EachFaithful` are about the entries. `InOrderIs` shows of any finite ordered set that sorting
  finds each member at the place its rank gives, and `VectorRemoved` that removing entries from a
  position on moves none of those before. `Done` says that the index is what the paths wanted so
  far make of it, but for the one in hand; `DeltasSeen` and `EntriesSeen` say that all before the
  position have been asked about, `Each` what the block of `each` was given.
  `IterationsEndSooner` is about what is left of a method (`Left`: parts of it, positions up to
  `LoopEnd`, and what is to be done at one): each step makes it smaller in the order of `Descent`.
  `AtEntry` is what it needs: a block runs, and its answer is applied, only at a position before
  the end of the loop. `IndexTyped` is the type invariant, for stages and sides of conflicts of
  any kind.
* `NestingProofs`. **Assumptions**: the special values of `Config` are distinct from the others, and
  the bounds of `Remote` are natural numbers.
  For `Config`, `IInv` is the type invariant with `LockHeldInBlock` and `CopyUpToDate`, which
  need each other: the copy is up to date because nobody else writes under the lock, and the lock
  is held just as long as the block that took it. `TransactionsAtomic` shows that each step maps
  to a step of `AtomicConfig` or a stutter: a commit, which replaces the file by the copy, is the
  overlay of the changes on the file by `CopyUpToDate`. For `Remote`, the invariant is about each
  frame of the stack by itself (`Steady`) and about the whole stack (`Nested`): all but the top are
  in the block of an `ls`. All actions are one of three: an operation starts, the innermost goes
  on, or it ends (`RemoteSteps`). `RemoteDisconnects`, `RemoteReleases`, `RemoteHeadsFresh`,
  `RemoteTipsCancelled` and `RemoteKeepsRelay` follow, for any nesting and any number of heads,
  tips and blocks. `RemoteTyped` needs `Fits` of each frame, which relates the blocks that have
  run to the heads that were read and to whether another is running, and `Within` of the stack.
* `LoopProofs`. For `Walk`, **assumptions**: histories are shorter than `UINT64_MAX`, and options
  are unsigned integers. `IInv` says what the counters stand for while the loop runs: `Position`
  relates the walker's position to the offset skipped and the commits yielded, `Countdown` relates
  the remaining limit to the commits counted, with the wrap-around for a limit of 0. `WindowCorrect`
  and `WalkerFreed` follow. `WalkEndsSooner` says that each step and each end of a block makes
  `Left` smaller, where a limit of 0 counts as `UINT64_MAX + 1`, so that a block which resets the
  walker each time does not put the end off for ever. `DescentEnds` shows that there is no infinite
  descent of such triples: a set of natural numbers with no least element is empty, three times
  over. For `Objects`, **assumptions**: texts and trees are sequences, of characters and of entries,
  and a limit is an integer (`ContentsAssumption`). The loops are recursive functions; for each a
  lemma says what it has found or counted at a position, by induction over the positions, which is
  made of facts about well-founded sets that take no operator: a set of natural numbers with no
  least element is empty. `TextCorrect`, `LinesCorrect`, `CountCorrect` and `FromIoCorrect` follow
  for texts and trees of any size and any limit. The invariant has what `sloc` is of every text,
  blank lines at the two ends included (`SlocExact`); `LinesCorrect` says of it only what its
  documentation does.
* `ReferencesProofs`. **Assumption**: no reference has the empty name (`NamesAssumption`). `Typed`
  and `RenamesTo` are what has to be known of a call; `Stayed` is the heart of `LocalFirst`:
  whatever has existed since a lookup began still exists, and no name that the lookup has tried is
  among it. `Changes` says that only the end of a method changes references; each of the four
  changes is then justified by what libgit2 compares as it writes (`NoLostReference`,
  `KeepsKind`). `ReferencesTyped` adds what references, kept objects and calls contain
  (`Contents`).
* `WorktreeProofs`. **Assumptions**: branches, commits and "no branch" are different things. `IInv`
  follows a call that is alone: before the files are written, what the user had changed is still so
  (`Untouched`) and what was untracked is (`Apart`); after that each file is the target's or one of
  those (`Written`), and HEAD is what it was until it is written last; a checkout of HEAD, of a
  branch and of a commit each have their order (`HeadReady`, `BranchReady`, `CommitReady`). The
  user's files are as they were all along (`Kept`), because what is written is none of them
  (`UpdatesSpare`): a changed one would be a conflict, or is not looked at, and an untracked one is
  neither in HEAD nor in the index nor in the target. `Sound` is what this amounts to at the end;
  `ChecksOut`, `KeepsHead` and `KeepsUserFiles` follow. Calls that are not alone need nothing, which
  is why any number of processes makes no difference.
* `CallsProofs`. **Premises**: `Disciplined` and, for `CallsNoWildUse`, `Provident`, that the states
  which `Shape` and `Supply` compute for each script agree with each other and allow each step; run
  `calls` checks them for the scripts of this code (`KeepsDiscipline`, of the method that is
  called, and every method is called). **Assumption**: scripts are sequences of steps. `IInv` says
  that what the first computes for the next step is true of the call; then `CallsNothingLost`,
  `CallsNoJump` and `CallsRelay` hold for any number of turns, where TLC stops at three. `SInv` says
  the same of the second, of what a call lacks and has spent (`Facts`), and gives `CallsNoWildUse`.
  `CallsTyped` is the type invariant: the jumps to the cleanup, over blocks and back stay inside the
  script.
  All are about everything but what the lists name.

Only model-checked: the liveness properties of `Walk`, and `KeepsDiscipline`. All other invariants,
action properties and refinements of the passing runs are proved. The type invariants of
`RepoOwned`, `Checkout`, `Config`, `Remote`, `References`, `Index`, `Walk` and `Calls`, and
`LimitHolds`, `ReachableLive`, `CopyUpToDate`, `OwnerAgrees` and others that are parts of an
inductive invariant, are proved and not run; `AtomicSpec` fails where `CopyUpToDate` does, and
`IndexExclusive` where `OwnerAgrees` does.

Out of the prover's reach, and with TLC: liveness under fairness. Of `EventuallyFreed` and
`LimitedEnds` the part that is about the code is proved, that no step of a walk fails to bring its
end nearer and that this cannot go on for ever (`WalkEndsSooner`, `DescentEnds`), and so is that
the walker has been freed when the method is over (`WalkerFreed`); what is left to TLC is that the
steps are taken, which is the fairness, and that one can always be. What the folds over a script
compute is out of reach too, so that `KeepsDiscipline` is a computation for the scripts that are
written down, and so is sorting with an operator as the order, which is why `Index` has its orders
as sets of pairs.

## Not modelled, and why

* What libgit2 keeps for itself and Rugged only passes on: the state of a rebase (what `next`,
  `commit`, `abort` and `finish` may be called after), what a merge, an apply or a cherry-pick
  writes, the values of upstreams and remotes in the configuration. The methods' own steps are in
  `Calls`.
* `Submodule#update` makes four writes to the configuration, each of which may fail after the others
  (`rugged_submodule_collection.c:284`): nothing says what should be left.
* The callbacks of a rebase are not marked for the collector while libgit2 has them
  (`rugged_rebase.c:43`); the references that a server rejects are delivered one by one and an
  exception may come before the last (`rugged_remote.c:55`); `Diff#each_patch` counts once, and
  its block may change the diff (`rugged_diff.c:460`). What libgit2 does then cannot be read off
  this repository.
* The conversion of values (entries, deltas, signatures, option hashes): data without state.
  That an option may be refused, and where, is modelled.
* Frozen Ruby objects, and memory that runs out.
* Ruby threads: the extension gives up the interpreter's lock only in the diff of two trees,
  whose parallel part is in libgit2.
* What an index reads from its file and writes to it: `reload` puts any entries in its place, and
  two processes that write the same index file overwrite each other, which nothing promises to
  avoid. `reload` asks libgit2 to read only if the file has changed (`rugged_index.c:104`), so
  that changes which were not written may survive it, against its documentation.
* `@config` of a repository: the same macros as `@index`.
* Memory that leaks when an option is refused is in the models (`RefuseOptions`, `Refuse`,
  `Convert`) and excepted from the properties (`MemoryReleased`, `KnownLeaks`), since it is what
  the code does and nothing promises otherwise.
* `Rugged::Backend` has no methods, the allocator is a table of three functions, and the Ruby
  layer but for `Repository#checkout` prints, compares and delegates.
* That the object of a deleted reference goes on working under its old name, and that the
  lookup of a branch finds `tags/x`, contradict the documentation
  (`rugged_reference_collection.c:373`, `rugged_branch_collection.c:159`) and are not runs.

## Plan

The plan was: ownership; Relay with Checkout, Remote and Index; Config; References; Walk; the
methods that run blocks; those that acquire, raise and release; `Repository#checkout`; the proofs.
All of it is done but for one point: a module for the rebase protocol would be a model of libgit2
and not of this code.
