-------------------------- MODULE NativeCollections -------------------------
(* The methods of references, branches, remotes, submodules and rebases,    *)
(* of the configuration and of the settings, in the vocabulary of Steps:    *)
(* what each of them holds while it may fail.                               *)
EXTENDS NativeHelpers

-----------------------------------------------------------------------------
(* References (rugged_reference.c, rugged_reference_collection.c).          *)

ReferenceCreate == Convert \o Acquire("ref") \o Check \o Wrap("ref")

ReferenceAref == Convert \o Acquire("ref") \o Missing \o Check \o Wrap("ref")

\* each and each_name
ReferenceEach ==
    Convert \o Acquire("iter") \o Check
        \o Loop(Optional(Acquire("ref") \o Wrap("ref")) \o YieldProtected)
        \o Release("iter") \o JumpTag \o Check

ReferenceExist == Convert \o Acquire("ref") \o Release("ref") \o Missing \o Check

\* The new name is converted with the reference looked up.
ReferenceRename ==
    Convert \o Acquire("ref") \o Convert \o Acquire("out") \o Release("ref") \o Check
        \o Wrap("out")

\* So is the target.
ReferenceUpdate ==
    Convert \o Acquire("ref") \o Check \o Convert \o Optional(Call) \o Acquire("out")
        \o Release("ref") \o Check \o Wrap("out")

ReferenceDelete == Convert \o Acquire("ref") \o Check \o Call \o Release("ref") \o Check

ReferencePeel ==
    Acquire("object") \o Missing \o Check \o Use("object") \o Release("object")

ReferenceTarget == Acquire("target") \o Check \o Wrap("target")

ReferenceResolve == Acquire("resolved") \o Check \o Wrap("resolved")

ReferenceLog ==
    Acquire("reflog") \o Check \o Loop(Use("reflog")) \o Release("reflog")

-----------------------------------------------------------------------------
(* Branches (rugged_branch.c, rugged_branch_collection.c).                  *)

\* Mutant: an error of the lookup leaves the name behind.
BranchLookup_Kept(r) ==
    Convert \o Optional(Allocate("ref_name")) \o Acquire(r) \o Check \o Release("ref_name")

BranchLookup(r) ==
    Convert \o Optional(Allocate("ref_name")) \o Acquire(r) \o Release("ref_name")

\* The name is converted with the commit looked up.
BranchCreate ==
    Convert \o ObjectOfType("target") \o Convert
        \o Acquire("branch") \o Release("target") \o Check \o Wrap("branch")

BranchAref == Convert \o BranchLookup("branch") \o Missing \o Check \o Wrap("branch")

BranchEach ==
    Convert \o Acquire("iter") \o Check
        \o Loop(Acquire("branch") \o Wrap("branch") \o YieldProtected)
        \o Release("iter") \o JumpTag \o Check

\* The branches that only give their names to the block are never freed.
BranchEachName ==
    Convert \o Acquire("iter") \o Check
        \o Loop(Acquire("branch") \o Use("branch") \o YieldProtected)
        \o Release("iter") \o JumpTag \o Check

BranchDelete ==
    Convert \o BranchLookup("branch") \o Check \o Call \o Release("branch") \o Check

\* The new name is converted with the branch looked up.
BranchMove ==
    Convert \o BranchLookup("old_branch") \o Check \o Convert
        \o Acquire("new_branch") \o Release("old_branch") \o Check \o Wrap("new_branch")

BranchExist == Convert \o BranchLookup("branch") \o Release("branch") \o Missing \o Check

\* The upstream of a local branch is looked up for its name and never freed.
BranchRemoteName ==
    Optional(Acquire("upstream") \o Missing \o Check \o Use("upstream"))
        \o Acquire("remote_name") \o Use("remote_name") \o Release("remote_name") \o Check

BranchUpstream == Acquire("upstream") \o Missing \o Check \o Wrap("upstream")

BranchSetUpstream == Optional(Convert \o Call \o Check) \o Call \o Check

-----------------------------------------------------------------------------
(* Remotes (rugged_remote_collection.c).                                    *)

RemoteCreate == Convert \o Acquire("remote") \o Check \o Wrap("remote")

RemoteAref == Convert \o Acquire("remote") \o Missing \o Check \o Wrap("remote")

RemoteEach ==
    Convert \o Acquire("remotes") \o Check
        \o Loop(Use("remotes") \o Optional(Acquire("remote") \o Wrap("remote")) \o YieldProtected)
        \o Release("remotes") \o JumpTag \o Check

RemoteRename ==
    Convert \o Acquire("problems") \o Check
        \o Loop(Use("problems") \o YieldProtected)
        \o Release("problems") \o JumpTag \o RemoteAref

\* delete, set_url, set_push_url, add_fetch_refspec and add_push_refspec
RemoteChange == Convert \o Call \o Check

-----------------------------------------------------------------------------
(* Submodules (rugged_submodule.c, rugged_submodule_collection.c).          *)

SubmoduleAref == Convert \o Acquire("submodule") \o Missing \o Check \o Wrap("submodule")

\* libgit2 keeps the submodule that it gives to the callback, which takes
\* another one by its name and does not look whether it has got it.
SubmoduleEachCallback ==
    Acquire("dummy") \o Ignore \o WrapAnyway("dummy") \o YieldProtected

SubmoduleEach == Convert \o Foreach(SubmoduleEachCallback) \o JumpTag \o Check

SubmoduleSetupAdd == Convert \o Acquire("submodule") \o Check \o Wrap("submodule")

\* Four settings are written one by one, after all have been converted.
SubmoduleUpdate ==
    Convert \o Optional(Convert \o Call \o Check) \o Optional(Call \o Check)
        \o Optional(Call \o Check) \o Optional(Call \o Check)

\* status, add_to_index, reload, sync, init and finalize_add
SubmoduleCall == Convert \o Call \o Check

SubmoduleRepository == Acquire("repo") \o Check \o Wrap("repo")

-----------------------------------------------------------------------------
(* Rebases (rugged_rebase.c).  The commits are looked up under rb_protect.  *)
(* libgit2 keeps the options of the checkout as long as the rebase: what is *)
(* allocated for them is never freed, and :notify is called by the later    *)
(* methods, too.  What it raises makes them fail and is not raised again.   *)
(* (What :progress raises does not even make them fail; that is left out.)  *)

RebaseNew ==
    Convert \o Acquire("branch") \o Acquire("upstream") \o Optional(Acquire("onto"))
        \o Optional(Convert \o CheckoutOptions \o Convert)
        \o Foreach(YieldProtected) \o Acquire("rebase")
        \o Release("branch") \o Release("upstream") \o Release("onto")
        \o Check \o Wrap("rebase")

RebaseNext == Foreach(YieldProtected) \o Missing \o Check

RebaseInmemoryIndex == Acquire("index") \o Check \o Wrap("index")

RebaseCommit ==
    Convert \o SignatureGet("committer") \o Optional(SignatureGet("author"))
        \o Call \o Release("author") \o Release("committer") \o Missing \o Check

RebaseAbort == Foreach(YieldProtected) \o Check

RebaseFinish == SignatureGet("sig") \o Call \o Release("sig") \o Check

-----------------------------------------------------------------------------
(* The configuration and the settings (rugged_config.c, rugged_settings.c). *)

ConfigNew ==
    Convert \o Optional(Acquire("config") \o Check \o Loop(Convert \o Call)
                            \o ReleaseOnError("config") \o Check \o Wrap("config"))
        \o Optional(Acquire("config") \o Check \o Wrap("config"))

ConfigOpen == Acquire("config") \o Check \o Wrap("config")

\* Mutant: the buffer is disposed of before the string is made of it.
ConfigGet_Disposed ==
    Convert \o Acquire("buf") \o Missing \o Check \o Release("buf") \o Use("buf")

ConfigGet == Convert \o Acquire("buf") \o Missing \o Check \o Use("buf") \o Release("buf")

ConfigDelete == Convert \o Call \o Missing \o Check

\* each_key and each_pair
ConfigEach == Foreach(YieldProtected) \o JumpTag \o Check

\* to_hash and get_all
ConfigToHash == Convert \o Foreach(<<>>) \o Missing \o Check

SetOption == Convert \o Optional(Convert \o Call \o Check)

GetOption ==
    Convert \o Optional(Acquire("path") \o Check \o Use("path") \o Release("path")) \o Convert

CollectionMethods == [
    reference_create |-> ReferenceCreate,
    reference_aref |-> ReferenceAref,
    reference_each |-> ReferenceEach,
    reference_exist |-> ReferenceExist,
    reference_rename |-> ReferenceRename,
    reference_update |-> ReferenceUpdate,
    reference_delete |-> ReferenceDelete,
    reference_peel |-> ReferencePeel,
    reference_target |-> ReferenceTarget,
    reference_resolve |-> ReferenceResolve,
    reference_log |-> ReferenceLog,
    branch_create |-> BranchCreate,
    branch_aref |-> BranchAref,
    branch_each |-> BranchEach,
    branch_each_name |-> BranchEachName,
    branch_delete |-> BranchDelete,
    branch_move |-> BranchMove,
    branch_exist |-> BranchExist,
    branch_remote_name |-> BranchRemoteName,
    branch_upstream |-> BranchUpstream,
    branch_set_upstream |-> BranchSetUpstream,
    remote_create |-> RemoteCreate,
    remote_aref |-> RemoteAref,
    remote_each |-> RemoteEach,
    remote_rename |-> RemoteRename,
    remote_change |-> RemoteChange,
    submodule_aref |-> SubmoduleAref,
    submodule_each |-> SubmoduleEach,
    submodule_setup_add |-> SubmoduleSetupAdd,
    submodule_update |-> SubmoduleUpdate,
    submodule_call |-> SubmoduleCall,
    submodule_repository |-> SubmoduleRepository,
    rebase_new |-> RebaseNew,
    rebase_next |-> RebaseNext,
    rebase_inmemory_index |-> RebaseInmemoryIndex,
    rebase_commit |-> RebaseCommit,
    rebase_abort |-> RebaseAbort,
    rebase_finish |-> RebaseFinish,
    config_new |-> ConfigNew,
    config_open |-> ConfigOpen,
    config_get |-> ConfigGet,
    config_delete |-> ConfigDelete,
    config_each |-> ConfigEach,
    config_to_hash |-> ConfigToHash,
    set_option |-> SetOption,
    get_option |-> GetOption]

=============================================================================
