------------------------------ MODULE MCCalls -------------------------------
EXTENDS Calls, NativeRepository, NativeObjects, NativeDiff, NativeCollections

MCScript == HelperMethods @@ RepositoryMethods @@ ObjectMethods @@ DiffMethods @@ CollectionMethods
MCMethods == DOMAIN MCScript

KnownIn(known) == [m \in MCMethods |-> IF m \in DOMAIN known THEN known[m] ELSE {}]

MCKnownLosses == KnownIn([
    open_bare_backend |-> {"odb", "refdb"},
    init_at_backend |-> {"odb", "refdb"},
    blob_diff |-> {"pathspec"},
    patch_from_strings |-> {"pathspec"},
    branch_each_name |-> {"branch"},
    branch_remote_name |-> {"upstream"},
    clone_at |-> {"headers"},
    rebase_new |-> {"progress", "notify", "paths"}])

MCKnownLeaks == KnownIn([
    minimize_oid |-> {"shortener"},
    open_bare |-> {"repo", "alternates"},
    open_bare_backend |-> {"repo", "alternates", "refdb_backend"},
    init_at_backend |-> {"refdb_backend"},
    repo_new |-> {"repo", "alternates"},
    merge_base |-> {"oids"},
    merge_bases |-> {"oids"},
    write |-> {"odb"},
    reset_path |-> {"pathspecs"},
    tree_update |-> {"updates"},
    commit_amend |-> {"tree", "committer"},
    commit_create |-> {"committer", "author", "tree", "parents"},
    commit_create_to_s |-> {"committer", "author", "tree", "parents"},
    blob_from_io |-> {"stream"},
    blob_to_buffer |-> {"blob"},
    tag_create |-> {"target", "tagger"},
    tag_create_annotation |-> {"target", "tagger"},
    each_tag |-> {"tags"},
    note_create |-> {"committer", "author"},
    note_remove |-> {"committer"},
    note_each |-> {"annotated"},
    commit_to_mbox |-> {"pathspec"},
    diff_index |-> {"pathspec"},
    diff_tree |-> {"pathspec"},
    diff_workdir |-> {"pathspec"},
    reference_rename |-> {"ref"},
    reference_update |-> {"ref"},
    branch_create |-> {"target"},
    branch_move |-> {"old_branch"},
    rebase_new |-> {"branch", "upstream", "onto"},
    rebase_commit |-> {"committer"},
    config_new |-> {"config"}])

MCKnownJumps == {"builder_filter", "clone_at", "note_each", "write_patch"}
MCKnownSilent == {"apply", "rebase_new", "rebase_next", "rebase_abort"}
MCKnownWild == {"submodule_each", "tag_annotation"}

=============================================================================
