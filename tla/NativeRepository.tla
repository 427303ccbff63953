-------------------------- MODULE NativeRepository --------------------------
(* The methods of Rugged::Repository (rugged_repo.c), in the vocabulary of  *)
(* Steps, but for those of RepoOwned and Checkout.                          *)
EXTENDS NativeHelpers

RawRead ==
    Acquire("odb") \o Check
        \o Acquire("odb_object") \o Release("odb") \o Check \o Wrap("odb_object")

-----------------------------------------------------------------------------
(* Opening.                                                                 *)

LoadAlternates ==
    Convert \o Acquire("alternates") \o Check
        \o Loop(Convert \o Call) \o Release("alternates") \o Check

\* A backend belongs to its database once it has been added.  The repository
\* takes references of its own to both databases; those of the method are
\* given up on the way of errors only.
NewWithBackend ==
    Convert \o Acquire("odb")
        \o Acquire("odb_backend") \o Call \o Release("odb_backend")
        \o Acquire("repo") \o Acquire("refdb")
        \o Acquire("refdb_backend") \o Call \o Wrap("refdb_backend")
        \o Acquire("head") \o Release("head")
        \o ReleaseOnError("repo") \o ReleaseOnError("odb") \o ReleaseOnError("refdb")
        \o Check

OpenPath == Convert \o Acquire("repo") \o Check

OpenBare(open) == Convert \o open \o Optional(LoadAlternates) \o Wrap("repo")

RepoNew == OpenPath \o Optional(LoadAlternates) \o Wrap("repo")

InitAt(open) == Convert \o open \o Wrap("repo")

\* The answer of :certificate_check is converted outside of rb_protect.
CloneCallback == YieldProtected \o Optional(Convert)

\* The headers are never freed.
CloneAt ==
    Convert \o Optional(StrarrayFromAry("headers") \o Convert)
        \o Convert \o Foreach(CloneCallback) \o Acquire("repo") \o JumpTag \o Check
        \o Wrap("repo")

Discover ==
    Convert \o Acquire("path") \o Check
        \o Use("path") \o Acquire("repo") \o Release("path") \o Check \o Wrap("repo")

-----------------------------------------------------------------------------
(* Merging and applying.                                                    *)

\* The ids are converted one by one into an array that is allocated first;
\* in merge_base before the arguments are counted.
MergeBase ==
    Allocate("oids") \o Convert \o Loop(OidGet) \o ReleaseOnError("oids") \o Check
        \o Call \o Release("oids") \o Missing \o Check

\* An array of bases that does not exist is empty.
MergeBases ==
    Convert \o Allocate("oids") \o Loop(OidGet) \o ReleaseOnError("oids") \o Check
        \o Acquire("bases") \o Release("oids") \o Missing \o Check
        \o Use("bases") \o Release("bases")

MergeAnalysis ==
    Optional(RevParse) \o Convert
        \o Acquire("annotated") \o Check \o Call \o Release("annotated") \o Check

\* nil is the answer to a conflict.
MergeCommits ==
    Loop(Optional(RevParse) \o Convert) \o Convert
        \o Acquire("index") \o Missing \o Check \o Wrap("index")

RevertCommit == MergeCommits

CherrypickCommit ==
    Loop(Optional(RevParse) \o Convert) \o Convert
        \o Acquire("index") \o Check \o Wrap("index")

Cherrypick == Optional(RevParse) \o Convert \o Call \o Check

\* What the callbacks raise fails the application and is not raised again.
Apply == Convert \o Foreach(YieldProtected) \o Check

-----------------------------------------------------------------------------
(* The object database.                                                     *)

Exists ==
    Convert \o Call \o Check \o Acquire("odb") \o Check
        \o Call \o Release("odb") \o Ignore

RepoRead == Convert \o Call \o Check \o RawRead

ReadHeader ==
    Convert \o Call \o Check \o Acquire("odb") \o Check
        \o Call \o Release("odb") \o Check

ExpandOids ==
    Loop(Convert \o Call \o Check) \o Convert
        \o Acquire("odb") \o Check \o Call \o Release("odb") \o Check

DescendantOf == OidGet \o Check \o OidGet \o Check \o Call \o Check

\* The type is converted with the database open.
RepoWrite ==
    Convert \o Acquire("odb") \o Check \o Convert
        \o Acquire("stream") \o Release("odb") \o Check
        \o Call \o Call \o Release("stream") \o Check

EachId ==
    Acquire("odb") \o Check \o Foreach(YieldProtected) \o Release("odb") \o JumpTag \o Check

-----------------------------------------------------------------------------
(* The rest.                                                                *)

GetHead == Acquire("reference") \o Missing \o Check \o Wrap("reference")

EachStatus ==
    Convert \o Acquire("status") \o Check
        \o Loop(Use("status") \o YieldProtected) \o Release("status") \o JumpTag

ResetTo == Convert \o ObjectGet("target") \o Call \o Release("target") \o Check

ResetPath ==
    StrarrayFromAry("pathspecs") \o Optional(ObjectGet("target"))
        \o Call \o StrarrayDispose("pathspecs") \o Release("target") \o Check

DefaultSignature ==
    Acquire("signature") \o Missing \o Check \o Use("signature") \o Release("signature")

DiffFromBuffer == Convert \o Acquire("diff") \o Check \o Wrap("diff")

RepositoryMethods == [
    open_bare |-> OpenBare(OpenPath),
    open_bare_backend |-> OpenBare(NewWithBackend),
    repo_new |-> RepoNew,
    init_at |-> InitAt(OpenPath),
    init_at_backend |-> InitAt(NewWithBackend),
    clone_at |-> CloneAt,
    discover |-> Discover,
    merge_base |-> MergeBase,
    merge_bases |-> MergeBases,
    merge_analysis |-> MergeAnalysis,
    merge_commits |-> MergeCommits,
    revert_commit |-> RevertCommit,
    cherrypick_commit |-> CherrypickCommit,
    cherrypick |-> Cherrypick,
    apply |-> Apply,
    exists |-> Exists,
    read |-> RepoRead,
    read_header |-> ReadHeader,
    expand_oids |-> ExpandOids,
    descendant_of |-> DescendantOf,
    write |-> RepoWrite,
    each_id |-> EachId,
    head |-> GetHead,
    each_status |-> EachStatus,
    reset |-> ResetTo,
    reset_path |-> ResetPath,
    default_signature |-> DefaultSignature,
    diff_from_buffer |-> DiffFromBuffer]

=============================================================================
