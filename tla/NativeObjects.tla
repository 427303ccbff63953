--------------------------- MODULE NativeObjects ----------------------------
(* The methods of trees, commits, blobs, tags and notes (rugged_tree.c,     *)
(* rugged_commit.c, rugged_blob.c, rugged_tag.c, rugged_note.c), in the     *)
(* vocabulary of Steps.                                                     *)
EXTENDS NativeHelpers

-----------------------------------------------------------------------------
(* Trees.                                                                   *)

TreeEach == Loop(Yield)

\* Mutant: the block runs without rb_protect.
TreeWalk_Bare == Convert \o Foreach(Yield) \o Check

TreeWalk == Convert \o Foreach(YieldProtected) \o JumpTag \o Check

TreePath == Convert \o Acquire("entry") \o Check \o Use("entry") \o Release("entry")

TreeMerge == Convert \o Acquire("index") \o Missing \o Check \o Wrap("index")

TreeEmpty == Convert \o Acquire("tree") \o Check \o Wrap("tree")

\* A wrong update frees the array before it raises; but a path or an id with a
\* zero byte raises by itself.
ParseTreeUpdates ==
    Convert \o Allocate("updates")
        \o Loop(Convert \o Optional(Release("updates") \o Raise))

TreeUpdate == ParseTreeUpdates \o Call \o Release("updates") \o Check

BuilderNew == Convert \o Acquire("builder") \o Check \o Wrap("builder")

BuilderInsert == Convert \o Call \o Check \o Convert \o Call \o Check

BuilderRemove == Convert \o Call \o Missing \o Check

\* The block runs, and its answer is converted, without rb_protect.
BuilderFilter == Foreach(Yield \o Convert) \o Ignore

-----------------------------------------------------------------------------
(* Commits.                                                                 *)

CommitTrailers ==
    Acquire("trailers") \o Check \o Use("trailers") \o Release("trailers")

CommitTree == Acquire("tree") \o Check \o Wrap("tree")

CommitParents == Loop(Acquire("parent") \o Check \o Wrap("parent"))

CommitAmend ==
    Convert
        \o Optional(ObjectOfType("tree"))
        \o Optional(SignatureGet("committer"))
        \o Optional(SignatureGet("author"))
        \o Call
        \o Release("author") \o Release("committer") \o Release("tree") \o Check

\* What is acquired first is held while the rest is converted.  The array of
\* the parents is one resource with the parents in it.
ParseCommitOptions ==
    Convert
        \o SignatureGet("committer") \o SignatureGet("author") \o Convert
        \o ObjectOfType("tree")
        \o Allocate("parents") \o Loop(Convert \o Call)

\* Mutant: the parents are forgotten.
FreeCommitOptions_Parents == Release("author") \o Release("committer") \o Release("tree")

FreeCommitOptions ==
    Release("author") \o Release("committer") \o Release("tree") \o Release("parents")

CommitCreate == Convert \o ParseCommitOptions \o Call \o FreeCommitOptions \o Check

CommitCreateToS ==
    Convert \o ParseCommitOptions \o Acquire("buffer") \o FreeCommitOptions \o Check
        \o Use("buffer") \o Release("buffer")

CommitHeaderField ==
    Convert \o Acquire("field") \o ReleaseOnError("field") \o Missing \o Check
        \o Use("field") \o Release("field")

CommitExtractSignature ==
    Convert \o Call \o Check \o Convert
        \o Acquire("signature") \o ReleaseOnError("signature") \o Missing \o Check
        \o Use("signature") \o Release("signature")

CommitCreateWithSignature == Convert \o Call \o Check

-----------------------------------------------------------------------------
(* Blobs.                                                                   *)

BlobFromBuffer == Convert \o Call \o Check

\* The commit of the stream frees it; nothing else does.
BlobFromIo ==
    Convert \o Acquire("stream") \o Loop(YieldProtected \o Call)
        \o Wrap("stream") \o Call \o JumpTag \o Check

BlobToBuffer ==
    Convert \o ObjectOfType("blob") \o Convert \o Use("blob") \o Release("blob")

MergeFileInput == Convert \o Optional(Call \o Check) \o Convert

BlobMergeFiles ==
    Convert \o Loop(MergeFileInput)
        \o Optional(Acquire("ancestor")) \o Optional(Acquire("ours")) \o Optional(Acquire("theirs"))
        \o Acquire("result") \o Use("result")
        \o Release("ancestor") \o Release("ours") \o Release("theirs") \o Release("result")
        \o Check

BlobSigNew == Convert \o Acquire("hashsig") \o Check \o Wrap("hashsig")

-----------------------------------------------------------------------------
(* Tags.                                                                    *)

AnnotationTarget == Acquire("target") \o Check \o Wrap("target")

\* An error other than GIT_ENOTFOUND is not looked at.
TagAnnotation ==
    Convert \o Acquire("resolved") \o Check
        \o Acquire("annotation") \o Release("resolved") \o Missing
        \o WrapAnyway("annotation") \o Ignore

TagTarget(found) ==
    Convert \o Acquire("resolved") \o Check
        \o Acquire("object") \o Release("resolved") \o Check \o found

TargetOfTag == Acquire("target") \o Release("object") \o Check \o Wrap("target")

\* A name that is not that of a reference is tried under refs/tags/.
TagAref ==
    Convert \o Optional(Allocate("canonical")) \o Acquire("tag") \o Release("canonical")
        \o Missing \o Check \o Wrap("tag")

TagCreate ==
    Convert \o ObjectGet("target")
        \o Optional(SignatureGet("tagger") \o Convert) \o Convert
        \o Call \o Release("tagger") \o Release("target") \o Check
        \o TagAref

TagCreateAnnotation ==
    Convert \o ObjectGet("target") \o Convert \o SignatureGet("tagger") \o Convert
        \o Call \o Release("target") \o Release("tagger") \o Check
        \o Acquire("tag") \o Check \o Wrap("tag")

\* each and each_name.  The tag is looked up for the block outside of
\* rb_protect; if it is gone the block is given nil.
EachTag ==
    Convert \o Acquire("tags") \o Check
        \o Loop(Use("tags") \o Optional(Acquire("tag") \o Check \o Wrap("tag")) \o YieldProtected)
        \o Release("tags") \o JumpTag

-----------------------------------------------------------------------------
(* Notes.                                                                   *)

NoteLookup ==
    Convert \o Acquire("note") \o Missing \o Check \o Use("note") \o Release("note")

NoteCreate ==
    Convert \o SignatureGet("committer") \o SignatureGet("author") \o Convert
        \o Call \o Release("author") \o Release("committer") \o Check

NoteRemove ==
    Convert \o SignatureGet("committer") \o SignatureGet("author")
        \o Call \o Release("author") \o Release("committer") \o Missing \o Check

\* The callback looks two objects up and raises from there if it cannot.
NoteEachCallback ==
    Acquire("annotated") \o Check \o Acquire("note_blob") \o Check
        \o Wrap("note_blob") \o Wrap("annotated") \o YieldProtected

NoteEach == Convert \o Foreach(NoteEachCallback) \o JumpTag \o Check

NoteDefaultRef == Acquire("name") \o Check \o Use("name") \o Release("name")

ObjectMethods == [
    tree_each |-> TreeEach,
    tree_walk |-> TreeWalk,
    tree_path |-> TreePath,
    tree_merge |-> TreeMerge,
    tree_empty |-> TreeEmpty,
    tree_update |-> TreeUpdate,
    builder_new |-> BuilderNew,
    builder_insert |-> BuilderInsert,
    builder_remove |-> BuilderRemove,
    builder_filter |-> BuilderFilter,
    commit_trailers |-> CommitTrailers,
    commit_tree |-> CommitTree,
    commit_parents |-> CommitParents,
    commit_amend |-> CommitAmend,
    commit_create |-> CommitCreate,
    commit_create_to_s |-> CommitCreateToS,
    commit_header_field |-> CommitHeaderField,
    commit_extract_signature |-> CommitExtractSignature,
    commit_create_with_signature |-> CommitCreateWithSignature,
    blob_from_buffer |-> BlobFromBuffer,
    blob_from_io |-> BlobFromIo,
    blob_to_buffer |-> BlobToBuffer,
    blob_merge_files |-> BlobMergeFiles,
    blob_sig_new |-> BlobSigNew,
    annotation_target |-> AnnotationTarget,
    tag_annotation |-> TagAnnotation,
    tag_target |-> TagTarget(Wrap("object")),
    tag_target_annotated |-> TagTarget(TargetOfTag),
    tag_aref |-> TagAref,
    tag_create |-> TagCreate,
    tag_create_annotation |-> TagCreateAnnotation,
    each_tag |-> EachTag,
    note_lookup |-> NoteLookup,
    note_create |-> NoteCreate,
    note_remove |-> NoteRemove,
    note_each |-> NoteEach,
    note_default_ref |-> NoteDefaultRef]

=============================================================================
