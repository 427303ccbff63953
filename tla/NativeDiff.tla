----------------------------- MODULE NativeDiff -----------------------------
(* The methods of diffs, patches and blames (rugged_diff.c, rugged_patch.c, *)
(* rugged_blame.c) and those of other classes that make one, in the         *)
(* vocabulary of Steps.                                                     *)
EXTENDS NativeHelpers

-----------------------------------------------------------------------------
(* Diffs.                                                                   *)

\* The pathspec is copied in the middle of the options; what follows it may
\* still be of a wrong type.
ParseDiffOptions == Convert \o Optional(StrarrayFromAry("pathspec")) \o Convert

\* Of a tree or of the index.
DiffIndex ==
    Convert \o ParseDiffOptions \o Convert
        \o Acquire("diff") \o StrarrayDispose("pathspec") \o Check \o Wrap("diff")

DiffTree ==
    Convert \o ParseDiffOptions
        \o Acquire("diff") \o StrarrayDispose("pathspec") \o Check \o Wrap("diff")

DiffWorkdir ==
    ParseDiffOptions \o Convert
        \o Acquire("diff") \o StrarrayDispose("pathspec") \o Check \o Wrap("diff")

\* The pathspec is never disposed of.
BlobDiff ==
    Optional(Convert \o ParseDiffOptions) \o Convert
        \o Acquire("patch") \o Check \o Wrap("patch")

CommitToMbox ==
    Convert \o Optional(Convert \o ParseDiffOptions)
        \o Acquire("email") \o Use("email")
        \o StrarrayDispose("pathspec") \o Release("email") \o Check

DiffMerge == Convert \o Call \o Check

FindSimilar == Convert \o Call \o Check

\* An error of the printing is not looked at.
DiffPatch == Convert \o Foreach(<<>>) \o Ignore

\* The object that is written to runs inside the printing.
WritePatch == Convert \o Foreach(Yield) \o Ignore

EachPatch == Loop(Acquire("patch") \o Wrap("patch") \o Yield) \o Check

EachDelta == Loop(Yield)

\* Mutant: the error of libgit2 is looked at before the exception of the block.
EachLine_CheckFirst == Convert \o Foreach(YieldProtected) \o Check \o JumpTag

EachLine == Convert \o Foreach(YieldProtected) \o JumpTag \o Check

DiffStat == Foreach(<<>>) \o Ignore

-----------------------------------------------------------------------------
(* Patches and blames.                                                      *)

\* The pathspec is never disposed of.
PatchFromStrings ==
    Convert \o Optional(Convert \o ParseDiffOptions) \o Convert
        \o Acquire("patch") \o Check \o Wrap("patch")

EachHunk == Loop(Call \o Yield) \o Check

PatchLines == Convert \o Optional(Loop(Call \o Check))

PatchToS == Foreach(<<>>) \o Check

\* The callback stops the printing after the header.
PatchHeader == Foreach(<<>>) \o Missing \o Check

ParseBlameOptions == Convert \o Optional(OidGet \o Check) \o Optional(OidGet \o Check)

BlameNew == Convert \o ParseBlameOptions \o Convert \o Acquire("blame") \o Check \o Wrap("blame")

BlameEach == Loop(Yield)

DiffMethods == [
    diff_index |-> DiffIndex,
    diff_tree |-> DiffTree,
    diff_workdir |-> DiffWorkdir,
    blob_diff |-> BlobDiff,
    commit_to_mbox |-> CommitToMbox,
    diff_merge |-> DiffMerge,
    find_similar |-> FindSimilar,
    diff_patch |-> DiffPatch,
    write_patch |-> WritePatch,
    each_patch |-> EachPatch,
    each_delta |-> EachDelta,
    each_line |-> EachLine,
    diff_stat |-> DiffStat,
    patch_from_strings |-> PatchFromStrings,
    each_hunk |-> EachHunk,
    patch_lines |-> PatchLines,
    patch_to_s |-> PatchToS,
    patch_header |-> PatchHeader,
    blame_new |-> BlameNew,
    blame_each |-> BlameEach]

=============================================================================
