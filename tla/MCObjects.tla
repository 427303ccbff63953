----------------------------- MODULE MCObjects ------------------------------
EXTENDS Objects, SequencesExt

MCCharacters == {"lf", "cr", "space", "other"}
MCContents == SeqOf(MCCharacters, 5)
MCWalks == SeqOf({"blob", "tree"}, 5)
MCLimits == -1 .. 3

=============================================================================
