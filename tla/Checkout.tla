------------------------------ MODULE Checkout ------------------------------
(***************************************************************************)
(* Repository#checkout_tree, #checkout_index and #checkout_head: one call, *)
(* with its options, its :notify and :progress callbacks and its cleanup.  *)
(*                                                                         *)
(* The three methods differ in what they check out only; what they do with *)
(* the options, the callbacks and the result is the same code three times. *)
(* libgit2 visits the changed paths twice: first to decide, telling the    *)
(* :notify callback, then to update the files, telling :progress.          *)
(***************************************************************************)
EXTENDS Naturals, FiniteSets

CONSTANT Paths     \* how many paths differ

ASSUME PathsAssumption == Paths \in Nat

VARIABLES
    pc,         \* where the method is
    given,      \* the callbacks in the options
    memory,     \* what the method has allocated outside Ruby's heap
    exception,  \* payload->exception of each callback
    decided,    \* paths libgit2 has decided about
    updated,    \* files libgit2 has updated
    error,      \* whether libgit2 returned an error
    calls,      \* how many times a callback has run
    raisedBy,   \* the callbacks that have raised
    outcome     \* how the method ended

vars == <<pc, given, memory, exception, decided, updated, error, calls, raisedBy, outcome>>

Callbacks == {"notify", "progress"}
Outcomes == {"pending", "returned", "raised", "failed"}

TypeOK ==
    /\ pc \in {"scan", "options", "decide", "update", "after", "done"}
    /\ given \subseteq Callbacks
    /\ memory \subseteq Callbacks \cup {"paths"}
    /\ exception \in [Callbacks -> BOOLEAN]
    /\ decided \in 0 .. Paths
    /\ updated \in 0 .. Paths
    /\ error \in BOOLEAN
    /\ calls \in 0 .. 2 * Paths + 1
    /\ raisedBy \subseteq Callbacks
    /\ outcome \in Outcomes

Init ==
    /\ pc = "scan"
    /\ given = {}
    /\ memory = {}
    /\ exception = [c \in Callbacks |-> FALSE]
    /\ decided = 0
    /\ updated = 0
    /\ error = FALSE
    /\ calls = 0
    /\ raisedBy = {}
    /\ outcome = "pending"

libgit2 == <<decided, updated, error>>
blocks == <<calls, raisedBy>>

-----------------------------------------------------------------------------
(* Before libgit2: the arguments and rugged_parse_checkout_options.         *)

\* An argument of the wrong class: the method raises before anything else.
RefuseArguments ==
    /\ pc = "scan"
    /\ pc' = "done"
    /\ outcome' = "failed"
    /\ UNCHANGED <<given, memory, exception, libgit2, blocks>>

\* One payload is allocated for each callback in the options.
ParseCallbacks(C) ==
    /\ pc = "scan"
    /\ pc' = "options"
    /\ given' = C
    /\ memory' = C
    /\ exception' = [c \in Callbacks |-> FALSE]
    /\ UNCHANGED <<libgit2, blocks, outcome>>

\* An unknown strategy or flag, a bad mode or baseline or a path that is no
\* string: rb_raise, and the payloads stay allocated.
RefuseOptions ==
    /\ pc = "options"
    /\ pc' = "done"
    /\ outcome' = "failed"
    /\ UNCHANGED <<given, memory, exception, libgit2, blocks>>

\* The options are right; :paths, the last of them, is copied.
ParseRest ==
    /\ pc = "options"
    /\ pc' = "decide"
    /\ memory' = memory \cup {"paths"}
    /\ UNCHANGED <<given, exception, libgit2, blocks, outcome>>

-----------------------------------------------------------------------------
(* The callbacks.  rb_protect stops an exception of the block and stores    *)
(* whether there was one, whatever payload->exception held before.          *)

Yield(c, raises) ==
    /\ calls' = calls + 1
    /\ raisedBy' = IF raises THEN raisedBy \cup {c} ELSE raisedBy
    /\ exception' = [exception EXCEPT ![c] = raises]

\* Mutant: rugged__checkout_notify_cb always returns GIT_OK.
Notify_ReturnsOk(raises) ==
    /\ pc = "decide"
    /\ "notify" \in given
    /\ decided < Paths
    /\ decided' = decided + 1
    /\ Yield("notify", raises)
    /\ UNCHANGED <<pc, error, given, memory, updated, outcome>>

\* libgit2 decides about a path that the notify_flags select.  An exception
\* becomes GIT_ERROR, which ends git_checkout_tree.
Notify(raises) ==
    /\ pc = "decide"
    /\ "notify" \in given
    /\ decided < Paths
    /\ decided' = decided + 1
    /\ Yield("notify", raises)
    /\ error' = raises
    /\ pc' = IF raises THEN "after" ELSE "decide"
    /\ UNCHANGED <<given, memory, updated, outcome>>

\* libgit2 calls the progress callback, whose result is void.
Progress(raises) ==
    IF "progress" \in given
    THEN Yield("progress", raises)
    ELSE ~raises /\ UNCHANGED <<exception, blocks>>

-----------------------------------------------------------------------------
(* libgit2.                                                                 *)

\* A path that the notify_flags do not select.
Decide ==
    /\ pc = "decide"
    /\ decided < Paths
    /\ decided' = decided + 1
    /\ UNCHANGED <<pc, given, memory, exception, updated, error, blocks, outcome>>

\* A path that cannot be checked out, or conflicts at the end of the visit.
Conflict ==
    /\ pc = "decide"
    /\ pc' = "after"
    /\ error' = TRUE
    /\ UNCHANGED <<given, memory, exception, decided, updated, blocks, outcome>>

\* Progress is reported once, with no path, before the first update.
Baseline(raises) ==
    /\ pc = "decide"
    /\ decided = Paths
    /\ pc' = "update"
    /\ Progress(raises)
    /\ UNCHANGED <<given, memory, libgit2, outcome>>

Update(raises) ==
    /\ pc = "update"
    /\ updated < Paths
    /\ updated' = updated + 1
    /\ Progress(raises)
    /\ UNCHANGED <<pc, given, memory, decided, error, outcome>>

UpdateEnds ==
    /\ pc = "update"
    /\ pc' = "after"
    /\ error' = (updated < Paths)
    /\ UNCHANGED <<given, memory, exception, decided, updated, blocks, outcome>>

-----------------------------------------------------------------------------
(* After libgit2.                                                           *)

\* Mutant: the payloads are freed only if no exception is raised again.
Finish_EarlyJump ==
    /\ pc = "after"
    /\ pc' = "done"
    /\ LET pending == IF "progress" \in given THEN exception["progress"]
                      ELSE exception["notify"]
       IN  /\ outcome' = IF pending THEN "raised" ELSE IF error THEN "failed" ELSE "returned"
           /\ memory' = IF pending THEN memory \ {"paths"} ELSE {}
    /\ UNCHANGED <<given, exception, libgit2, blocks>>

\* The tail of the three methods: :paths is released, then the payloads, and
\* the exception of :progress is read after that of :notify.
Finish ==
    /\ pc = "after"
    /\ pc' = "done"
    /\ memory' = {}
    /\ LET pending == IF "progress" \in given THEN exception["progress"]
                      ELSE exception["notify"]
       IN  outcome' = IF pending THEN "raised" ELSE IF error THEN "failed" ELSE "returned"
    /\ UNCHANGED <<given, exception, libgit2, blocks>>

Next ==
    \/ RefuseArguments
    \/ \E C \in SUBSET Callbacks : ParseCallbacks(C)
    \/ RefuseOptions
    \/ ParseRest
    \/ \E raises \in BOOLEAN : Notify(raises) \/ Baseline(raises) \/ Update(raises)
    \/ Decide
    \/ Conflict
    \/ UpdateEnds
    \/ Finish

Spec == Init /\ [][Next]_vars

-----------------------------------------------------------------------------
(* Properties                                                               *)

\* When the :notify callback has raised, no file has been touched and no
\* :progress callback runs: the checkout is all or nothing as far as the
\* program can refuse it.
NotifyCancels == "notify" \in raisedBy => updated = 0 /\ "progress" \notin raisedBy

\* Once libgit2 has decided about a path, every way out of the method gives back the
\* two payloads and the copied :paths.
MemoryReleased == outcome # "pending" /\ decided > 0 => memory = {}

\* A checkout without a :progress callback keeps the promise of Relay.  One
\* with a :progress callback does not, and is seen as one that never starts.
Silent == "progress" \in given

AsRelay == INSTANCE Relay WITH
    calls <- IF Silent THEN 0 ELSE calls,
    failing <- ~Silent /\ raisedBy # {},
    outcome <- IF Silent THEN "pending" ELSE outcome

RelaySpec == AsRelay!Spec

=============================================================================
