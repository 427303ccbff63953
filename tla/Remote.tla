------------------------------- MODULE Remote -------------------------------
(***************************************************************************)
(* The network operations of Rugged: Remote#ls, #check_connection, #fetch, *)
(* #push, and Repository.clone_at.                                         *)
(*                                                                         *)
(* Each is one call of libgit2 (two for ls) that calls back into blocks of *)
(* the program: :credentials and :certificate_check while it connects,     *)
(* :progress and :transfer_progress while data moves, :update_tips after   *)
(* each reference.  The blocks of one operation share one                  *)
(* payload->exception.  The block of ls runs between two reads of a list   *)
(* that belongs to the connection, and may start another operation on the  *)
(* same remote.  A behaviour is one operation with those it nests.         *)
(***************************************************************************)
EXTENDS Naturals, Sequences, SequencesExt

CONSTANTS
    Heads,      \* how many references the remote advertises
    Tips,       \* how many local references a fetch or a push updates
    MaxCalls,   \* bound: how many blocks one operation runs, but for ls heads
    MaxStarted  \* bound: how many operations are started, nested ones included

ASSUME BoundsAssumption == {Heads, Tips, MaxCalls, MaxStarted} \subseteq Nat

VARIABLES
    stack,      \* the operations in progress, the innermost last
    started,    \* how many operations have been started
    connected,  \* whether the transport of the remote is connected
    gen,        \* how many connections have been initiated
    tips,       \* references updated by the fetches and pushes so far
    leaked,     \* allocated memory that no operation will release
    jumped,     \* whether an exception has left libgit2 by longjmp
    stale       \* whether a head of a connection that is gone has been read

remoteVars == <<stack, started, connected, gen, tips, leaked, jumped, stale>>

native == <<connected, gen, tips, stale>>

Operations == {"ls", "check_connection", "fetch", "push", "clone_at"}
Outcomes == {"pending", "returned", "raised", "failed"}

Frame == [op: Operations,
          pc: {"options", "rest", "connect", "list", "heads", "block",
               "transfer", "tips", "cleanup", "done"},
          exception: BOOLEAN,               \* payload.exception
          error: BOOLEAN,                   \* the result of libgit2
          memory: SUBSET {"refspecs", "headers"},
          list: Nat,                        \* the connection of the list of heads
          i: 0 .. Heads,                    \* the next head
          moved: 0 .. Tips,                 \* the references it has updated
          calls: 0 .. MaxCalls + Heads,     \* blocks run
          raised: BOOLEAN,                  \* whether one has raised
          outcome: Outcomes]

RemoteTypeOK ==
    /\ stack \in Seq(Frame)
    /\ started \in 0 .. MaxStarted
    /\ connected \in BOOLEAN
    /\ gen \in Nat
    /\ tips \in Nat
    /\ leaked \subseteq [op: Operations, pc: {"options", "rest", "connect", "cleanup"}]
    /\ jumped \in BOOLEAN
    /\ stale \in BOOLEAN

\* A fetch or a push that failed earlier may have left the remote connected.
RemoteInit ==
    /\ stack = <<>>
    /\ started = 0
    /\ connected \in BOOLEAN
    /\ gen = 0
    /\ tips = 0
    /\ leaked = {}
    /\ jumped = FALSE
    /\ stale = FALSE

Active == stack # <<>>
Top == Last(stack)
At(pc) == Active /\ Top.pc = pc
Become(f) == stack' = Front(stack) \o <<f>> /\ started' = started

\* What the innermost operation has allocated is out of reach from here on.
Leak == leaked' = IF Top.memory = {} THEN leaked ELSE leaked \cup {[op |-> Top.op, pc |-> Top.pc]}

\* The innermost operation ends.  Only the record of the outermost stays.
Leave(f, outcome) ==
    IF Len(stack) = 1
    THEN Become([f EXCEPT !.pc = "done", !.memory = {}, !.outcome = outcome])
    ELSE stack' = Front(stack) /\ started' = started

\* The program calls a method, at first or from the block of ls.
Start(op) ==
    /\ \/ ~Active
       \/ At("block") /\ op # "clone_at"
    /\ started < MaxStarted
    /\ started' = started + 1
    /\ stack' = Append(stack,
           [op |-> op, pc |-> "options", exception |-> FALSE, error |-> FALSE,
            memory |-> IF op \in {"fetch", "push"} THEN {"refspecs"} ELSE {},
            list |-> 0, i |-> 0, moved |-> 0, calls |-> 0, raised |-> FALSE,
            outcome |-> "pending"])
    /\ UNCHANGED <<native, leaked, jumped>>

-----------------------------------------------------------------------------
(* The options.                                                             *)

\* An option has the wrong class: rb_raise, from before or after the copy of
\* :headers.  What has been copied so far is not released.
Refuse ==
    /\ At("options") \/ At("rest")
    /\ Leak
    /\ Leave(Top, "failed")
    /\ UNCHANGED <<native, jumped>>

\* The callbacks are callable and :headers is copied.
ParseCallbacks ==
    /\ At("options")
    /\ Become([Top EXCEPT !.pc = "rest", !.memory = @ \cup {"headers"}])
    /\ UNCHANGED <<native, leaked, jumped>>

\* :proxy_url, :depth, :message, :prune and :pb_parallelism.
ParseRest ==
    /\ At("rest")
    /\ Become([Top EXCEPT !.pc = "connect"])
    /\ UNCHANGED <<native, leaked, jumped>>

-----------------------------------------------------------------------------
(* The callbacks.                                                           *)

\* Mutant: the callback tells libgit2 to go on although the block raised.
Yielded_ReturnsOk(f, raises) ==
    [f EXCEPT !.calls = @ + 1,
              !.raised = @ \/ raises,
              !.exception = raises]

\* The frame after a block ran under rb_protect.  An exception of the block is
\* kept in the payload and libgit2 is given GIT_ERROR, which ends its work.
Yielded(f, raises) ==
    [f EXCEPT !.calls = @ + 1,
              !.raised = @ \/ raises,
              !.exception = raises,
              !.error = @ \/ raises,
              !.pc = IF raises THEN "cleanup" ELSE @]

\* credentials_cb and certificate_check_cb while libgit2 connects, progress_cb
\* and transfer_progress_cb while it moves data.
Callback(raises) ==
    /\ At("connect") \/ At("transfer")
    /\ Top.calls < MaxCalls
    /\ Become(Yielded(Top, raises))
    /\ UNCHANGED <<native, leaked, jumped>>

\* The :certificate_check block returns neither true nor false.
\* rugged_parse_bool then raises outside of rb_protect: the exception jumps
\* over libgit2 and over the rest of the method.
CertificateCheckBadAnswer ==
    /\ At("connect")
    /\ Top.calls < MaxCalls
    /\ jumped' = TRUE
    /\ Leak
    /\ Leave(Top, "failed")
    /\ connected' = TRUE
    /\ UNCHANGED <<gen, tips, stale>>

-----------------------------------------------------------------------------
(* libgit2.                                                                 *)

\* A local reference is updated and update_tips_cb tells the program.
UpdateTip(raises) ==
    /\ At("tips")
    /\ Top.moved < Tips
    /\ Top.calls < MaxCalls
    /\ tips' = tips + 1
    /\ Become(Yielded([Top EXCEPT !.moved = @ + 1], raises))
    /\ UNCHANGED <<connected, gen, stale, leaked, jumped>>

\* git_remote_connect initiates a connection; git_remote_fetch and _push use
\* the one that is open.  A clone has a remote of its own.
Connect ==
    /\ At("connect")
    /\ IF Top.op = "clone_at" \/ (connected /\ Top.op \in {"fetch", "push"})
       THEN UNCHANGED <<connected, gen>>
       ELSE connected' = TRUE /\ gen' = gen + 1
    /\ Become([Top EXCEPT !.pc =
           CASE Top.op = "ls" -> "list"
             [] Top.op = "check_connection" -> "cleanup"
             [] OTHER -> "transfer"])
    /\ UNCHANGED <<tips, stale, leaked, jumped>>

Transferred ==
    /\ At("transfer")
    /\ Become([Top EXCEPT !.pc = "tips"])
    /\ UNCHANGED <<native, leaked, jumped>>

\* libgit2 fails by itself, whatever it is doing.
Fail ==
    /\ \E pc \in {"connect", "list", "transfer", "tips"} : At(pc)
    /\ Become([Top EXCEPT !.error = TRUE, !.pc = "cleanup"])
    /\ connected' \in IF At("connect") /\ Top.op # "clone_at" THEN BOOLEAN ELSE {connected}
    /\ UNCHANGED <<gen, tips, stale, leaked, jumped>>

\* git_remote_fetch and git_remote_push close the connection when all went well.
TipsUpdated ==
    /\ At("tips")
    /\ Become([Top EXCEPT !.pc = "cleanup"])
    /\ connected' = (connected /\ Top.op = "clone_at")
    /\ UNCHANGED <<gen, tips, stale, leaked, jumped>>

-----------------------------------------------------------------------------
(* Remote#ls.                                                               *)

\* Mutant: ls disconnects as soon as it has the list.
List_DisconnectFirst ==
    /\ At("list")
    /\ Become([Top EXCEPT !.pc = "heads", !.list = gen])
    /\ connected' = FALSE
    /\ UNCHANGED <<gen, tips, stale, leaked, jumped>>

\* git_remote_ls: the list belongs to the connection.
List ==
    /\ At("list")
    /\ Become([Top EXCEPT !.pc = "heads", !.list = gen])
    /\ UNCHANGED <<native, leaked, jumped>>

\* rugged_rhead_new reads heads[i], and the block of the program begins.
ReadHead ==
    /\ At("heads")
    /\ Top.i < Heads
    /\ stale' = (stale \/ Top.list # gen \/ ~connected)
    /\ Become([Top EXCEPT !.pc = "block", !.i = @ + 1])
    /\ UNCHANGED <<connected, gen, tips, leaked, jumped>>

\* The block of the program ends; rb_protect notes an exception.
BlockEnds(raises) ==
    /\ At("block")
    /\ Become([Top EXCEPT !.pc = IF raises THEN "cleanup" ELSE "heads",
                          !.calls = @ + 1,
                          !.raised = raises,
                          !.exception = raises])
    /\ UNCHANGED <<native, leaked, jumped>>

NoMoreHeads ==
    /\ At("heads")
    /\ Top.i = Heads
    /\ Become([Top EXCEPT !.pc = "cleanup"])
    /\ UNCHANGED <<native, leaked, jumped>>

-----------------------------------------------------------------------------
(* The tail of every operation.                                             *)

\* Mutant: the jump comes before the memory is released and before ls closes
\* the connection.
Finish_JumpFirst ==
    /\ At("cleanup")
    /\ IF Top.exception \/ Top.op = "clone_at" THEN Leak ELSE UNCHANGED leaked
    /\ connected' = (connected /\ (Top.exception \/ Top.op \notin {"ls", "check_connection"}))
    /\ Leave(Top, IF Top.exception THEN "raised"
                  ELSE IF Top.error /\ Top.op # "check_connection" THEN "failed"
                  ELSE "returned")
    /\ UNCHANGED <<gen, tips, stale, jumped>>

\* ls and check_connection disconnect; all but clone_at release the copies of
\* the refspecs and headers; then the exception of a block is raised again, or
\* an error of libgit2, of which check_connection makes false.
Finish ==
    /\ At("cleanup")
    /\ connected' = (connected /\ Top.op \notin {"ls", "check_connection"})
    /\ IF Top.op = "clone_at" THEN Leak ELSE UNCHANGED leaked
    /\ Leave(Top, IF Top.exception THEN "raised"
                  ELSE IF Top.error /\ Top.op # "check_connection" THEN "failed"
                  ELSE "returned")
    /\ UNCHANGED <<gen, tips, stale, jumped>>

RemoteNext ==
    \/ \E op \in Operations : Start(op)
    \/ Refuse \/ ParseCallbacks \/ ParseRest
    \/ \E raises \in BOOLEAN : Callback(raises) \/ UpdateTip(raises) \/ BlockEnds(raises)
    \/ CertificateCheckBadAnswer
    \/ Connect \/ Transferred \/ Fail \/ TipsUpdated
    \/ List \/ ReadHead \/ NoMoreHeads
    \/ Finish

RemoteSpec == RemoteInit /\ [][RemoteNext]_remoteVars

-----------------------------------------------------------------------------
(* Properties                                                               *)

\* However ls and check_connection end once they have tried to connect, with
\* an error, with an exception of a block or normally, and whatever the block
\* of ls has done with the remote, the remote is not left connected.  The bad
\* answer of a :certificate_check is excepted, which jumps past libgit2.
Disconnected ==
    Active /\ stack[1].op \in {"ls", "check_connection"} /\ stack[1].pc = "done"
    /\ (stack[1].outcome # "failed" \/ stack[1].error)
    => ~connected

\* Once libgit2 has returned, an operation on a remote has released what it
\* had copied, whatever the blocks and libgit2 did.
MemoryReleased == \A l \in leaked : l.pc = "cleanup" => l.op = "clone_at"

\* "In case of an error inside the callback, all further tip updates get
\* cancelled" (test/remote_test.rb:362).
TipsCancelled == [][Active /\ Top.raised => tips' = tips]_remoteVars

\* As long as its block starts nothing else on the same remote, ls reads heads
\* of the connection that it has opened and not yet closed.
HeadsFresh == stale => started > 1

\* Every operation keeps the promise of Relay.
AsRelay ==
    INSTANCE Relay WITH
        calls <- IF Active THEN stack[1].calls ELSE 0,
        failing <- Active /\ stack[1].raised,
        outcome <- IF Active THEN stack[1].outcome ELSE "pending"

RelaySpec == AsRelay!Spec

=============================================================================
