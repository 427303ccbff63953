------------------------------- MODULE Steps --------------------------------
(***************************************************************************)
(* The vocabulary in which the native methods of Rugged are written down:  *)
(* what one of them does with the memory and the handles it gets from      *)
(* libgit2, the calls that may fail, the Ruby values it converts and the   *)
(* blocks it runs.  A method is a sequence of steps; module Calls says how *)
(* a sequence runs.  A call that has failed, or a block that has raised,   *)
(* makes the method skip to its cleanup, which is made of the steps marked *)
(* with a star.                                                            *)
(***************************************************************************)
EXTENDS Integers, Sequences

LOCAL Do(what, resource, length) == <<[do |-> what, r |-> resource, n |-> length]>>

\* A Ruby value is tested or converted: Check_Type, StringValueCStr, rb_raise,
\* a method of the object.  It may raise.
Convert == Do("convert", "", 0)

\* An exception of Ruby is raised.
Raise == Do("raise", "", 0)

\* A call of libgit2 that returns a new resource, or fails.
Acquire(r) == Do("acquire", r, 0)

\* Memory that is allocated, or a value that libgit2 cannot fail to give.
Allocate(r) == Do("allocate", r, 0)

\* A call of libgit2 that may fail and returns nothing to be freed.
Call == Do("call", "", 0)

\* A resource is read.
Use(r) == Do("use", r, 0)

\* A resource becomes that of a Ruby object, whose collection frees it.
Wrap(r) == Do("wrap", r, 0)

\* (*) The same, whether or not there is such a resource.
WrapAnyway(r) == Do("wrapAnyway", r, 0)

\* (*) A resource is freed if there is one.
Release(r) == Do("release", r, 0)

\* (*) The same on the way of errors only.
ReleaseOnError(r) == Do("releaseOnError", r, 0)

\* (*) rugged_exception_check: an error is raised.
Check == Do("check", "", 0)

\* (*) An error is forgotten: its code is not looked at.
Ignore == Do("ignore", "", 0)

\* (*) Some errors (GIT_ENOTFOUND, GIT_ITEROVER) make the method return nil.
Missing == Do("missing", "", 0)

\* The block of the caller runs, on Ruby frames; or under rb_protect, which
\* keeps its exception for (*) rb_jump_tag.
Yield == Do("yield", "", 0)
YieldProtected == Do("yieldProtected", "", 0)
JumpTag == Do("jumpTag", "", 0)

\* A call of libgit2 that calls Rugged back any number of times.
Foreach(body) == Do("enter", "", Len(body)) \o body \o Do("leave", "", Len(body))

\* A loop in the method itself.
Loop(body) == Do("loop", "", Len(body)) \o body \o Do("again", "", Len(body))

\* Steps that depend on an argument, an option or the class of a value.
Optional(body) == Do("optional", "", Len(body)) \o body \o Do("done", "", Len(body))

\* The steps that a failed method still takes.
Cleanup == {"release", "releaseOnError", "wrapAnyway", "check", "ignore", "missing",
            "jumpTag", "leave", "again", "done"}

\* The first and the last step of a block of steps.
Openings == {"enter", "loop", "optional"}
Closings == {"leave", "again", "done"}
Closing == [enter |-> "leave", loop |-> "again", optional |-> "done"]

=============================================================================
