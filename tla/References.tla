----------------------------- MODULE References -----------------------------
(***************************************************************************)
(* Rugged::ReferenceCollection and Rugged::BranchCollection, used by       *)
(* several processes on one repository.                                    *)
(*                                                                         *)
(* A method that changes a reference first looks it up by name, also when  *)
(* the program passes an object, and then hands what it found to libgit2,  *)
(* which compares it with the repository as it writes.  A branch may take  *)
(* three lookups.  Anything can happen in other processes in between.      *)
(*                                                                         *)
(* The name of a reference is the sequence of its components.              *)
(***************************************************************************)
EXTENDS Naturals, Sequences, SequencesExt

CONSTANTS
    Callers,    \* processes that use the repository, one call at a time each
    Keepers,    \* bound: the programs that keep an object they were given
    Methods,    \* bound: what each program calls, as <<collection, method>>
    Oids,       \* object ids that references point to
    Names,      \* full names of references
    Targets,    \* bound: names that symbolic references point to
    Given,      \* names of branches as programs give them
    Absent      \* there is no such reference

AllMethods ==
    {"references", "branches"} \X {"aref", "exist", "update", "delete", "rename", "create"}
    \ {<<"branches", "update">>}

ASSUME NamesAssumption ==
    /\ Names \cup Given \subseteq Seq(STRING)
    /\ <<>> \notin Given \cup Names
    /\ Absent \notin Oids \cup Names
    /\ Oids \cap Names = {}
ASSUME BoundsAssumption ==
    /\ Keepers \subseteq Callers
    /\ Methods \in [Callers -> SUBSET AllMethods]
    /\ Targets \subseteq Names

VARIABLES
    refs,       \* the references in the repository
    call,       \* the call in progress of each process
    object,     \* the Rugged::Reference that a program has kept
    always      \* the names that have existed ever since a lookup has begun

vars == <<refs, call, object, always>>

HEAD == <<"HEAD">>
Local(name) == <<"refs", "heads">> \o name
RemoteTracking(name) == <<"refs", "remotes">> \o name

IsLocal(n) == IsStrictPrefix(Local(<<>>), n)
IsBranch(n) == IsLocal(n) \/ IsStrictPrefix(RemoteTracking(<<>>), n)

Values == Oids \cup Names
Direct(v) == v \in Oids
Exists(n) == n \in Names /\ refs[n] # Absent

Idle == [op |-> "idle"]
Busy(p) == call[p] # Idle

Calls ==
    [on: {"references", "branches"}, op: {"aref", "exist", "update", "delete", "rename", "create"},
     given: Given \cup Names,               \* the name in the arguments
     with: {"name", "object"},              \* or the object it is taken from
     to: Names \cup {<<>>},                 \* the new name and :force, if the
     force: BOOLEAN,                        \* method has them
     tried: 0 .. 2,                         \* how many names do not exist
     at: Names \cup {<<>>},                 \* the name that was found
     found: Values \cup {Absent}]           \* and its value, if it is compared

TypeOK ==
    /\ refs \in [Names -> Values \cup {Absent}]
    /\ call \in [Callers -> Calls \cup {Idle}]
    /\ object \in [Callers -> [name: Names \cup {<<>>}, branch: BOOLEAN]]
    /\ always \in [Callers -> SUBSET Names]

NoObject == [name |-> <<>>, branch |-> FALSE]

Init ==
    /\ refs \in [Names -> Oids \cup Targets \cup {Absent}]
    /\ call = [p \in Callers |-> Idle]
    /\ object = [p \in Callers |-> NoObject]
    /\ always = [p \in Callers |-> {}]

\* The references become r.
Write(r) ==
    /\ refs' = r
    /\ always' = [p \in Callers |-> {n \in always[p] : r[n] # Absent}]

Return(p) == call' = [call EXCEPT ![p] = Idle]

Keep(p, n) ==
    object' = IF p \in Keepers
              THEN [object EXCEPT ![p] = [name |-> n, branch |-> call[p].on = "branches"]]
              ELSE object

Raise(p) == Return(p) /\ UNCHANGED <<refs, object, always>>

-----------------------------------------------------------------------------
(* The lookup.                                                              *)

\* Mutant: the remote-tracking branch is looked up before the local one.
BranchNames_RemoteFirst(name) ==
    IF IsBranch(name) THEN <<name>>
    ELSE <<RemoteTracking(name), Local(name), <<"refs">> \o name>>

\* The names that a branch may have in the repository, in the order in which
\* rugged_branch_lookup tries them.
BranchNames(name) ==
    IF IsBranch(name) THEN <<name>>
    ELSE <<Local(name), RemoteTracking(name), <<"refs">> \o name>>

Candidates(c) ==
    IF c.on = "branches" /\ c.with = "name" THEN BranchNames(c.given) ELSE <<c.given>>

\* libgit2 looks up the next name of call c of p.
LookUp(p, c) ==
    LET n == Candidates(c)[c.tried + 1]
        next == [c EXCEPT !.tried = @ + 1]
        found == [c EXCEPT !.at = n,
                           !.found = IF c.op \in {"update", "delete"} THEN refs[n] ELSE @]
    IN  call' = [call EXCEPT ![p] =
            IF Exists(n) THEN found
            ELSE IF c.tried + 1 < Len(Candidates(c)) THEN next ELSE Idle]

\* A method begins, with the first lookup, if there is a name to look up.
Start(p, on, op, name, with, to, force) ==
    /\ ~Busy(p)
    /\ <<on, op>> \in Methods[p]
    /\ op \notin {"rename", "create"} => to = <<>> /\ ~force
    /\ LET c == [on |-> on, op |-> op, given |-> name, with |-> with, to |-> to,
                 force |-> force, tried |-> 0, at |-> <<>>, found |-> Absent]
       IN  IF op = "create" THEN call' = [call EXCEPT ![p] = c] ELSE LookUp(p, c)
    /\ always' = [always EXCEPT ![p] =
           IF op # "create" /\ Busy(p)' /\ call'[p].at = <<>>
           THEN {n \in Names : Exists(n)} ELSE {}]
    /\ UNCHANGED <<refs, object>>

\* The method is given a name: a full one for references, also a short one
\* for branches.
StartWithName(p, on, op, name, to, force) ==
    /\ name \in IF on = "branches" /\ op # "create" THEN Given ELSE Names
    /\ op \in {"rename", "create"} => to \in Names
    /\ op = "create" => name = to
    /\ on = "branches" /\ op \in {"rename", "create"} => IsLocal(to)
    /\ Start(p, on, op, name, "name", to, force)

\* The method is given an object and asks it for its canonical_name.
StartWithObject(p, on, op, to, force) ==
    /\ object[p] # NoObject
    /\ op \in {"update", "delete", "rename"} \/ <<on, op>> = <<"references", "exist">>
    /\ op = "rename" => to \in Names
    /\ on = "branches" => object[p].branch /\ (op = "rename" => IsLocal(to))
    /\ Start(p, on, op, object[p].name, "object", to, force)

LookUpNext(p) ==
    /\ Busy(p)
    /\ call[p].op # "create"
    /\ call[p].at = <<>>
    /\ LookUp(p, call[p])
    /\ always' = [always EXCEPT ![p] = IF Busy(p)' /\ call'[p].at = <<>> THEN @ ELSE {}]
    /\ UNCHANGED <<refs, object>>

Acting(p, op) ==
    /\ call[p].op = op
    /\ op # "create" => call[p].at # <<>>

\* references[name] and branches[name] return an object, exist? true.
Found(p) ==
    /\ Acting(p, "aref") \/ Acting(p, "exist")
    /\ IF Acting(p, "aref") THEN Keep(p, call[p].at) ELSE UNCHANGED object
    /\ Return(p)
    /\ UNCHANGED <<refs, always>>

-----------------------------------------------------------------------------
(* The change.  libgit2 locks the reference and writes only if its value is *)
(* still the one that the lookup has found.                                 *)

Unchanged(c) == refs[c.at] = c.found

\* Mutant: the reference is written with git_reference_create and force.
Update_Create(p, v) ==
    /\ Acting(p, "update")
    /\ Direct(v) <=> Direct(call[p].found)
    /\ Write([refs EXCEPT ![call[p].at] = v])
    /\ Keep(p, call[p].at)
    /\ Return(p)

\* Mutant: what the target looks like decides, as in references.create.
Update_ByTarget(p, v) ==
    /\ Acting(p, "update")
    /\ Unchanged(call[p])
    /\ Write([refs EXCEPT ![call[p].at] = v])
    /\ Keep(p, call[p].at)
    /\ Return(p)

\* references.update: an object id for a direct reference, a name for a
\* symbolic one.
Update(p, v) ==
    /\ Acting(p, "update")
    /\ Direct(v) <=> Direct(call[p].found)
    /\ Unchanged(call[p])
    /\ Write([refs EXCEPT ![call[p].at] = v])
    /\ Keep(p, call[p].at)
    /\ Return(p)

UpdateFails(p, v) ==
    /\ Acting(p, "update")
    /\ (Direct(v) # Direct(call[p].found)) \/ ~Unchanged(call[p])
    /\ Raise(p)

\* git_branch_delete wants a branch that is not checked out.
Deletable(c) ==
    /\ c.on = "branches" => IsBranch(c.at) /\ refs[HEAD] # c.at
    /\ Unchanged(c)

\* references.delete and branches.delete.
Delete(p) ==
    /\ Acting(p, "delete")
    /\ Deletable(call[p])
    /\ Write([refs EXCEPT ![call[p].at] = Absent])
    /\ Return(p)
    /\ UNCHANGED object

DeleteFails(p) == Acting(p, "delete") /\ ~Deletable(call[p]) /\ Raise(p)

\* git_branch_move wants a local branch.  An existing name needs :force.
Renamable(c) ==
    /\ c.on = "branches" => IsLocal(c.at)
    /\ Exists(c.at)
    /\ Exists(c.to) => c.force
    /\ c.to # c.at

\* references.rename and branches.move.  libgit2 reads the reference again, so
\* it moves the value of that moment, and HEAD follows.
Rename(p) ==
    /\ Acting(p, "rename")
    /\ Renamable(call[p])
    /\ LET c == call[p]
           headFollows == [n \in Names |-> IF n = HEAD /\ refs[n] = c.at THEN c.to ELSE refs[n]]
       IN  Write([headFollows EXCEPT ![c.to] = refs[c.at], ![c.at] = Absent])
    /\ Keep(p, call[p].to)
    /\ Return(p)

RenameFails(p) == Acting(p, "rename") /\ ~Renamable(call[p]) /\ Raise(p)

\* Mutant: :force is taken for granted.
Creatable_Force(c, v) == c.on = "branches" => Direct(v) /\ refs[HEAD] # c.to

\* git_branch_create does not overwrite the branch that is checked out.
Creatable(c, v) ==
    /\ c.on = "branches" => Direct(v) /\ refs[HEAD] # c.to
    /\ Exists(c.to) => c.force

\* references.create and branches.create look nothing up.
Create(p, v) ==
    /\ Acting(p, "create")
    /\ Creatable(call[p], v)
    /\ Write([refs EXCEPT ![call[p].to] = v])
    /\ Keep(p, call[p].to)
    /\ Return(p)

CreateFails(p, v) == Acting(p, "create") /\ ~Creatable(call[p], v) /\ Raise(p)

Next ==
    \E p \in Callers :
        \/ \E m \in Methods[p], to \in Names \cup {<<>>}, force \in BOOLEAN :
            \/ \E name \in Given \cup Names : StartWithName(p, m[1], m[2], name, to, force)
            \/ StartWithObject(p, m[1], m[2], to, force)
        \/ LookUpNext(p) \/ Found(p)
        \/ Delete(p) \/ DeleteFails(p)
        \/ Rename(p) \/ RenameFails(p)
        \/ \E v \in Oids \cup Targets :
            \/ Update(p, v) \/ UpdateFails(p, v)
            \/ Create(p, v) \/ CreateFails(p, v)

Spec == Init /\ [][Next]_vars

-----------------------------------------------------------------------------
(* Properties                                                               *)

\* No value of a reference is overwritten or removed unless the method that
\* does it had found this value, was told to use force, or has moved it.  HEAD
\* changes with the branch it names.
NothingLost ==
    [][\A n \in Names : refs[n] # Absent /\ refs'[n] # refs[n] =>
         \E p \in Callers :
            LET c == call[p] IN
            /\ Busy(p) /\ ~Busy(p)'
            /\ \/ c.at = n /\ c.found = refs[n]
               \/ c.to = n /\ c.force
               \/ c.op = "rename" /\ c.at = n /\ refs'[c.to] = refs[n]
               \/ c.op = "rename" /\ refs[n] = c.at /\ refs'[n] = c.to]_vars

\* An update leaves a direct reference direct and a symbolic one symbolic,
\* whatever other processes have made of it since it was looked up.
UpdateKeepsKind ==
    [][\A p \in Callers : call[p].op = "update" /\ ~Busy(p)' =>
         \A n \in Names : refs'[n] # refs[n] => (Direct(refs'[n]) <=> Direct(refs[n]))]_vars

\* A step of p looks up a branch by a short name.
LookingUpShort(p) ==
    LET c == IF Busy(p) THEN call[p] ELSE call'[p]
    IN  /\ Busy(p) => c.at = <<>>
        /\ c # Idle
        /\ c.on = "branches" /\ c.op # "create" /\ c.with = "name" /\ ~IsBranch(c.given)

\* When the lookup of a short name ends, a local branch that existed all the
\* time is what was found, and else a remote-tracking branch that existed all
\* the time, although the lookups are steps of their own.
LocalFirst ==
    [][\A p \in Callers : call'[p] # call[p] /\ LookingUpShort(p) =>
         LET name == IF Busy(p) THEN call[p].given ELSE call'[p].given
             stayed == IF Busy(p) THEN always[p] ELSE {n \in Names : Exists(n)}
             found(names) == Busy(p)' /\ call'[p].at \in names \cup {<<>>}
         IN  /\ Local(name) \in stayed => found({Local(name)})
             /\ RemoteTracking(name) \in stayed => found({Local(name), RemoteTracking(name)})]_vars

=============================================================================
