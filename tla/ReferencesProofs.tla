-------------------------- MODULE ReferencesProofs --------------------------
(***************************************************************************)
(* What holds of the methods on references and branches for any number of  *)
(* processes, references and names: no value is overwritten or removed by  *)
(* surprise, an update keeps the kind of a reference, and the lookup of a  *)
(* short name prefers the local branch although it takes several steps.    *)
(***************************************************************************)
EXTENDS References, TLAPS

\* A call has the fields of a call.
Shaped(c) ==
    c = [on |-> c.on, op |-> c.op, given |-> c.given, with |-> c.with, to |-> c.to,
         force |-> c.force, tried |-> c.tried, at |-> c.at, found |-> c.found]

Typed ==
    /\ refs = [n \in Names |-> refs[n]]
    /\ call = [p \in Callers |-> call[p]]
    /\ always = [p \in Callers |-> always[p]]
    /\ \A p \in Callers : Busy(p) => Shaped(call[p])

\* A method that renames has a new name.
RenamesTo == \A p \in Callers : call[p].op = "rename" => call[p].to \in Names

LookingUp(c) == c # Idle /\ c.op # "create" /\ c.at = <<>>

\* What has existed since a lookup began still does, and none of it is a name
\* that the lookup has tried.
Tried(c, since) ==
    LookingUp(c) =>
        /\ c.tried \in Nat \ {0}
        /\ \A i \in 1 .. c.tried : Candidates(c)[i] \notin since

Stayed ==
    \A p \in Callers :
        /\ always[p] \subseteq {n \in Names : Exists(n)}
        /\ Tried(call[p], always[p])

IInv == Typed /\ RenamesTo /\ Stayed

-----------------------------------------------------------------------------
(* The calls.                                                               *)

\* Changing one field of a call in progress leaves the others: how many names were tried,
LEMMA SetTried ==
    ASSUME NEW c, Shaped(c), NEW x
    PROVE  [c EXCEPT !.tried = x] =
               [on |-> c.on, op |-> c.op, given |-> c.given, with |-> c.with, to |-> c.to,
                force |-> c.force, tried |-> x, at |-> c.at, found |-> c.found]
BY DEF Shaped

\* the name that was found,
LEMMA SetAt ==
    ASSUME NEW c, Shaped(c), NEW x
    PROVE  [c EXCEPT !.at = x] =
               [on |-> c.on, op |-> c.op, given |-> c.given, with |-> c.with, to |-> c.to,
                force |-> c.force, tried |-> c.tried, at |-> x, found |-> c.found]
BY DEF Shaped

\* or its value.
LEMMA SetFound ==
    ASSUME NEW c, Shaped(c), NEW x
    PROVE  [c EXCEPT !.found = x] =
               [on |-> c.on, op |-> c.op, given |-> c.given, with |-> c.with, to |-> c.to,
                force |-> c.force, tried |-> c.tried, at |-> c.at, found |-> x]
BY DEF Shaped

\* The call of a process changes, those of the others do not.
Sets(p, c) == call' = [q \in Callers |-> IF q = p THEN c ELSE call[q]]

\* A call that returns leaves its caller idle.
LEMMA ReturnSets ==
    ASSUME Typed, NEW p \in Callers, Return(p)
    PROVE  Sets(p, Idle)
BY DEF Return, Sets, Typed

\* A call in progress is not the idle one.
LEMMA ShapedBusy ==
    ASSUME NEW c, Shaped(c)
    PROVE  c # Idle
<1>1. "at" \in DOMAIN c
  BY DEF Shaped
<1>2. DOMAIN Idle = {"op"}
  BY DEF Idle
<1> QED
  BY <1>1, <1>2

\* A call goes on with what it was asked for.
Same(c, d) ==
    /\ d.on = c.on /\ d.op = c.op /\ d.given = c.given /\ d.with = c.with
    /\ d.to = c.to /\ d.force = c.force

\* What a lookup makes of a call.
LEMMA LookUpSets ==
    ASSUME Typed, NEW p \in Callers, NEW c, Shaped(c), c.at = <<>>, LookUp(p, c)
    PROVE  LET n == Candidates(c)[c.tried + 1]
           IN  \/ /\ Exists(n)
                  /\ \E d : /\ Sets(p, d) /\ Shaped(d) /\ Same(c, d)
                            /\ d.at = n
               \/ /\ ~Exists(n) /\ c.tried + 1 < Len(Candidates(c))
                  /\ \E d : /\ Sets(p, d) /\ Shaped(d) /\ Same(c, d)
                            /\ d.at = <<>> /\ d.tried = c.tried + 1
               \/ /\ ~Exists(n) /\ ~(c.tried + 1 < Len(Candidates(c)))
                  /\ Sets(p, Idle)
<1> DEFINE n == Candidates(c)[c.tried + 1]
           value == IF c.op \in {"update", "delete"} THEN refs[n] ELSE c.found
           next == [c EXCEPT !.tried = @ + 1]
           found == [c EXCEPT !.at = n,
                              !.found = IF c.op \in {"update", "delete"} THEN refs[n] ELSE @]
<1>1. call' = [call EXCEPT ![p] =
          IF Exists(n) THEN found
          ELSE IF c.tried + 1 < Len(Candidates(c)) THEN next ELSE Idle]
  BY DEF LookUp
<1>2. found = [on |-> c.on, op |-> c.op, given |-> c.given, with |-> c.with, to |-> c.to,
               force |-> c.force, tried |-> c.tried, at |-> n, found |-> value]
  <2>1. PICK d : d = [c EXCEPT !.at = n]
    OBVIOUS
  <2>2. d = [on |-> c.on, op |-> c.op, given |-> c.given, with |-> c.with, to |-> c.to,
             force |-> c.force, tried |-> c.tried, at |-> n, found |-> c.found]
    BY <2>1, SetAt
  <2>3. found = [d EXCEPT !.found = value]
    BY <2>1, <2>2, Zenon
  <2>4. Shaped(d)
    BY <2>2 DEF Shaped
  <2> QED
    BY <2>2, <2>3, <2>4, SetFound
<1>3. next = [on |-> c.on, op |-> c.op, given |-> c.given, with |-> c.with, to |-> c.to,
              force |-> c.force, tried |-> c.tried + 1, at |-> c.at, found |-> c.found]
  BY SetTried
<1>4. Shaped(found) /\ Same(c, found) /\ found.at = n
  <2> HIDE DEF found, value, n
  <2> QED
    BY <1>2 DEF Shaped, Same
<1>5. Shaped(next) /\ Same(c, next) /\ next.at = <<>> /\ next.tried = c.tried + 1
  <2> HIDE DEF next
  <2> QED
    BY <1>3 DEF Shaped, Same
<1> HIDE DEF next, found
<1>6. CASE Exists(n)
  BY <1>1, <1>4, <1>6 DEF Sets, Typed
<1>7. CASE ~Exists(n) /\ c.tried + 1 < Len(Candidates(c))
  BY <1>1, <1>5, <1>7 DEF Sets, Typed
<1>8. CASE ~Exists(n) /\ ~(c.tried + 1 < Len(Candidates(c)))
  BY <1>1, <1>8 DEF Sets, Typed
<1> QED
  BY <1>6, <1>7, <1>8

-----------------------------------------------------------------------------
(* The steps.                                                               *)

\* No caller has called.
LEMMA InitIInv == Init => IInv
<1> SUFFICES ASSUME Init PROVE IInv
  OBVIOUS
<1>1. Typed
  BY DEF Init, Typed, Busy
<1>2. RenamesTo /\ Stayed
  BY DEF Init, RenamesTo, Stayed, Tried, LookingUp, Idle
<1> QED
  BY <1>1, <1>2 DEF IInv

\* A method ends.  Whatever it writes, names that do not exist any more have
\* not stayed.
LEMMA EndKeeps ==
    ASSUME IInv, NEW p \in Callers, Return(p),
           \/ UNCHANGED <<refs, always>>
           \/ \E r : r = [n \in Names |-> r[n]] /\ Write(r)
    PROVE  IInv'
<1>1. /\ call' = [q \in Callers |-> IF q = p THEN Idle ELSE call[q]]
      /\ refs' = [n \in Names |-> refs'[n]]
      /\ always' = [q \in Callers |-> always'[q]]
  BY ReturnSets DEF IInv, Typed, Sets, Write
<1>2. ASSUME NEW q \in Callers
      PROVE  /\ always'[q] \subseteq {n \in Names : refs'[n] # Absent}
             /\ always'[q] \subseteq always[q]
  BY DEF IInv, Stayed, Exists, Write
<1>3. Typed'
  BY <1>1 DEF IInv, Typed, Busy, Shaped, Idle
<1>4. RenamesTo'
  BY <1>1 DEF IInv, RenamesTo, Idle
<1>5. ASSUME NEW q \in Callers PROVE Tried(call'[q], always'[q])
  <2>1. CASE q = p
    BY <1>1, <2>1 DEF Tried, LookingUp
  <2>2. CASE q # p
    BY <1>1, <1>2, <2>2 DEF IInv, Stayed, Tried
  <2> QED
    BY <2>1, <2>2
<1>6. Stayed'
  BY <1>2, <1>5 DEF Stayed, Exists, Tried, LookingUp, Candidates
<1> QED
  BY <1>3, <1>4, <1>6 DEF IInv

\* A call begins, or a lookup goes on.
LEMMA SetsKeeps ==
    ASSUME IInv, NEW p \in Callers, NEW c, Sets(p, c), c # Idle => Shaped(c),
           c.op = "rename" => c.to \in Names,
           always' = [always EXCEPT ![p] = always'[p]],
           always'[p] \subseteq {n \in Names : Exists(n)},
           Tried(c, always'[p]), UNCHANGED refs
    PROVE  IInv'
<1>1. /\ call' = [q \in Callers |-> IF q = p THEN c ELSE call[q]]
      /\ always' = [q \in Callers |-> IF q = p THEN always'[p] ELSE always[q]]
  BY DEF Sets, IInv, Typed
<1>2. Typed'
  BY <1>1 DEF IInv, Typed, Busy, Shaped
<1>3. RenamesTo'
  BY <1>1 DEF IInv, RenamesTo
<1>4. Stayed'
  BY <1>1 DEF IInv, Stayed, Exists, Tried, LookingUp, Candidates
<1> QED
  BY <1>2, <1>3, <1>4 DEF IInv

\* Trying the next name keeps the invariant,
LEMMA LookUpNextKeeps ==
    ASSUME IInv, NEW p \in Callers, LookUpNext(p)
    PROVE  IInv'
<1> DEFINE c == call[p]
           n == Candidates(c)[c.tried + 1]
<1>1. /\ Typed /\ Shaped(c) /\ c # Idle /\ c.op # "create" /\ c.at = <<>>
      /\ LookUp(p, c) /\ UNCHANGED refs
      /\ always' = [always EXCEPT ![p] = IF Busy(p)' /\ call'[p].at = <<>> THEN @ ELSE {}]
  BY DEF LookUpNext, IInv, Typed, Busy
<1>2. /\ always[p] \subseteq {m \in Names : Exists(m)} /\ c.tried \in Nat \ {0}
      /\ \A i \in 1 .. c.tried : Candidates(c)[i] \notin always[p]
  BY <1>1 DEF IInv, Stayed, Tried, LookingUp
<1>3. /\ always' = [always EXCEPT ![p] = always'[p]]
      /\ always'[p] \in {always[p], {}}
  BY <1>1 DEF Typed
<1>4. c.op = "rename" => c.to \in Names
  BY DEF IInv, RenamesTo
<1>5. CASE Exists(n)
  <2>1. PICK d : Sets(p, d) /\ Shaped(d) /\ Same(c, d) /\ d.at = n
    BY <1>1, <1>5, LookUpSets
  <2>2. d.at # <<>>
    BY <1>5, <2>1, NamesAssumption DEF Exists
  <2>3. Tried(d, always'[p])
    BY <2>2 DEF Tried, LookingUp
  <2> QED
    BY <1>1, <1>2, <1>3, <1>4, <2>1, <2>3, SetsKeeps DEF Same
<1>6. CASE ~Exists(n) /\ c.tried + 1 < Len(Candidates(c))
  <2>1. PICK d : Sets(p, d) /\ Shaped(d) /\ Same(c, d) /\ d.at = <<>> /\ d.tried = c.tried + 1
    BY <1>1, <1>6, LookUpSets
  <2>2. Candidates(d) = Candidates(c)
    BY <2>1 DEF Candidates, Same
  <2>3. n \notin always[p]
    BY <1>2, <1>6
  <2>4. ASSUME NEW i \in 1 .. d.tried PROVE Candidates(d)[i] \notin always[p]
    BY <1>2, <2>1, <2>2, <2>3
  <2>5. Tried(d, always'[p])
    BY <1>2, <1>3, <2>1, <2>4 DEF Tried
  <2> QED
    BY <1>1, <1>2, <1>3, <1>4, <2>1, <2>5, SetsKeeps DEF Same
<1>7. CASE ~Exists(n) /\ ~(c.tried + 1 < Len(Candidates(c)))
  <2>1. Sets(p, Idle)
    BY <1>1, <1>7, LookUpSets
  <2>2. Tried(Idle, always'[p]) /\ Idle.op # "rename"
    BY DEF Tried, LookingUp, Idle
  <2> QED
    BY <1>1, <1>2, <1>3, <2>1, <2>2, SetsKeeps
<1> QED
  BY <1>5, <1>6, <1>7

\* and so does starting a call,
LEMMA StartKeeps ==
    ASSUME IInv, NEW p \in Callers, NEW on, NEW op, NEW name, NEW with, NEW to, NEW force,
           Start(p, on, op, name, with, to, force), op = "rename" => to \in Names
    PROVE  IInv'
<1> DEFINE c == [on |-> on, op |-> op, given |-> name, with |-> with, to |-> to,
                 force |-> force, tried |-> 0, at |-> <<>>, found |-> Absent]
           n == Candidates(c)[c.tried + 1]
           existing == {m \in Names : Exists(m)}
<1>1. /\ Typed /\ Shaped(c) /\ c.op = op /\ c.to = to /\ c.at = <<>> /\ c.tried = 0
      /\ UNCHANGED refs
      /\ IF op = "create" THEN call' = [call EXCEPT ![p] = c] ELSE LookUp(p, c)
      /\ always' = [always EXCEPT ![p] =
             IF op # "create" /\ Busy(p)' /\ call'[p].at = <<>> THEN existing ELSE {}]
  BY DEF Start, IInv, Shaped
<1> HIDE DEF c
<1>2. /\ always' = [always EXCEPT ![p] = always'[p]]
      /\ always'[p] \in {existing, {}}
  BY <1>1 DEF Typed
<1>3. CASE op = "create"
  <2>1. Sets(p, c)
    BY <1>1, <1>3 DEF Sets, Typed
  <2>2. Tried(c, always'[p])
    BY <1>1, <1>3 DEF Tried, LookingUp
  <2> QED
    BY <1>1, <1>2, <1>3, <2>1, <2>2, SetsKeeps
<1>4. CASE op # "create" /\ Exists(n)
  <2>1. PICK d : Sets(p, d) /\ Shaped(d) /\ Same(c, d) /\ d.at = n
    BY <1>1, <1>4, LookUpSets
  <2>2. d.at # <<>>
    BY <1>4, <2>1, NamesAssumption DEF Exists
  <2>3. Tried(d, always'[p])
    BY <2>2 DEF Tried, LookingUp
  <2> QED
    BY <1>1, <1>2, <2>1, <2>3, SetsKeeps DEF Same
<1>5. CASE op # "create" /\ ~Exists(n) /\ c.tried + 1 < Len(Candidates(c))
  <2>1. PICK d : Sets(p, d) /\ Shaped(d) /\ Same(c, d) /\ d.at = <<>> /\ d.tried = c.tried + 1
    BY <1>1, <1>5, LookUpSets
  <2>2. Candidates(d) = Candidates(c)
    BY <2>1 DEF Candidates, Same
  <2>3. n \notin always'[p]
    BY <1>2, <1>5
  <2>4. ASSUME NEW i \in 1 .. d.tried PROVE Candidates(d)[i] \notin always'[p]
    <3>1. i = 1
      BY <1>1, <2>1
    <3> QED
      BY <1>1, <2>2, <2>3, <3>1
  <2>5. Tried(d, always'[p])
    BY <1>1, <2>1, <2>4 DEF Tried
  <2> QED
    BY <1>1, <1>2, <2>1, <2>5, SetsKeeps DEF Same
<1>6. CASE op # "create" /\ ~Exists(n) /\ ~(c.tried + 1 < Len(Candidates(c)))
  <2>1. Sets(p, Idle)
    BY <1>1, <1>6, LookUpSets
  <2>2. Tried(Idle, always'[p]) /\ Idle.op # "rename"
    BY DEF Tried, LookingUp, Idle
  <2> QED
    BY <1>1, <1>2, <2>1, <2>2, SetsKeeps
<1> QED
  BY <1>3, <1>4, <1>5, <1>6

\* The steps that end a method, each with what it knew and what it writes.
Ends(p) ==
    \/ Found(p) \/ Delete(p) \/ DeleteFails(p) \/ Rename(p) \/ RenameFails(p)
    \/ \E v \in Oids \cup Targets : Update(p, v) \/ UpdateFails(p, v) \/ Create(p, v) \/ CreateFails(p, v)

Starts(p) ==
    \E m \in Methods[p], to \in Names \cup {<<>>}, force \in BOOLEAN :
        \/ \E name \in Given \cup Names : StartWithName(p, m[1], m[2], name, to, force)
        \/ StartWithObject(p, m[1], m[2], to, force)

\* A step is one of a caller.
LEMMA StepOf ==
    ASSUME Next
    PROVE  \E p \in Callers : Starts(p) \/ LookUpNext(p) \/ Ends(p)
BY DEF Next, Starts, Ends

\* All actions that end a call write at most a new table of references.
LEMMA EndsReturn ==
    ASSUME Typed, NEW p \in Callers, Ends(p)
    PROVE  /\ Return(p)
           /\ \/ UNCHANGED <<refs, always>>
              \/ \E r : r = [n \in Names |-> r[n]] /\ Write(r)
<1>1. CASE Found(p) \/ DeleteFails(p) \/ RenameFails(p)
  BY <1>1 DEF Found, DeleteFails, RenameFails, Raise
<1>2. CASE Delete(p)
  BY <1>2 DEF Delete, Typed
<1>3. CASE Rename(p)
  <2> DEFINE c == call[p]
             r == [[n \in Names |-> IF n = HEAD /\ refs[n] = c.at THEN c.to ELSE refs[n]]
                      EXCEPT ![c.to] = refs[c.at], ![c.at] = Absent]
  <2>1. Return(p) /\ Write(r)
    BY <1>3 DEF Rename
  <2>2. r = [n \in Names |-> r[n]]
    OBVIOUS
  <2> HIDE DEF r
  <2> QED
    BY <2>1, <2>2
<1>4. ASSUME NEW v, Update(p, v) \/ Create(p, v)
      PROVE  Return(p) /\ \E r : r = [n \in Names |-> r[n]] /\ Write(r)
  BY <1>4 DEF Update, Create, Typed
<1>5. ASSUME NEW v, UpdateFails(p, v) \/ CreateFails(p, v)
      PROVE  Return(p) /\ UNCHANGED <<refs, always>>
  BY <1>5 DEF UpdateFails, CreateFails, Raise
<1> QED
  BY <1>1, <1>2, <1>3, <1>4, <1>5 DEF Ends

\* Every step keeps the invariant.
LEMMA NextIInv == IInv /\ [Next]_vars => IInv'
<1> SUFFICES ASSUME IInv, [Next]_vars PROVE IInv'
  OBVIOUS
<1>1. ASSUME NEW p \in Callers, Starts(p) PROVE IInv'
  <2>1. PICK on, op, name, with, to, force :
            /\ Start(p, on, op, name, with, to, force)
            /\ op = "rename" => to \in Names
    BY <1>1, Zenon DEF Starts, StartWithName, StartWithObject
  <2> QED
    BY <2>1, StartKeeps
<1>2. ASSUME NEW p \in Callers, LookUpNext(p) PROVE IInv'
  BY <1>2, LookUpNextKeeps
<1>3. ASSUME NEW p \in Callers, Ends(p) PROVE IInv'
  BY <1>3, EndsReturn, EndKeeps DEF IInv
<1>4. CASE UNCHANGED vars
  BY <1>4 DEF vars, IInv, Typed, Busy, Shaped, RenamesTo, Stayed, Exists, Tried, LookingUp,
              Candidates
<1> QED
  BY <1>1, <1>2, <1>3, <1>4, StepOf

\* What the callers know of the references is so at any time, whatever the others
\* do in between.
THEOREM ReferencesInvariant == Spec => []IInv
BY InitIInv, NextIInv, PTL DEF Spec

-----------------------------------------------------------------------------
(* What references, calls and objects are.                                  *)

Contents ==
    /\ refs \in [Names -> Values \cup {Absent}]
    /\ \A p \in Callers : Busy(p) => call[p] \in Calls
    /\ \A p \in Callers : call[p].op = "create" => call[p].to \in Names
    /\ object \in [Callers -> [name: Names \cup {<<>>}, branch: BOOLEAN]]
    /\ \A p \in Callers : object[p] # NoObject => object[p].name \in Names

\* A branch has up to three candidates.
LEMMA ThreeCandidates ==
    ASSUME NEW c
    PROVE  Len(Candidates(c)) \in 1 .. 3
BY DEF Candidates, BranchNames

\* A lookup ends the call or makes a call of it that knows more.
LEMMA LookUpTyped ==
    ASSUME Typed, Contents, NEW p \in Callers, NEW c \in Calls, LookUp(p, c)
    PROVE  \E d : /\ Sets(p, d)
                  /\ d # Idle => d \in Calls /\ d.op = c.op /\ d.to = c.to
<1> DEFINE n == Candidates(c)[c.tried + 1]
           value == IF c.op \in {"update", "delete"} THEN refs[n] ELSE c.found
           next == [c EXCEPT !.tried = @ + 1]
           found == [c EXCEPT !.at = n,
                              !.found = IF c.op \in {"update", "delete"} THEN refs[n] ELSE @]
           end == IF Exists(n) THEN found
                  ELSE IF c.tried + 1 < Len(Candidates(c)) THEN next ELSE Idle
<1>1. call' = [call EXCEPT ![p] = end]
  BY DEF LookUp
<1>2. ASSUME Exists(n)
      PROVE  found \in Calls /\ found.op = c.op /\ found.to = c.to
  <2>1. n \in Names /\ value \in Values \cup {Absent}
    BY <1>2 DEF Exists, Contents, Calls
  <2> HIDE DEF n
  <2> QED
    BY <2>1 DEF Calls
<1>3. ASSUME c.tried + 1 < Len(Candidates(c))
      PROVE  next \in Calls /\ next.op = c.op /\ next.to = c.to
  <2>1. c.tried \in 0 .. 2
    BY DEF Calls
  <2> DEFINE length == Len(Candidates(c))
  <2>2. length \in 1 .. 3
    BY ThreeCandidates
  <2>3. c.tried + 1 < length
    BY <1>3
  <2> HIDE DEF length
  <2>4. c.tried + 1 \in 0 .. 2
    BY <2>1, <2>2, <2>3
  <2> QED
    BY <2>4 DEF Calls
<1> HIDE DEF next, found, n
<1>4. end # Idle => end \in Calls /\ end.op = c.op /\ end.to = c.to
  BY <1>2, <1>3
<1> HIDE DEF end
<1>5. Sets(p, end)
  BY <1>1 DEF Sets, Typed
<1> QED
  BY <1>4, <1>5

\* The call of one process changes and nothing else.
LEMMA SetsTyped ==
    ASSUME Typed, Contents, NEW p \in Callers, NEW d, Sets(p, d), UNCHANGED <<refs, object>>,
           d # Idle => d \in Calls, d.op = "create" => d.to \in Names
    PROVE  Contents'
<1>1. call' = [q \in Callers |-> IF q = p THEN d ELSE call[q]]
  BY DEF Sets
<1>2. \A q \in Callers : call'[q] # Idle => call'[q] \in Calls
  BY <1>1 DEF Contents, Busy
<1>3. \A q \in Callers : call'[q].op = "create" => call'[q].to \in Names
  BY <1>1 DEF Contents
<1> QED
  BY <1>2, <1>3 DEF Contents, Busy

\* A method is called with what a call has.
LEMMA StartTyped ==
    ASSUME Typed, Contents, NEW p \in Callers, NEW on, NEW op, NEW name \in Given \cup Names,
           NEW with \in {"name", "object"}, NEW to \in Names \cup {<<>>},
           NEW force \in BOOLEAN, <<on, op>> \in Methods[p],
           op = "create" => to \in Names,
           Start(p, on, op, name, with, to, force)
    PROVE  Contents'
<1> DEFINE c == [on |-> on, op |-> op, given |-> name, with |-> with, to |-> to,
                 force |-> force, tried |-> 0, at |-> <<>>, found |-> Absent]
<1>1. /\ on \in {"references", "branches"}
      /\ op \in {"aref", "exist", "update", "delete", "rename", "create"}
  BY BoundsAssumption DEF AllMethods
<1>2. c \in Calls /\ c.op = op /\ c.to = to
  BY <1>1 DEF Calls
<1>3. /\ IF op = "create" THEN call' = [call EXCEPT ![p] = c] ELSE LookUp(p, c)
      /\ UNCHANGED <<refs, object>>
  BY DEF Start
<1> HIDE DEF c
<1>4. CASE op = "create"
  BY <1>2, <1>3, <1>4, SetsTyped DEF Sets, Typed
<1>5. CASE op # "create"
  <2>1. PICK d : Sets(p, d) /\ (d # Idle => d \in Calls /\ d.op = c.op /\ d.to = c.to)
    BY <1>2, <1>3, <1>5, LookUpTyped
  <2>2. d.op # "create"
    BY <1>2, <1>5, <2>1 DEF Idle
  <2> QED
    BY <1>3, <2>1, <2>2, SetsTyped
<1> QED
  BY <1>4, <1>5

\* A method that ends writes values and keeps an object of a name.
LEMMA EndTyped ==
    ASSUME IInv, Contents, NEW p \in Callers, Ends(p)
    PROVE  Contents'
<1> DEFINE c == call[p]
<1>0. /\ Typed /\ Sets(p, Idle)
      /\ \A n \in Names : refs[n] \in Values \cup {Absent}
      /\ Names \subseteq Values /\ Oids \cup Targets \subseteq Values
  BY EndsReturn, ReturnSets, BoundsAssumption DEF IInv, Contents, Values
<1>1. c.op # "idle" => c \in Calls
  BY DEF Contents, Busy, Idle
<1>2. ASSUME NEW n \in Names, Keep(p, n), c \in Calls
      PROVE  /\ object' \in [Callers -> [name: Names \cup {<<>>}, branch: BOOLEAN]]
             /\ \A q \in Callers : object'[q] # NoObject => object'[q].name \in Names
  <2>1. object' \in {object, [object EXCEPT ![p] = [name |-> n, branch |-> call[p].on = "branches"]]}
    BY <1>2 DEF Keep
  <2>2. [name |-> n, branch |-> call[p].on = "branches"]
            \in [name: Names \cup {<<>>}, branch: BOOLEAN]
    OBVIOUS
  <2> QED
    BY <2>1, <2>2 DEF Contents
<1>3. ASSUME NEW op, Acting(p, op), op # "create", op # "idle"
      PROVE  c \in Calls /\ c.op = op /\ c.at \in Names
  BY <1>1, <1>3 DEF Acting, Calls
<1>4. ASSUME refs' \in [Names -> Values \cup {Absent}],
             \/ UNCHANGED object
             \/ \E n \in Names : Keep(p, n) /\ c \in Calls
      PROVE  Contents'
  <2>1. /\ \A q \in Callers : call'[q] # Idle => call'[q] \in Calls
        /\ \A q \in Callers : call'[q].op = "create" => call'[q].to \in Names
    BY <1>0 DEF Sets, Contents, Busy, Idle
  <2>2. /\ object' \in [Callers -> [name: Names \cup {<<>>}, branch: BOOLEAN]]
        /\ \A q \in Callers : object'[q] # NoObject => object'[q].name \in Names
    BY <1>2, <1>4 DEF Contents
  <2> QED
    BY <1>4, <2>1, <2>2 DEF Contents, Busy
<1>5. CASE Found(p)
  <2>1. refs' = refs /\ (UNCHANGED object \/ (Acting(p, "aref") /\ Keep(p, c.at)))
    BY <1>5 DEF Found
  <2> QED
    BY <1>3, <1>4, <2>1 DEF Contents
<1>6. CASE Delete(p)
  <2>1. refs' = [refs EXCEPT ![c.at] = Absent] /\ UNCHANGED object
    BY <1>6 DEF Delete, Write
  <2> QED
    BY <1>4, <2>1 DEF Contents
<1>7. CASE Rename(p)
  <2> DEFINE follows == [n \in Names |-> IF n = HEAD /\ refs[n] = c.at THEN c.to ELSE refs[n]]
  <2>1. /\ refs' = [follows EXCEPT ![c.to] = refs[c.at], ![c.at] = Absent]
        /\ Keep(p, c.to) /\ Acting(p, "rename")
    BY <1>7 DEF Rename, Write
  <2>2. c \in Calls /\ c.at \in Names /\ c.to \in Names
    BY <1>3, <2>1 DEF IInv, RenamesTo, Acting
  <2>3. follows \in [Names -> Values \cup {Absent}]
    BY <1>0, <2>2
  <2> HIDE DEF follows
  <2>4. refs' \in [Names -> Values \cup {Absent}]
    BY <1>0, <2>1, <2>2, <2>3
  <2> QED
    BY <1>4, <2>1, <2>2, <2>4
<1>8. ASSUME NEW v \in Oids \cup Targets, Update(p, v) PROVE Contents'
  <2>1. refs' = [refs EXCEPT ![c.at] = v] /\ Keep(p, c.at) /\ Acting(p, "update")
    BY <1>8 DEF Update, Write
  <2>2. refs' \in [Names -> Values \cup {Absent}]
    BY <1>0, <2>1 DEF Contents
  <2> QED
    BY <1>3, <1>4, <2>1, <2>2
<1>9. ASSUME NEW v \in Oids \cup Targets, Create(p, v) PROVE Contents'
  <2>1. refs' = [refs EXCEPT ![c.to] = v] /\ Keep(p, c.to) /\ c.op = "create"
    BY <1>9 DEF Create, Write, Acting
  <2>2. refs' \in [Names -> Values \cup {Absent}]
    BY <1>0, <2>1 DEF Contents
  <2>3. c.to \in Names /\ c \in Calls
    BY <1>1, <2>1 DEF Contents
  <2> QED
    BY <1>4, <2>1, <2>2, <2>3
<1>10. CASE \/ DeleteFails(p) \/ RenameFails(p)
            \/ \E v \in Oids \cup Targets : UpdateFails(p, v) \/ CreateFails(p, v)
  BY <1>4, <1>10 DEF DeleteFails, RenameFails, UpdateFails, CreateFails, Raise, Contents
<1> QED
  BY <1>5, <1>6, <1>7, <1>8, <1>9, <1>10 DEF Ends

\* Each step leaves names, values and calls of the right kind.
LEMMA ContentsStep ==
    ASSUME IInv, Contents, [Next]_vars
    PROVE  Contents'
<1>0. Typed
  BY DEF IInv
<1>1. ASSUME NEW p \in Callers, Starts(p) PROVE Contents'
  <2>1. PICK m \in Methods[p], to \in Names \cup {<<>>}, force \in BOOLEAN :
            \/ \E name \in Given \cup Names : StartWithName(p, m[1], m[2], name, to, force)
            \/ StartWithObject(p, m[1], m[2], to, force)
    BY <1>1 DEF Starts
  <2>2. ASSUME NEW name \in Given \cup Names, StartWithName(p, m[1], m[2], name, to, force)
        PROVE  Contents'
    <3>1. /\ Start(p, m[1], m[2], name, "name", to, force)
          /\ m[2] = "create" => to \in Names
      BY <2>2 DEF StartWithName
    <3>2. <<m[1], m[2]>> \in Methods[p]
      BY <3>1 DEF Start
    <3> QED
      BY <1>0, <3>1, <3>2, StartTyped
  <2>3. CASE StartWithObject(p, m[1], m[2], to, force)
    <3>1. /\ Start(p, m[1], m[2], object[p].name, "object", to, force)
          /\ m[2] # "create" /\ object[p] # NoObject
      BY <2>3 DEF StartWithObject
    <3>2. <<m[1], m[2]>> \in Methods[p] /\ object[p].name \in Given \cup Names
      BY <3>1 DEF Start, Contents
    <3> QED
      BY <1>0, <3>1, <3>2, StartTyped
  <2> QED
    BY <2>1, <2>2, <2>3
<1>2. ASSUME NEW p \in Callers, LookUpNext(p) PROVE Contents'
  <2>1. /\ call[p] \in Calls /\ call[p].op # "create" /\ LookUp(p, call[p])
        /\ UNCHANGED <<refs, object>>
    BY <1>2 DEF LookUpNext, Contents
  <2>2. PICK d : Sets(p, d) /\ (d # Idle => d \in Calls /\ d.op = call[p].op)
    BY <1>0, <2>1, LookUpTyped
  <2>3. d.op # "create"
    BY <2>1, <2>2 DEF Idle
  <2> QED
    BY <1>0, <2>1, <2>2, <2>3, SetsTyped
<1>3. CASE UNCHANGED vars
  BY <1>3 DEF vars, Contents, Busy
<1> QED
  BY <1>1, <1>2, <1>3, StepOf, EndTyped

\* Whatever the methods write and in whatever order, a reference is a value of one or
\* does not exist, a lookup has tried at most two names when it tries the last, and
\* an object that a program keeps has the name of a reference.
THEOREM ReferencesTyped == Spec => []TypeOK
<1>1. Init => Contents
  <2> SUFFICES ASSUME Init PROVE Contents
    OBVIOUS
  <2>1. Names \subseteq Values /\ Targets \subseteq Values /\ Oids \subseteq Values
    BY BoundsAssumption DEF Values
  <2>2. refs \in [Names -> Values \cup {Absent}]
    BY <2>1 DEF Init
  <2> QED
    BY <2>2 DEF Init, Contents, Busy, Idle, NoObject
<1>2. IInv /\ Contents /\ [Next]_vars => Contents'
  BY ContentsStep
<1>3. IInv /\ Contents => TypeOK
  <2> SUFFICES ASSUME IInv, Contents PROVE TypeOK
    OBVIOUS
  <2>1. call \in [Callers -> Calls \cup {Idle}]
    BY DEF IInv, Typed, Contents, Busy
  <2>2. always \in [Callers -> SUBSET Names]
    BY DEF IInv, Typed, Stayed
  <2> QED
    BY <2>1, <2>2 DEF Contents, TypeOK
<1> QED
  BY <1>1, <1>2, <1>3, ReferencesInvariant, PTL DEF Spec

-----------------------------------------------------------------------------
(* What a step changes.                                                     *)

\* Only the end of a method changes references, and the call of its process.
LEMMA Changes ==
    ASSUME IInv, [Next]_vars, refs' # refs
    PROVE  \E p \in Callers :
              /\ Return(p)
              /\ \/ Delete(p) \/ Rename(p)
                 \/ \E v \in Oids \cup Targets : Update(p, v) \/ Create(p, v)
<1>1. PICK p \in Callers : Starts(p) \/ LookUpNext(p) \/ Ends(p)
  BY StepOf DEF vars
<1>2. ~Starts(p) /\ ~LookUpNext(p)
  <2>1. ASSUME NEW on, NEW op, NEW name, NEW with, NEW to, NEW force,
               Start(p, on, op, name, with, to, force)
        PROVE  FALSE
    BY <2>1 DEF Start
  <2> QED
    BY <2>1, Zenon DEF Starts, StartWithName, StartWithObject, LookUpNext
<1> QED
  BY <1>1, <1>2, EndsReturn
     DEF Ends, Found, DeleteFails, RenameFails, UpdateFails, CreateFails, Raise, IInv

\* references.update, delete, rename and create: no value that a method has not
\* seen goes away without :force, whatever the other processes do between its
\* lookup and its change.
THEOREM NoLostReference == Spec => NothingLost
<1> DEFINE Lost(n) == refs[n] # Absent /\ refs'[n] # refs[n]
           Justified(n) ==
               \E p \in Callers :
                  LET c == call[p] IN
                  /\ Busy(p) /\ ~Busy(p)'
                  /\ \/ c.at = n /\ c.found = refs[n]
                     \/ c.to = n /\ c.force
                     \/ c.op = "rename" /\ c.at = n /\ refs'[c.to] = refs[n]
                     \/ c.op = "rename" /\ refs[n] = c.at /\ refs'[n] = c.to
<1>1. ASSUME IInv, [Next]_vars, NEW n \in Names, Lost(n) PROVE Justified(n)
  <2>1. PICK p \in Callers :
            /\ Return(p)
            /\ \/ Delete(p) \/ Rename(p)
               \/ \E v \in Oids \cup Targets : Update(p, v) \/ Create(p, v)
    BY <1>1, Changes
  <2>2. call'[p] = Idle /\ ~Busy(p)'
    BY <1>1, <2>1, ReturnSets DEF IInv, Sets, Busy
  <2>3. Typed
    BY <1>1 DEF IInv
  <2>4. CASE Delete(p)
    <3>1. Busy(p) /\ refs[call[p].at] = call[p].found
      BY <2>4 DEF Delete, Acting, Busy, Idle, Deletable, Unchanged
    <3>2. refs' = [refs EXCEPT ![call[p].at] = Absent]
      BY <2>4 DEF Delete, Write
    <3>3. call[p].at = n
      BY <1>1, <2>3, <3>2 DEF Typed
    <3> QED
      BY <2>2, <3>1, <3>3
  <2>5. ASSUME NEW v, Update(p, v) PROVE Justified(n)
    <3>1. Busy(p) /\ refs[call[p].at] = call[p].found
      BY <2>5 DEF Update, Acting, Busy, Idle, Unchanged
    <3>2. refs' = [refs EXCEPT ![call[p].at] = v]
      BY <2>5 DEF Update, Write
    <3>3. call[p].at = n
      BY <1>1, <2>3, <3>2 DEF Typed
    <3> QED
      BY <2>2, <3>1, <3>3
  <2>6. ASSUME NEW v, Create(p, v) PROVE Justified(n)
    <3>1. Busy(p) /\ (Exists(call[p].to) => call[p].force)
      BY <2>6 DEF Create, Acting, Busy, Idle, Creatable
    <3>2. refs' = [refs EXCEPT ![call[p].to] = v]
      BY <2>6 DEF Create, Write
    <3>3. call[p].to = n /\ Exists(n)
      BY <1>1, <2>3, <3>2 DEF Typed, Exists
    <3> QED
      BY <2>2, <3>1, <3>3
  <2>7. CASE Rename(p)
    <3> DEFINE c == call[p]
    <3>1. /\ Busy(p) /\ c.op = "rename" /\ Exists(c.at) /\ c.to # c.at
          /\ Exists(c.to) => c.force
      BY <2>7 DEF Rename, Acting, Busy, Idle, Renamable
    <3>2. c.to \in Names
      BY <1>1, <3>1 DEF IInv, RenamesTo
    <3>3. refs' = [[m \in Names |-> IF m = HEAD /\ refs[m] = c.at THEN c.to ELSE refs[m]]
                      EXCEPT ![c.to] = refs[c.at], ![c.at] = Absent]
      BY <2>7 DEF Rename, Write
    <3> HIDE DEF c
    <3>4. refs' = [m \in Names |->
                      IF m = c.at THEN Absent
                      ELSE IF m = c.to THEN refs[c.at]
                      ELSE IF m = HEAD /\ refs[m] = c.at THEN c.to ELSE refs[m]]
      BY <3>3
    <3>5. \/ c.at = n /\ refs'[c.to] = refs[n]
          \/ c.to = n /\ c.force
          \/ refs[n] = c.at /\ refs'[n] = c.to
      BY <1>1, <3>1, <3>2, <3>4 DEF Exists
    <3> QED
      BY <2>2, <3>1, <3>5 DEF c
  <2> QED
    BY <2>1, <2>4, <2>5, <2>6, <2>7
<1>2. IInv /\ [Next]_vars => [\A n \in Names : Lost(n) => Justified(n)]_vars
  BY <1>1
<1> QED
  BY <1>2, ReferencesInvariant, PTL DEF Spec, NothingLost

\* references.update: libgit2 compares the value as it writes, so that the kind
\* of the reference is the one that the method has checked.
THEOREM KeepsKind == Spec => UpdateKeepsKind
<1>1. ASSUME IInv, [Next]_vars, NEW p \in Callers, call[p].op = "update", ~Busy(p)',
             NEW n \in Names, refs'[n] # refs[n]
      PROVE  Direct(refs'[n]) <=> Direct(refs[n])
  <2>1. PICK q \in Callers :
            /\ Return(q)
            /\ \/ Delete(q) \/ Rename(q)
               \/ \E v \in Oids \cup Targets : Update(q, v) \/ Create(q, v)
    BY <1>1, Changes
  <2>2. q = p
    <3>1. call[p] # Idle
      BY <1>1 DEF Idle
    <3>2. q # p => call'[p] = call[p]
      BY <1>1, <2>1, ReturnSets DEF IInv, Sets
    <3> QED
      BY <1>1, <3>1, <3>2 DEF Busy
  <2>3. PICK v : Update(p, v)
    BY <1>1, <2>1, <2>2 DEF Delete, Rename, Create, Acting
  <2>4. /\ refs[call[p].at] = call[p].found /\ (Direct(v) <=> Direct(call[p].found))
        /\ refs' = [refs EXCEPT ![call[p].at] = v]
    BY <2>3 DEF Update, Unchanged, Write
  <2> QED
    BY <1>1, <2>4 DEF IInv, Typed
<1>2. IInv /\ [Next]_vars =>
        [\A p \in Callers : call[p].op = "update" /\ ~Busy(p)' =>
           \A n \in Names : refs'[n] # refs[n] => (Direct(refs'[n]) <=> Direct(refs[n]))]_vars
  BY <1>1
<1> QED
  BY <1>2, ReferencesInvariant, PTL DEF Spec, UpdateKeepsKind

-----------------------------------------------------------------------------
(* The lookup of a short name.                                              *)

Short(c) ==
    /\ c # Idle /\ c.on = "branches" /\ c.op # "create" /\ c.with = "name"
    /\ ~IsBranch(c.given)

\* A short name is tried as a local branch first, then as one of a remote.
LEMMA ShortCandidates ==
    ASSUME NEW c, Short(c)
    PROVE  /\ Candidates(c)[1] = Local(c.given)
           /\ Candidates(c)[2] = RemoteTracking(c.given)
           /\ Len(Candidates(c)) = 3
BY DEF Short, Candidates, BranchNames

\* What LocalFirst says of the call d that a lookup has led to.
FoundIn(d, names) == d # Idle /\ d.at \in names \cup {<<>>}

\* Of a lookup that goes on: the local branch has not stayed, it was tried.
LEMMA ShortGoesOn ==
    ASSUME IInv, NEW p \in Callers, LookUpNext(p), Short(call[p])
    PROVE  /\ Local(call[p].given) \notin always[p]
           /\ RemoteTracking(call[p].given) \in always[p] =>
                  FoundIn(call'[p], {Local(call[p].given), RemoteTracking(call[p].given)})
<1> DEFINE c == call[p]
           n == Candidates(c)[c.tried + 1]
<1>1. Typed /\ Shaped(c) /\ c # Idle /\ c.op # "create" /\ c.at = <<>> /\ LookUp(p, c)
  BY DEF LookUpNext, IInv, Typed, Busy
<1>2. /\ always[p] \subseteq {m \in Names : Exists(m)} /\ c.tried \in Nat \ {0}
      /\ \A i \in 1 .. c.tried : Candidates(c)[i] \notin always[p]
  BY <1>1 DEF IInv, Stayed, Tried, LookingUp
<1>3. Local(c.given) \notin always[p]
  BY <1>2, ShortCandidates
<1>4. ASSUME RemoteTracking(c.given) \in always[p]
      PROVE  FoundIn(call'[p], {RemoteTracking(c.given)})
  <2>1. c.tried = 1
    BY <1>2, <1>4, ShortCandidates
  <2>2. n = RemoteTracking(c.given) /\ Exists(n)
    BY <1>2, <1>4, <2>1, ShortCandidates
  <2>3. PICK d : Sets(p, d) /\ Shaped(d) /\ Same(c, d) /\ d.at = n
    BY <1>1, <2>2, LookUpSets
  <2>4. n # <<>>
    BY <2>2, NamesAssumption DEF Exists
  <2>5. call'[p] = d /\ d # Idle
    BY <2>3, ShapedBusy DEF Sets
  <2> QED
    BY <2>2, <2>3, <2>5 DEF FoundIn
<1> QED
  BY <1>3, <1>4 DEF FoundIn

\* Of a lookup that begins: what has stayed is what exists.
LEMMA ShortBegins ==
    ASSUME IInv, NEW p \in Callers, NEW on, NEW op, NEW name, NEW with, NEW to, NEW force,
           Start(p, on, op, name, with, to, force), Short(call'[p])
    PROVE  LET given == call'[p].given IN
           /\ Exists(Local(given)) => FoundIn(call'[p], {Local(given)})
           /\ Exists(RemoteTracking(given)) =>
                  FoundIn(call'[p], {Local(given), RemoteTracking(given)})
<1> DEFINE c == [on |-> on, op |-> op, given |-> name, with |-> with, to |-> to,
                 force |-> force, tried |-> 0, at |-> <<>>, found |-> Absent]
           n == Candidates(c)[c.tried + 1]
<1>1. /\ Typed /\ Shaped(c) /\ c.op = op /\ c.on = on /\ c.with = with /\ c.given = name
      /\ c.at = <<>> /\ c.tried = 0
      /\ IF op = "create" THEN call' = [call EXCEPT ![p] = c] ELSE LookUp(p, c)
  BY DEF Start, IInv, Shaped
<1> HIDE DEF c
<1>2. op # "create"
  BY <1>1 DEF Typed, Short
<1>3. ~Sets(p, Idle)
  BY DEF Sets, Short
<1>4. c # Idle
  BY <1>1, ShapedBusy
<1>5. n = Candidates(c)[1]
  BY <1>1
<1>6. CASE Exists(n)
  <2>1. PICK d : Sets(p, d) /\ Shaped(d) /\ Same(c, d) /\ d.at = n
    BY <1>1, <1>2, <1>6, LookUpSets
  <2>2. call'[p] = d /\ d # Idle /\ Short(c)
    BY <1>4, <2>1, ShapedBusy DEF Sets, Short, Same
  <2>3. n = Local(call'[p].given)
    BY <1>5, <2>1, <2>2, ShortCandidates DEF Same
  <2> QED
    BY <2>1, <2>2, <2>3 DEF FoundIn
<1>7. CASE ~Exists(n) /\ c.tried + 1 < Len(Candidates(c))
  <2>1. PICK d : Sets(p, d) /\ Shaped(d) /\ Same(c, d) /\ d.at = <<>> /\ d.tried = c.tried + 1
    BY <1>1, <1>2, <1>7, LookUpSets
  <2>2. call'[p] = d /\ d # Idle /\ Short(c)
    BY <1>4, <2>1, ShapedBusy DEF Sets, Short, Same
  <2>3. n = Local(call'[p].given)
    BY <1>5, <2>1, <2>2, ShortCandidates DEF Same
  <2> QED
    BY <1>7, <2>1, <2>2, <2>3 DEF FoundIn
<1> QED
  BY <1>1, <1>2, <1>3, <1>6, <1>7, LookUpSets

\* Who may take which step.
LEMMA NotStarting ==
    ASSUME NEW p \in Callers, Busy(p)
    PROVE  ~Starts(p)
<1>1. ASSUME NEW on, NEW op, NEW name, NEW with, NEW to, NEW force,
             Start(p, on, op, name, with, to, force)
      PROVE  FALSE
  BY <1>1 DEF Start
<1> QED
  BY <1>1, Zenon DEF Starts, StartWithName, StartWithObject

\* A call ends only after it has found its reference, or is to create one.
LEMMA NotEnding ==
    ASSUME NEW p \in Callers, Ends(p)
    PROVE  Busy(p) /\ (call[p].at # <<>> \/ call[p].op = "create")
<1>1. \E op \in {"aref", "exist", "update", "delete", "rename", "create"} : Acting(p, op)
  BY DEF Ends, Found, Delete, DeleteFails, Rename, RenameFails, Update, UpdateFails, Create,
         CreateFails
<1> QED
  BY <1>1 DEF Acting, Busy, Idle

\* A step of another caller leaves the call alone.
LEMMA OthersKept ==
    ASSUME IInv, NEW p \in Callers, NEW q \in Callers, q # p,
           Starts(q) \/ LookUpNext(q) \/ Ends(q)
    PROVE  call'[p] = call[p]
<1>1. ASSUME NEW c, LookUp(q, c) PROVE call'[p] = call[p]
  BY <1>1 DEF LookUp, IInv, Typed
<1>2. ASSUME NEW on, NEW op, NEW name, NEW with, NEW to, NEW force,
             Start(q, on, op, name, with, to, force)
      PROVE  call'[p] = call[p]
  BY <1>1, <1>2 DEF Start, IInv, Typed
<1>3. CASE Starts(q)
  BY <1>2, <1>3, Zenon DEF Starts, StartWithName, StartWithObject
<1>4. CASE LookUpNext(q)
  BY <1>1, <1>4 DEF LookUpNext
<1>5. CASE Ends(q)
  BY <1>5, EndsReturn, ReturnSets DEF IInv, Sets
<1> QED
  BY <1>3, <1>4, <1>5

\* branches[name], exist?, delete, move: rugged_branch_lookup tries the names
\* one by one, and what existed all the time under the first of them is found.
THEOREM FindsLocalFirst == Spec => LocalFirst
<1> DEFINE Keeps(p) ==
               LET name == IF Busy(p) THEN call[p].given ELSE call'[p].given
                   stayed == IF Busy(p) THEN always[p] ELSE {n \in Names : Exists(n)}
                   found(names) == Busy(p)' /\ call'[p].at \in names \cup {<<>>}
               IN  /\ Local(name) \in stayed => found({Local(name)})
                   /\ RemoteTracking(name) \in stayed => found({Local(name), RemoteTracking(name)})
<1>1. ASSUME IInv, [Next]_vars, NEW p \in Callers, call'[p] # call[p], LookingUpShort(p)
      PROVE  Keeps(p)
  <2>1. PICK q \in Callers : Starts(q) \/ LookUpNext(q) \/ Ends(q)
    BY <1>1, StepOf DEF vars
  <2>2. q = p
    BY <1>1, <2>1, OthersKept
  <2>3. CASE Busy(p)
    <3>1. Short(call[p]) /\ call[p].at = <<>>
      BY <1>1, <2>3 DEF LookingUpShort, Short
    <3>2. LookUpNext(p)
      BY <2>1, <2>2, <2>3, <3>1, NotStarting, NotEnding DEF Short
    <3> QED
      BY <1>1, <2>3, <3>1, <3>2, ShortGoesOn DEF FoundIn, Busy
  <2>4. CASE ~Busy(p)
    <3>1. Short(call'[p])
      BY <1>1, <2>4 DEF LookingUpShort, Short
    <3>2. Starts(p)
      BY <1>1, <2>1, <2>2, <2>4, NotEnding DEF LookUpNext
    <3>3. PICK on, op, name, with, to, force : Start(p, on, op, name, with, to, force)
      BY <3>2, Zenon DEF Starts, StartWithName, StartWithObject
    <3> QED
      BY <1>1, <2>4, <3>1, <3>3, ShortBegins DEF FoundIn, Busy
  <2> QED
    BY <2>3, <2>4
<1>2. IInv /\ [Next]_vars =>
        [\A p \in Callers : call'[p] # call[p] /\ LookingUpShort(p) => Keeps(p)]_vars
  BY <1>1
<1> QED
  BY <1>2, ReferencesInvariant, PTL DEF Spec, LocalFirst

=============================================================================
