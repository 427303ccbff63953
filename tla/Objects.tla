------------------------------ MODULE Objects -------------------------------
(***************************************************************************)
(* What Rugged computes itself from the contents of blobs and trees: the   *)
(* beginning of a text, the lines of a text and those that are not blank,  *)
(* the number of files below a tree; and the blob that is made of what an  *)
(* IO gives, read by read.                                                 *)
(***************************************************************************)
EXTENDS Integers, Sequences, FiniteSetsExt

CONSTANTS
    Characters,
    Contents,       \* the contents of blobs: sequences of characters
    Walks,          \* the entries of trees in preorder: sequences of types
    Limits,         \* the limits that may be asked for; -1 is no limit
    MaxLength       \* how much is read from an IO at a time

CONSTANTS LF, CR, Space

ASSUME MaxLengthAssumption == MaxLength \in Nat \ {0}

\* What nil stands for is no character.
ASSUME ContentsAssumption ==
    /\ Contents \subseteq Seq(Characters)
    /\ "nil" \notin Characters
    /\ Walks \subseteq Seq({"blob", "tree"})
    /\ Limits \subseteq Int

VARIABLES
    object,     \* the object, or NoObject as long as it is being made
    answer,     \* of the last method called
    given,      \* what the IO gives
    rest,       \* what it has not given yet
    chunk,      \* what the last read has returned, or Nil
    written,    \* what has been written to the stream
    reading     \* "no", "read", "write", "commit" or "failed"

io == <<given, rest, chunk, written, reading>>
objectsVars == <<object, answer, io>>

NoObject == [kind |-> "none"]
Blob(data) == [kind |-> "blob", data |-> data]
Tree(walk) == [kind |-> "tree", walk |-> walk]

Nil == <<"nil">>
NoAnswer == [method |-> "none"]

ObjectsInit ==
    /\ answer = NoAnswer
    /\ chunk = <<>> /\ written = <<>>
    /\ \/ object \in {Blob(d) : d \in Contents} /\ given = <<>> /\ reading = "no"
       \/ object \in {Tree(w) : w \in Walks} /\ given = <<>> /\ reading = "no"
       \/ object = NoObject /\ given \in Contents /\ reading = "read"
    /\ rest = given

-----------------------------------------------------------------------------
(* The loops of the methods, as functions of the position.                  *)

\* Where a loop ends that runs from a position to n, or to the first one in stop.
Seek(from, n, stop) ==
    LET End[i \in from .. n] == IF i = n \/ i \in stop THEN i ELSE End[i + 1]
    IN  End[from]

\* What a counter is when i members of s have been passed: it counts those in S.
Tally(s, S) ==
    LET Count[i \in 0 .. Len(s)] ==
            IF i = 0 THEN 0 ELSE IF s[i] \in S THEN Count[i - 1] + 1 ELSE Count[i - 1]
    IN  Count

IsSpace(c) == c \in {LF, CR, Space}

\* Mutant: the line behind the last one is passed too.
TextSize_OneMore(data, maxLines) ==
    LET lines == Tally(data, {LF})
    IN  IF maxLines >= 0
        THEN Seek(0, Len(data), {i \in 0 .. Len(data) : lines[i] > maxLines})
        ELSE Len(data)

\* Where the text ends that has max_lines lines.
TextSize(data, maxLines) ==
    LET lines == Tally(data, {LF})
    IN  IF maxLines >= 0
        THEN Seek(0, Len(data), {i \in 0 .. Len(data) : lines[i] >= maxLines})
        ELSE Len(data)

\* Mutant: a carriage return and the line feed behind it are two ends.
LinesOfCode_Twice(data) ==
    LET Ends[i \in 1 .. Len(data) + 1] ==
            IF i > Len(data) THEN 0
            ELSE IF data[i] \in {LF, CR} THEN 1 + Ends[i + 1]
            ELSE Ends[i + 1]
    IN  IF data = <<>> THEN 0
        ELSE Ends[1] + IF data[Len(data)] \in {LF, CR} THEN 0 ELSE 1

LinesOfCode(data) ==
    LET Ends[i \in 1 .. Len(data) + 1] ==
            IF i > Len(data) THEN 0
            ELSE IF data[i] = LF THEN 1 + Ends[i + 1]
            ELSE IF data[i] = CR
                 THEN 1 + Ends[IF i < Len(data) /\ data[i + 1] = LF THEN i + 2 ELSE i + 1]
            ELSE Ends[i + 1]
    IN  IF data = <<>> THEN 0
        ELSE Ends[1] + IF data[Len(data)] \in {LF, CR} THEN 0 ELSE 1

\* Mutant: only line feeds are passed behind a line feed.
SourceLines_Feeds(data) ==
    LET solid == {i \in 1 .. Len(data) : data[i] # LF}
        Lines[i \in 1 .. Len(data) + 1] ==
            IF i > Len(data) THEN 0
            ELSE IF data[i] = LF THEN 1 + Lines[Seek(i + 1, Len(data) + 1, solid)]
            ELSE Lines[i + 1]
    IN  IF data = <<>> THEN 0
        ELSE Lines[1] + IF data[Len(data)] = LF THEN 0 ELSE 1

\* Behind a line feed all that is blank is passed.
SourceLines(data) ==
    LET solid == {i \in 1 .. Len(data) : ~IsSpace(data[i])}
        Lines[i \in 1 .. Len(data) + 1] ==
            IF i > Len(data) THEN 0
            ELSE IF data[i] = LF THEN 1 + Lines[Seek(i + 1, Len(data) + 1, solid)]
            ELSE Lines[i + 1]
    IN  IF data = <<>> THEN 0
        ELSE Lines[1] + IF data[Len(data)] = LF THEN 0 ELSE 1

\* A limit of trees that is not given is that of the entries.
TreeLimit(entryLimit, treeLimit) ==
    IF treeLimit < 0 /\ entryLimit >= 0 THEN entryLimit ELSE treeLimit

\* Mutant: trees count as entries.
EntryCount_Trees(walk, entryLimit, treeLimit) ==
    LET trees == Tally(walk, {"tree"})
        full == {i \in 0 .. Len(walk) :
                    \/ entryLimit >= 0 /\ i >= entryLimit
                    \/ treeLimit >= 0 /\ trees[i] >= treeLimit}
        end == Seek(0, Len(walk), full)
    IN  end - trees[end]

\* The callback counts an entry, as a tree or not, or stops the walk.
EntryCount(walk, entryLimit, treeLimit) ==
    LET trees == Tally(walk, {"tree"})
        full == {i \in 0 .. Len(walk) :
                    \/ entryLimit >= 0 /\ i - trees[i] >= entryLimit
                    \/ treeLimit >= 0 /\ trees[i] >= treeLimit}
        end == Seek(0, Len(walk), full)
    IN  end - trees[end]

-----------------------------------------------------------------------------
(* The methods.                                                             *)

Answers(a) ==
    /\ answer = NoAnswer
    /\ answer' = a
    /\ UNCHANGED <<object, io>>

Text(maxLines) ==
    /\ object.kind = "blob"
    /\ Answers([method |-> "text", max |-> maxLines,
                text |-> SubSeq(object.data, 1, TextSize(object.data, maxLines))])

Loc ==
    /\ object.kind = "blob"
    /\ Answers([method |-> "loc", count |-> LinesOfCode(object.data)])

Sloc ==
    /\ object.kind = "blob"
    /\ Answers([method |-> "sloc", count |-> SourceLines(object.data)])

CountRecursive(entryLimit, treeLimit) ==
    /\ object.kind = "tree"
    /\ LET trees == TreeLimit(entryLimit, treeLimit)
       IN  Answers([method |-> "count_recursive", entries |-> entryLimit, trees |-> trees,
                    count |-> EntryCount(object.walk, entryLimit, trees)])

\* io.read returns what it likes, but no more than it is asked for; or nil at
\* the end.  The loop ends with nil.
Read ==
    /\ reading = "read"
    /\ \/ /\ rest = <<>>
          /\ chunk' = Nil
          /\ reading' = "commit"
          /\ UNCHANGED rest
       \/ \E n \in 0 .. Min({MaxLength, Len(rest)}) :
              /\ rest # <<>>
              /\ chunk' = SubSeq(rest, 1, n)
              /\ rest' = SubSeq(rest, n + 1, Len(rest))
              /\ reading' = "write"
    /\ UNCHANGED <<object, answer, given, written>>

\* Mutant: what has been written so far becomes the blob.
ReadRaises_Commits ==
    /\ reading = "read"
    /\ reading' = "commit"
    /\ UNCHANGED <<object, answer, given, rest, chunk, written>>

\* io.read raises, or returns what is no string.
ReadRaises ==
    /\ reading = "read"
    /\ reading' = "failed"
    /\ UNCHANGED <<object, answer, given, rest, chunk, written>>

\* The loop goes on if the read was full.
Write ==
    /\ reading = "write"
    /\ written' = written \o chunk
    /\ reading' = IF Len(chunk) = MaxLength THEN "read" ELSE "commit"
    /\ UNCHANGED <<object, answer, given, rest, chunk>>

WriteFails ==
    /\ reading \in {"write", "commit"}
    /\ reading' = "failed"
    /\ UNCHANGED <<object, answer, given, rest, chunk, written>>

Commit ==
    /\ reading = "commit"
    /\ object' = Blob(written)
    /\ reading' = "no"
    /\ UNCHANGED <<answer, given, rest, chunk, written>>

ObjectsNext ==
    \/ \E m \in Limits : Text(m)
    \/ Loc \/ Sloc
    \/ \E e, t \in Limits : CountRecursive(e, t)
    \/ Read \/ ReadRaises \/ Write \/ WriteFails \/ Commit

ObjectsSpec == ObjectsInit /\ [][ObjectsNext]_objectsVars

-----------------------------------------------------------------------------
(* What the answers mean, without the loops.                                *)

Feeds(data) == {i \in 1 .. Len(data) : data[i] = LF}

\* text(max) is the whole text, or ends with the line feed of line max.
TextRight ==
    answer.method = "text" =>
        LET text == answer.text
            data == object.data
        IN  /\ text = SubSeq(data, 1, Len(text))
            /\ answer.max < 0 => text = data
            /\ answer.max >= 0 => Cardinality(Feeds(text)) <= answer.max
            /\ answer.max = 0 => text = <<>>
            /\ text # data /\ answer.max > 0 =>
                   text[Len(text)] = LF /\ Cardinality(Feeds(text)) = answer.max

\* loc is the number of ends of lines, the three conventions mixed, and of a
\* last line that has none.
LocRight ==
    answer.method = "loc" =>
        LET data == object.data
            last == Len(data)
            ends == {i \in 1 .. last :
                        data[i] = LF \/ (data[i] = CR /\ (i = last \/ data[i + 1] # LF))}
        IN  answer.count = Cardinality(ends) + IF last \in {0} \union ends THEN 0 ELSE 1

\* Where the lines of a text start, which of them are blank, and which have a
\* line feed at their end.
LineStarts(data) == {i \in 1 .. Len(data) : i = 1 \/ data[i - 1] = LF}
BlankAt(data, i) ==
    \A j \in i .. Len(data) : IsSpace(data[j]) \/ \E k \in i .. j : data[k] = LF
EndedAt(data, i) == \E k \in i .. Len(data) : data[k] = LF

\* sloc is the number of lines that are not blank, of a text that does not begin
\* with a blank line nor end in one without a line feed.
SlocRight ==
    answer.method = "sloc" =>
        LET data == object.data
            blank == {i \in LineStarts(data) : BlankAt(data, i)}
        IN  (\A i \in blank : i # 1 /\ EndedAt(data, i)) =>
                answer.count = Cardinality(LineStarts(data) \ blank)

\* count_recursive counts the files that come before the place, in preorder,
\* at which one of the limits is reached.
CountRight ==
    answer.method = "count_recursive" =>
        LET walk == object.walk
            files == {i \in 1 .. Len(walk) : walk[i] # "tree"}
            Before(i, S) == Cardinality({j \in S : j < i})
            Reached(limit, n) == limit >= 0 /\ n >= limit
        IN  answer.count = Cardinality({i \in files :
                /\ ~Reached(answer.entries, Before(i, files))
                /\ ~Reached(answer.trees, Before(i, (1 .. Len(walk)) \ files))})

\* The two counts of lines are those.
LinesRight == LocRight /\ SlocRight

\* The blob is what was read, and all there is unless a read was short of
\* both MaxLength and the end.
FromIoRight ==
    given # <<>> /\ object.kind = "blob" =>
        /\ given = object.data \o rest
        /\ rest # <<>> => chunk # Nil /\ Len(chunk) < MaxLength

=============================================================================
