---------------------------- MODULE CourseStore ----------------------------
(***************************************************************************)
(* The courses of one owner, edited from several requests at a time:        *)
(* web/app/courses.go, the edits of web/app/assignments.go and              *)
(* web/app/import_assignment.go as far as they read and save a course, and  *)
(* the courses table.  Each statement is one step; nothing else separates   *)
(* two requests.  A course is what the requests tell apart: its parts, the  *)
(* YAML kept beside it, and a ghost id for which course it is.              *)
(***************************************************************************)
EXTENDS Naturals

CONSTANTS
  Names,      \* course names
  Requests,   \* requests of the owner at the same time
  Parts,      \* settings, roster and assignments, edited by different requests
  Values,     \* what a part may be, decoded
  Texts,      \* what a course file may say of a part: more than a value keeps
  Decode,     \* Texts -> Values; unknown keys and an explicit false are dropped
  Encode,     \* Values -> Texts, the canonical text
  Blank,      \* what CreateCourse starts every part with
  BlockPart,  \* the part that holds the assignments
  MaxIds,     \* bound: courses made
  Faults,     \* which faults the environment may inject
  None

Content == [Parts -> Values]
\* A course file names its course in its only top-level key.
File == [name : Names, text : [Parts -> Texts]]
EncodeCourse(n, parts) == [name |-> n, text |-> [p \in Parts |-> Encode[parts[p]]]]
DecodeCourse(file) == [p \in Parts |-> Decode[file.text[p]]]
Row == [name : Names, parts : Content, raw : File, id : Nat]

ASSUME CourseStoreAssumption ==
  /\ Blank \in Values /\ BlockPart \in Parts /\ MaxIds \in Nat
  /\ Faults \subseteq {"crash", "db", "lost"}
  /\ None \notin Row

\* decode_test.go, TestRoundTripAllFixtures: "re-encoding and decoding again
\* yields the same source".  The other way round a text is not kept.
ASSUME RoundTripAssumption ==
  /\ Decode \in [Texts -> Values] /\ Encode \in [Values -> Texts]
  /\ \A v \in Values : Decode[Encode[v]] = v

VARIABLES
  courses,    \* the table: [Names -> Row \cup {None}]
  pc, req, stored,  \* of a request: where it is, its arguments, the row it read
  born, live  \* ghost: ids given out, courses the owner has not deleted

vars == <<courses, pc, req, stored, born, live>>

Edit   == [op : {"edit"}, name : Names, part : Parts, val : Values]
Block  == [op : {"block"}, name : Names, part : {BlockPart}, val : Values]
Create == [op : {"create"}, name : Names]
Import == [op : {"import"}, name : Names, text : [Parts -> Texts]]
Rename == [op : {"rename"}, name : Names, new : Names]

Request == Edit \cup Block \cup Create \cup Import \cup Rename

Course(n) == courses[n]
Holders(table, i) == {n \in Names : table[n] # None /\ table[n].id = i}

Goto(r, l) == pc' = [pc EXCEPT ![r] = l]
End(r) ==
  /\ Goto(r, "idle")
  /\ req' = [req EXCEPT ![r] = None]
  /\ stored' = [stored EXCEPT ![r] = None]
Take(r, q, row) ==
  /\ req' = [req EXCEPT ![r] = q]
  /\ stored' = [stored EXCEPT ![r] = row]

----------------------------------------------------------------------------
(* The first statement of each request *)

\* SetCourse, SetCourseStudents, SetCourseGroups and the edits of assignments.
ReadForEdit(r) == \E q \in Edit :
  /\ pc[r] = "idle" /\ Course(q.name) # None
  /\ Take(r, q, Course(q.name)) /\ Goto(r, "save")
  /\ UNCHANGED <<courses, born, live>>

\* ImportAssignmentYAML looks the course up in its own YAML, by its name.
ReadForImport(r) == \E q \in Block :
  /\ pc[r] = "idle" /\ Course(q.name) # None
  /\ Course(q.name).raw.name = q.name
  /\ Take(r, q, Course(q.name)) /\ Goto(r, "save")
  /\ UNCHANGED <<courses, born, live>>

CreateCourse(r) == \E q \in Create :
  /\ pc[r] = "idle" /\ Course(q.name) = None /\ born < MaxIds
  /\ Take(r, q, None) /\ Goto(r, "save")
  /\ UNCHANGED <<courses, born, live>>

\* ImportCourseYAML reads the existing course for its import date only.
ImportCourseYAML(r) == \E q \in Import :
  /\ pc[r] = "idle" /\ born < MaxIds
  /\ Take(r, q, Course(q.name)) /\ Goto(r, "save")
  /\ UNCHANGED <<courses, born, live>>

RenameCourse(r) == \E q \in Rename :
  /\ pc[r] = "idle" /\ q.new # q.name /\ Course(q.name) # None
  /\ Take(r, q, Course(q.name)) /\ Goto(r, "check")
  /\ UNCHANGED <<courses, born, live>>

CheckNewName(r) ==
  /\ pc[r] = "check"
  /\ \/ Course(req[r].new) = None /\ Goto(r, "save") /\ UNCHANGED <<req, stored>>
     \/ Course(req[r].new) # None /\ End(r)
     \/ "db" \in Faults /\ End(r)
  /\ UNCHANGED <<courses, born, live>>

\* Whose last copy the statement removes is deleted, and rightly gone.
DeleteCourse(r) == \E n \in Names :
  /\ pc[r] = "idle" /\ Course(n) # None
  /\ courses' = [courses EXCEPT ![n] = None]
  /\ live' = IF Holders(courses, Course(n).id) = {n} THEN live \ {Course(n).id} ELSE live
  /\ UNCHANGED <<pc, req, stored, born>>

----------------------------------------------------------------------------
(* The row a request saves, and the save *)

EditedRow(r, base) ==
  LET parts == [base EXCEPT ![req[r].part] = req[r].val]
  IN  [stored[r] EXCEPT !.parts = parts, !.raw = EncodeCourse(stored[r].name, parts)]

CreatedRow(r) ==
  LET parts == [p \in Parts |-> Blank]
  IN  [name |-> req[r].name, parts |-> parts, raw |-> EncodeCourse(req[r].name, parts), id |-> born + 1]

\* The uploaded file is kept as it is, beside what was decoded from it.
ImportedRow(r) ==
  LET file == [name |-> req[r].name, text |-> req[r].text]
  IN  [name |-> req[r].name, parts |-> DecodeCourse(file), raw |-> file, id |-> born + 1]

\* Mutant: the YAML keeps the old name.
RenamedSource(r) == [stored[r] EXCEPT !.name = req[r].new]
RenamedRow(r) ==
  [stored[r] EXCEPT !.name = req[r].new, !.raw = EncodeCourse(req[r].new, stored[r].parts)]

RowToSave(r) ==
  CASE req[r].op = "edit"   -> EditedRow(r, stored[r].parts)
    [] req[r].op = "block"  -> EditedRow(r, DecodeCourse(stored[r].raw))
    [] req[r].op = "create" -> CreatedRow(r)
    [] req[r].op = "import" -> ImportedRow(r)
    [] req[r].op = "rename" -> RenamedRow(r)

Target(r) == IF req[r].op = "rename" THEN req[r].new ELSE req[r].name
IsNew(r) == req[r].op \in {"create", "import"}
\* An import replaces the course it finds; nothing else may.
Replaced(r) ==
  IF req[r].op = "import" /\ Course(req[r].name) # None
     /\ Holders(courses, Course(req[r].name).id) = {req[r].name}
  THEN {Course(req[r].name).id} ELSE {}

\* An upsert on (owner, name).
SaveCourse(r) ==
  /\ courses' = [courses EXCEPT ![Target(r)] = RowToSave(r)]
  /\ born' = IF IsNew(r) THEN born + 1 ELSE born
  /\ live' = (live \ Replaced(r)) \cup (IF IsNew(r) THEN {born + 1} ELSE {})

\* Mutant: the error of the save is logged and no more.
GoOnAfterError(r) ==
  IF req[r].op = "rename" THEN Goto(r, "delete") /\ UNCHANGED <<req, stored>> ELSE End(r)
StopAfterError(r) == End(r)

Save(r) ==
  /\ pc[r] = "save" /\ (IsNew(r) => born < MaxIds)
  /\ \/ SaveCourse(r) /\ req[r].op # "rename" /\ End(r)
     \/ SaveCourse(r) /\ req[r].op = "rename" /\ Goto(r, "delete") /\ UNCHANGED <<req, stored>>
     \/ "lost" \in Faults /\ SaveCourse(r) /\ StopAfterError(r)
     \/ "db" \in Faults /\ StopAfterError(r) /\ UNCHANGED <<courses, born, live>>

\* The second half of RenameCourse; a course that is gone is an error as well.
DeleteOld(r) ==
  /\ pc[r] = "delete"
  /\ End(r)
  /\ \/ courses' = [courses EXCEPT ![req[r].name] = None]
     \/ "db" \in Faults /\ UNCHANGED courses
  /\ UNCHANGED <<born, live>>

Crash ==
  /\ "crash" \in Faults
  /\ \E r \in Requests : pc[r] # "idle"
  /\ pc' = [r \in Requests |-> "idle"]
  /\ req' = [r \in Requests |-> None]
  /\ stored' = [r \in Requests |-> None]
  /\ UNCHANGED <<courses, born, live>>

Init ==
  /\ courses = [n \in Names |-> None]
  /\ pc = [r \in Requests |-> "idle"]
  /\ req = [r \in Requests |-> None]
  /\ stored = [r \in Requests |-> None]
  /\ born = 0 /\ live = {}

Statement(r) ==
  \/ ReadForEdit(r) \/ ReadForImport(r) \/ CreateCourse(r) \/ ImportCourseYAML(r) \/ RenameCourse(r)
  \/ CheckNewName(r) \/ DeleteCourse(r) \/ Save(r) \/ DeleteOld(r)

Next == Crash \/ \E r \in Requests : Statement(r)

Spec == Init /\ [][Next]_vars

----------------------------------------------------------------------------
(* Correctness *)

\* Type invariant: the rows of the table and the locals of the requests.
TypeOK ==
  /\ courses \in [Names -> Row \cup {None}]
  /\ pc \in [Requests -> {"idle", "check", "save", "delete"}]
  /\ req \in [Requests -> Request \cup {None}]
  /\ stored \in [Requests -> Row \cup {None}]
  /\ born \in Nat /\ live \subseteq 1..born

\* The source the editors edit and the YAML that plans, previews and downloads
\* read are one course, under the name it is stored by, however requests
\* interleave: decoded, the YAML is the source.  It may say more than that, as
\* an uploaded file does until the first edit of any of its parts.
RawMatchesRow ==
  \A n \in Names : Course(n) # None =>
    /\ Course(n).name = n /\ Course(n).raw.name = n
    /\ DecodeCourse(Course(n).raw) = Course(n).parts

\* courses.go: "a failure never loses the course (at worst it leaves a
\* duplicate to clean up)"; a create or a rename "fails if [...] the caller
\* already has a course by that name".
NoCourseIsLost == \A i \in live : Holders(courses, i) # {}

----------------------------------------------------------------------------
(* The strengthening under which RawMatchesRow is inductive: what a request has
   read, and may save later, was a consistent row when it was read. *)

Consistent(row) == row.raw.name = row.name /\ DecodeCourse(row.raw) = row.parts

LocalsMatch ==
  \A r \in Requests :
    /\ pc[r] # "idle" => req[r] \in Request
    /\ pc[r] # "idle" /\ req[r].op \in {"edit", "block", "rename"} =>
         stored[r] \in Row /\ stored[r].name = req[r].name /\ Consistent(stored[r])
    /\ pc[r] \in {"check", "delete"} => req[r].op = "rename"

IInv == TypeOK /\ RawMatchesRow /\ LocalsMatch
=============================================================================
