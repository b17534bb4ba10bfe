------------------------- MODULE CourseStoreProofs -------------------------
(***************************************************************************)
(* A stored course and its YAML agree, for any number of requests of an     *)
(* owner, any names and any faults, although no request locks anything;     *)
(* what a course says of its students gives each of them one repository;    *)
(* and its assignments resolve to what is written in their chains of        *)
(* parents, which no edit of another assignment changes.                    *)
(***************************************************************************)
EXTENDS CourseStore, Assignments, FiniteSetTheorems, WellFoundedInduction, TLAPS

USE CourseStoreAssumption DEF Content, File, Edit, Block, Create, Import, Rename, Request

\* What a request holds, as LocalsMatch has it of one request.
LocalOK(r) ==
  /\ pc[r] # "idle" => req[r] \in Request
  /\ pc[r] # "idle" /\ req[r].op \in {"edit", "block", "rename"} =>
       stored[r] \in Row /\ stored[r].name = req[r].name /\ Consistent(stored[r])
  /\ pc[r] \in {"check", "delete"} => req[r].op = "rename"

\* A row as it must be under the name n.
RowOK(row, n) == row \in Row /\ row.name = n /\ Consistent(row)

\* What is encoded decodes to itself, and every file decodes to a content.
LEMMA RoundTrip ==
  ASSUME NEW n \in Names, NEW parts \in Content
  PROVE  LET file == EncodeCourse(n, parts)
         IN  file \in File /\ file.name = n /\ DecodeCourse(file) = parts
<1>1. \A p \in Parts : Encode[parts[p]] \in Texts /\ Decode[Encode[parts[p]]] = parts[p]
  BY RoundTripAssumption
<1> QED BY <1>1 DEF EncodeCourse, DecodeCourse

LEMMA Decodes == \A file \in File : DecodeCourse(file) \in Content
BY RoundTripAssumption DEF DecodeCourse

LEMMA InitIInv == Init => IInv
BY DEF Init, IInv, TypeOK, RawMatchesRow, LocalsMatch, Course

\* A row that is there is consistent.
LEMMA ReadRow ==
  ASSUME IInv, NEW n \in Names, Course(n) # None
  PROVE  RowOK(Course(n), n)
BY DEF IInv, TypeOK, RawMatchesRow, Course, RowOK, Consistent

\* Whatever a request saves is consistent and goes under its own name.
LEMMA SavedRow ==
  ASSUME IInv, NEW r \in Requests, pc[r] = "save"
  PROVE  Target(r) \in Names /\ RowOK(RowToSave(r), Target(r))
<1>1. req[r] \in Request /\ born \in Nat
  BY DEF IInv, LocalsMatch, TypeOK
<1>2. CASE req[r].op \in {"edit", "block"}
  <2>1. stored[r] \in Row /\ stored[r].name = req[r].name /\ Consistent(stored[r])
    BY <1>2 DEF IInv, LocalsMatch
  <2>2. req[r].part \in Parts /\ req[r].val \in Values /\ req[r].name \in Names
    BY <1>1, <1>2
  <2>3. ASSUME NEW base \in Content
        PROVE  RowOK(EditedRow(r, base), req[r].name)
    <3> DEFINE parts == [base EXCEPT ![req[r].part] = req[r].val]
    <3>1. parts \in Content
      BY <2>2
    <3> DEFINE file == EncodeCourse(stored[r].name, parts)
    <3>2. file \in File /\ file.name = stored[r].name /\ DecodeCourse(file) = parts
      <4> HIDE DEF parts
      <4> QED BY <2>1, <3>1, RoundTrip DEF Row
    <3>3. EditedRow(r, base) =
            [stored[r] EXCEPT !.parts = parts, !.raw = file]
      BY DEF EditedRow
    <3> HIDE DEF parts, file
    <3> QED BY <2>1, <3>1, <3>2, <3>3 DEF Row, RowOK, Consistent
  <2>4. stored[r].parts \in Content /\ DecodeCourse(stored[r].raw) \in Content
    BY <2>1, Decodes DEF Row
  <2> QED BY <1>2, <2>2, <2>3, <2>4 DEF RowToSave, Target
<1>3. CASE req[r].op \in {"create", "import"}
  <2>1. req[r].name \in Names /\ Target(r) = req[r].name
    BY <1>1, <1>3 DEF Target
  <2>2. CASE req[r].op = "create"
    <3> DEFINE parts == [p \in Parts |-> Blank]
               file == EncodeCourse(req[r].name, parts)
    <3>1. parts \in Content
      OBVIOUS
    <3>2. file \in File /\ file.name = req[r].name /\ DecodeCourse(file) = parts
      BY <2>1, <3>1, RoundTrip
    <3>3. RowToSave(r) = [name |-> req[r].name, parts |-> parts, raw |-> file, id |-> born + 1]
      BY <2>2 DEF RowToSave, CreatedRow
    <3> HIDE DEF parts, file
    <3> QED BY <1>1, <2>1, <3>1, <3>2, <3>3 DEF RowOK, Row, Consistent
  <2>3. CASE req[r].op = "import"
    <3> DEFINE file == [name |-> req[r].name, text |-> req[r].text]
    <3>1. file \in File /\ file.name = req[r].name
      BY <1>1, <2>1, <2>3
    <3>2. DecodeCourse(file) \in Content
      BY <3>1, Decodes
    <3>3. RowToSave(r) = [name |-> req[r].name, parts |-> DecodeCourse(file), raw |-> file, id |-> born + 1]
      BY <2>3 DEF RowToSave, ImportedRow
    <3> HIDE DEF file
    <3> QED BY <1>1, <2>1, <3>1, <3>2, <3>3 DEF RowOK, Row, Consistent
  <2> QED BY <1>3, <2>2, <2>3
<1>4. CASE req[r].op = "rename"
  <2>1. stored[r] \in Row
    BY <1>4 DEF IInv, LocalsMatch
  <2>2. req[r].new \in Names
    BY <1>1, <1>4
  <2> DEFINE file == EncodeCourse(req[r].new, stored[r].parts)
  <2>3. file \in File /\ file.name = req[r].new /\ DecodeCourse(file) = stored[r].parts
    BY <2>1, <2>2, RoundTrip DEF Row
  <2>4. RowToSave(r) = [stored[r] EXCEPT !.name = req[r].new, !.raw = file] /\ Target(r) = req[r].new
    BY <1>4 DEF RowToSave, RenamedRow, Target
  <2> HIDE DEF file
  <2> QED BY <2>1, <2>2, <2>3, <2>4 DEF RowOK, Row, Consistent
<1> QED BY <1>1, <1>2, <1>3, <1>4


\* The table takes a consistent row, or loses one, and stays consistent.
TableOK(table) ==
  /\ table \in [Names -> Row \cup {None}]
  /\ \A n \in Names : table[n] # None => RowOK(table[n], n)

LEMMA TableBefore == IInv => TableOK(courses)
BY ReadRow DEF IInv, TypeOK, TableOK, Course

LEMMA Upsert ==
  ASSUME IInv, NEW n \in Names, NEW row, row = None \/ RowOK(row, n)
  PROVE  TableOK([courses EXCEPT ![n] = row])
<1>1. courses \in [Names -> Row \cup {None}]
  BY DEF IInv, TypeOK
<1>2. row \in Row \cup {None}
  BY DEF RowOK
<1>3. \A m \in Names : courses[m] # None => RowOK(courses[m], m)
  BY TableBefore DEF TableOK
<1> QED BY <1>1, <1>2, <1>3, Zenon DEF TableOK

\* Where a request goes next, with its locals kept or dropped, or with what it
\* has just taken.
LocalsStep(r, l) ==
  /\ pc' = [pc EXCEPT ![r] = l]
  /\ \/ l = "idle" /\ req' = [req EXCEPT ![r] = None] /\ stored' = [stored EXCEPT ![r] = None]
     \/ /\ \/ l = "save" /\ pc[r] = "check"
           \/ l = "delete" /\ pc[r] = "save" /\ req[r].op = "rename"
        /\ UNCHANGED <<req, stored>>
     \/ \E q \in Request, row \in Row \cup {None} :
          /\ l = "save" \/ (l = "check" /\ q.op = "rename")
          /\ q.op \in {"edit", "block", "rename"} => RowOK(row, q.name)
          /\ req' = [req EXCEPT ![r] = q] /\ stored' = [stored EXCEPT ![r] = row]

LocalsOK ==
  /\ pc \in [Requests -> {"idle", "check", "save", "delete"}]
  /\ req \in [Requests -> Request \cup {None}]
  /\ stored \in [Requests -> Row \cup {None}]
  /\ \A r \in Requests : LocalOK(r)

LEMMA LocalsBefore == IInv => LocalsOK
BY DEF IInv, TypeOK, LocalsMatch, LocalsOK, LocalOK

LEMMA LocalsAfter ==
  ASSUME IInv, NEW r \in Requests, NEW l \in {"idle", "check", "save", "delete"}, LocalsStep(r, l)
  PROVE  LocalsOK'
<1> USE LocalsBefore
<1>1. pc' \in [Requests -> {"idle", "check", "save", "delete"}]
  BY DEF LocalsStep, LocalsOK
<1>2. req' \in [Requests -> Request \cup {None}] /\ stored' \in [Requests -> Row \cup {None}]
  <2>1. CASE req' = [req EXCEPT ![r] = None] /\ stored' = [stored EXCEPT ![r] = None]
    BY <2>1, Zenon DEF LocalsOK
  <2>2. CASE UNCHANGED <<req, stored>>
    BY <2>2, Zenon DEF LocalsOK
  <2>3. ASSUME NEW q \in Request, NEW row \in Row \cup {None},
               req' = [req EXCEPT ![r] = q] /\ stored' = [stored EXCEPT ![r] = row]
        PROVE  req' \in [Requests -> Request \cup {None}] /\ stored' \in [Requests -> Row \cup {None}]
    BY <2>3, Zenon DEF LocalsOK
  <2> QED BY <2>1, <2>2, <2>3 DEF LocalsStep
<1>3. ASSUME NEW o \in Requests PROVE LocalOK(o)'
  <2>1. CASE o # r
    <3>1. pc'[o] = pc[o] /\ req'[o] = req[o] /\ stored'[o] = stored[o]
      BY <2>1, Zenon DEF LocalsStep, LocalsOK
    <3>2. LocalOK(o)
      BY DEF LocalsOK
    <3> QED BY <3>1, <3>2, Zenon DEF LocalOK
  <2>2. CASE o = r /\ l = "idle"
    <3>1. pc'[o] = "idle"
      BY <2>2 DEF LocalsStep, LocalsOK
    <3> QED BY <3>1 DEF LocalOK
  <2>3. CASE o = r /\ UNCHANGED <<req, stored>>
             /\ ((l = "save" /\ pc[r] = "check") \/ (l = "delete" /\ pc[r] = "save" /\ req[r].op = "rename"))
    <3>1. pc'[o] = l /\ req'[o] = req[o] /\ stored'[o] = stored[o]
      BY <2>3 DEF LocalsStep, LocalsOK
    <3>2. LocalOK(o)
      BY DEF LocalsOK
    <3> QED BY <2>3, <3>1, <3>2, Zenon DEF LocalOK
  <2>4. ASSUME o = r, NEW q \in Request, NEW row \in Row \cup {None},
               l = "save" \/ (l = "check" /\ q.op = "rename"),
               q.op \in {"edit", "block", "rename"} => RowOK(row, q.name),
               req' = [req EXCEPT ![r] = q] /\ stored' = [stored EXCEPT ![r] = row]
        PROVE  LocalOK(o)'
    <3>1. pc'[o] = l /\ req'[o] = q /\ stored'[o] = row
      BY <2>4, Zenon DEF LocalsStep, LocalsOK
    <3> QED BY <2>4, <3>1, Zenon DEF LocalOK, RowOK
  <2> QED BY <2>1, <2>2, <2>3, <2>4 DEF LocalsStep
<1> QED BY <1>1, <1>2, <1>3 DEF LocalsOK

\* What is left of the invariant once the table and the locals are dealt with.
LEMMA Join ==
  ASSUME TableOK(courses'), LocalsOK', born' \in Nat, live' \subseteq 1..born'
  PROVE  IInv'
<1>1. TypeOK'
  BY DEF TypeOK, TableOK, LocalsOK
<1>2. RawMatchesRow'
  BY DEF RawMatchesRow, TableOK, RowOK, Consistent, Course
<1>3. LocalsMatch'
  BY DEF LocalsMatch, LocalsOK, LocalOK
<1> QED BY <1>1, <1>2, <1>3 DEF IInv


LEMMA StepIInv ==
  ASSUME IInv, [Next]_vars
  PROVE  IInv'
<1> USE LocalsBefore, TableBefore
<1>0. born \in Nat /\ live \subseteq 1..born
  BY DEF IInv, TypeOK
<1>1. CASE UNCHANGED vars
  BY <1>1, <1>0, Join DEF vars, TableOK, LocalsOK, LocalOK
<1>2. CASE Crash
  <2>1. LocalsOK'
    BY <1>2 DEF Crash, LocalsOK, LocalOK
  <2>2. courses' = courses /\ born' = born /\ live' = live
    BY <1>2 DEF Crash
  <2> QED BY <1>0, <2>1, <2>2, Join
<1>3. ASSUME NEW r \in Requests, Statement(r)
      PROVE  IInv'
  <2>1. ASSUME NEW q \in Edit \cup Block, pc[r] = "idle", Course(q.name) # None,
               Take(r, q, Course(q.name)), Goto(r, "save"), UNCHANGED <<courses, born, live>>
        PROVE  IInv'
    <3>1. RowOK(Course(q.name), q.name) /\ Course(q.name) \in Row
      BY <2>1, ReadRow DEF RowOK
    <3>2. LocalsStep(r, "save")
      BY <2>1, <3>1 DEF LocalsStep, Take, Goto
    <3> QED BY <1>0, <2>1, <3>2, LocalsAfter, Join
  <2>2. CASE ReadForEdit(r)
    BY <2>1, <2>2 DEF ReadForEdit
  <2>3. CASE ReadForImport(r)
    BY <2>1, <2>3 DEF ReadForImport
  <2>4. CASE CreateCourse(r)
    <3>1. LocalsStep(r, "save")
      BY <2>4 DEF CreateCourse, LocalsStep, Take, Goto
    <3> QED BY <1>0, <2>4, <3>1, LocalsAfter, Join DEF CreateCourse
  <2>5. CASE ImportCourseYAML(r)
    <3>1. PICK q \in Import : Take(r, q, Course(q.name)) /\ Goto(r, "save")
      BY <2>5 DEF ImportCourseYAML
    <3>2. Course(q.name) \in Row \cup {None}
      BY <3>1 DEF TableOK, Course
    <3>3. LocalsStep(r, "save")
      BY <3>1, <3>2 DEF LocalsStep, Take, Goto
    <3> QED BY <1>0, <2>5, <3>3, LocalsAfter, Join DEF ImportCourseYAML
  <2>6. CASE RenameCourse(r)
    <3>1. PICK q \in Rename : Course(q.name) # None /\ Take(r, q, Course(q.name)) /\ Goto(r, "check")
      BY <2>6 DEF RenameCourse
    <3>2. RowOK(Course(q.name), q.name) /\ Course(q.name) \in Row
      BY <3>1, ReadRow DEF RowOK
    <3>3. LocalsStep(r, "check")
      BY <3>1, <3>2 DEF LocalsStep, Take, Goto
    <3> QED BY <1>0, <2>6, <3>3, LocalsAfter, Join DEF RenameCourse
  <2>7. CASE CheckNewName(r)
    <3>1. LocalsStep(r, "save") \/ LocalsStep(r, "idle")
      BY <2>7 DEF CheckNewName, LocalsStep, Goto, End
    <3> QED BY <1>0, <2>7, <3>1, LocalsAfter, Join DEF CheckNewName
  <2>8. CASE DeleteCourse(r)
    <3>1. TableOK(courses')
      <4>1. PICK n \in Names : courses' = [courses EXCEPT ![n] = None]
        BY <2>8 DEF DeleteCourse
      <4>2. TableOK([courses EXCEPT ![n] = None])
        BY Upsert
      <4> QED BY <4>1, <4>2
    <3>2. LocalsOK'
      BY <2>8 DEF DeleteCourse, LocalsOK, LocalOK
    <3>3. born' = born /\ live' \subseteq live
      BY <2>8 DEF DeleteCourse
    <3> QED BY <1>0, <3>1, <3>2, <3>3, Join
  <2>9. CASE Save(r)
    <3>1. ASSUME SaveCourse(r)
          PROVE  TableOK(courses') /\ born' \in Nat /\ live' \subseteq 1..born'
      <4>1. TableOK(courses')
        BY <2>9, <3>1, SavedRow, Upsert DEF Save, SaveCourse
      <4>2. CASE IsNew(r)
        <5>1. born' = born + 1 /\ live' \subseteq live \cup {born + 1}
          BY <3>1, <4>2 DEF SaveCourse
        <5> QED BY <1>0, <4>1, <5>1
      <4>3. CASE ~IsNew(r)
        <5>1. born' = born /\ live' \subseteq live
          BY <3>1, <4>3 DEF SaveCourse
        <5> QED BY <1>0, <4>1, <5>1
      <4> QED BY <4>2, <4>3
    <3>2. LocalsStep(r, "idle") \/ LocalsStep(r, "delete")
      BY <2>9 DEF Save, StopAfterError, End, Goto, LocalsStep
    <3>3. LocalsOK'
      BY <3>2, LocalsAfter
    <3>4. SaveCourse(r) \/ UNCHANGED <<courses, born, live>>
      BY <2>9 DEF Save
    <3>5. CASE SaveCourse(r)
      BY <3>1, <3>3, <3>5, Join
    <3>6. CASE UNCHANGED <<courses, born, live>>
      BY <1>0, <3>3, <3>6, Join
    <3> QED BY <3>4, <3>5, <3>6
  <2>10. CASE DeleteOld(r)
    <3>1. req[r].name \in Names
      BY <2>10 DEF DeleteOld, LocalsOK, LocalOK
    <3>2. TableOK(courses')
      BY <2>10, <3>1, Upsert DEF DeleteOld
    <3>3. LocalsStep(r, "idle")
      BY <2>10 DEF DeleteOld, End, Goto, LocalsStep
    <3> QED BY <1>0, <2>10, <3>2, <3>3, LocalsAfter, Join DEF DeleteOld
  <2> QED BY <1>3, <2>2, <2>3, <2>4, <2>5, <2>6, <2>7, <2>8, <2>9, <2>10 DEF Statement
<1> QED BY <1>1, <1>2, <1>3 DEF Next

\* The inductive invariant: the table is consistent, and so is every row that a
\* request has read and may still save, however old it is by then.
THEOREM Inductive == Spec => []IInv
<1>1. Init => IInv
  BY InitIInv
<1>2. IInv /\ [Next]_vars => IInv'
  BY StepIInv
<1> QED BY <1>1, <1>2, PTL DEF Spec

\* The rows of the table and the locals of the requests are well-typed.
THEOREM TypeCorrect == Spec => []TypeOK
<1>1. IInv => TypeOK
  BY DEF IInv
<1> QED BY <1>1, Inductive, PTL

\* The source the editors work on and the YAML that plans and downloads read are
\* one course, stored under its own name: decoded, the YAML is the source.  For
\* any interleaving of any number of requests, with crashes and faults, and for
\* any encoder whose texts decode to what was encoded; that a decoder drops what
\* an uploaded file says beyond its values does no harm.
THEOREM SourceAndYamlAgree == Spec => []RawMatchesRow
<1>1. IInv => RawMatchesRow
  BY DEF IInv
<1> QED BY <1>1, Inductive, PTL

----------------------------------------------------------------------------
(* A failure never loses a course: for an owner with one request at a time.   *)
(* Two of them can lose one, because neither notices that the course the other *)
(* saved is not the one it read.                                               *)

Held(table, i) == \E n \in Names : table[n] # None /\ table[n].id = i

\* What a lone request read is still so, and what it found free still is; between
\* the two halves of a rename both names hold the course.
Current(r) ==
  /\ pc[r] # "idle" /\ req[r].op \in {"edit", "block", "rename"} => Course(req[r].name) = stored[r]
  /\ pc[r] # "idle" /\ req[r].op = "rename" => req[r].new # req[r].name
  /\ pc[r] = "save" /\ req[r].op = "create" => Course(req[r].name) = None
  /\ pc[r] = "save" /\ req[r].op = "rename" => Course(req[r].new) = None
  /\ pc[r] = "delete" => Course(req[r].new) # None /\ Course(req[r].new).id = stored[r].id

Kept == NoCourseIsLost /\ \A r \in Requests : Current(r)

\* A course stays when the row that changes was not its last one, or is still its.
LEMMA StaysHeld ==
  ASSUME NEW table \in [Names -> Row \cup {None}], NEW n \in Names, NEW row \in Row \cup {None},
         NEW i, Held(table, i),
         table[n] # None /\ table[n].id = i =>
           \/ row # None /\ row.id = i
           \/ \E m \in Names \ {n} : table[m] # None /\ table[m].id = i
  PROVE  Held([table EXCEPT ![n] = row], i)
<1> DEFINE after == [table EXCEPT ![n] = row]
<1>1. after[n] = row /\ \A m \in Names \ {n} : after[m] = table[m]
  OBVIOUS
<1>2. PICK m \in Names : table[m] # None /\ table[m].id = i
  BY DEF Held
<1> HIDE DEF after
<1>3. Held(after, i)
  <2>1. CASE m # n
    BY <1>1, <1>2, <2>1 DEF Held
  <2>2. CASE m = n
    BY <1>1, <1>2, <2>2 DEF Held
  <2> QED BY <2>1, <2>2
<1> QED BY <1>3 DEF after

LEMMA NowHeld ==
  ASSUME NEW table \in [Names -> Row \cup {None}], NEW n \in Names, NEW row \in Row
  PROVE  Held([table EXCEPT ![n] = row], row.id)
<1>1. row # None
  OBVIOUS
<1>2. [table EXCEPT ![n] = row][n] = row
  OBVIOUS
<1> QED BY <1>1, <1>2 DEF Held

LEMMA KeptIsHeld == NoCourseIsLost <=> \A i \in live : Held(courses, i)
BY DEF NoCourseIsLost, Holders, Held

\* A save keeps every course it does not rightly replace.
LEMMA SaveKeeps ==
  ASSUME IInv, Kept, NEW r \in Requests, pc[r] = "save", SaveCourse(r)
  PROVE  NoCourseIsLost'
<1>1. courses \in [Names -> Row \cup {None}] /\ live \subseteq 1..born /\ born \in Nat
  BY DEF IInv, TypeOK
<1>2. Target(r) \in Names /\ RowToSave(r) \in Row
  BY SavedRow DEF RowOK
<1>3. courses' = [courses EXCEPT ![Target(r)] = RowToSave(r)]
  BY DEF SaveCourse
<1>4. req[r] \in Request /\ Current(r)
  BY DEF IInv, LocalsMatch, Kept
<1>5. ASSUME NEW i \in live, i \notin Replaced(r) PROVE Held(courses', i)
  <2>1. Held(courses, i)
    BY KeptIsHeld DEF Kept
  <2>2. CASE req[r].op \in {"edit", "block"}
    <3>1. /\ Target(r) = req[r].name /\ courses[req[r].name] = stored[r] /\ stored[r] \in Row
      BY <1>4, <2>2 DEF Target, Current, Course, IInv, LocalsMatch
    <3>2. RowToSave(r).id = stored[r].id
      BY <2>2, <3>1 DEF RowToSave, EditedRow, Row
    <3>3. RowToSave(r) # None
      BY <1>2
    <3>4. courses[Target(r)].id = i => RowToSave(r) # None /\ RowToSave(r).id = i
      BY <3>1, <3>2, <3>3
    <3>5. Held([courses EXCEPT ![Target(r)] = RowToSave(r)], i)
      <4> HIDE DEF Held
      <4> QED BY <1>1, <1>2, <2>1, <3>4, StaysHeld
    <3> QED BY <1>3, <3>5
  <2>3. CASE req[r].op \in {"create", "rename"}
    <3>1. courses[Target(r)] = None
      BY <1>4, <2>3 DEF Target, Current, Course
    <3> QED BY <1>1, <1>2, <1>3, <2>1, <3>1, StaysHeld
  <2>4. CASE req[r].op = "import"
    <3>1. Target(r) = req[r].name /\ req[r].name \in Names
      BY <1>4, <2>4 DEF Target
    <3>2. ASSUME courses[req[r].name] # None, courses[req[r].name].id = i
          PROVE  \E m \in Names \ {req[r].name} : courses[m] # None /\ courses[m].id = i
      <4>1. Holders(courses, i) # {req[r].name}
        BY <1>5, <2>4, <3>2 DEF Replaced, Course
      <4>2. req[r].name \in Holders(courses, i)
        BY <3>1, <3>2 DEF Holders
      <4>3. PICK m \in Holders(courses, i) : m # req[r].name
        BY <4>1, <4>2
      <4> QED BY <4>3 DEF Holders
    <3> QED BY <1>1, <1>2, <1>3, <2>1, <3>1, <3>2, StaysHeld
  <2> QED BY <1>4, <2>2, <2>3, <2>4
<1>6. CASE IsNew(r)
  <2>1. RowToSave(r).id = born + 1
    BY <1>6 DEF IsNew, RowToSave, CreatedRow, ImportedRow
  <2>2. Held(courses', born + 1)
    BY <1>1, <1>2, <1>3, <2>1, NowHeld
  <2>3. live' = (live \ Replaced(r)) \cup {born + 1}
    BY <1>6 DEF SaveCourse
  <2>4. \A i \in live' : Held(courses', i)
    BY <1>5, <2>2, <2>3
  <2> QED BY <2>4 DEF NoCourseIsLost, Holders, Held
<1>7. CASE ~IsNew(r)
  <2>1. live' = live \ Replaced(r)
    BY <1>7 DEF SaveCourse
  <2>2. \A i \in live' : Held(courses', i)
    BY <1>5, <2>1
  <2> QED BY <2>2 DEF NoCourseIsLost, Holders, Held
<1> QED BY <1>6, <1>7

\* A row that is removed was not the last of its course, or the course is given up.
LEMMA RemovalKeeps ==
  ASSUME IInv, Kept, NEW n \in Names, courses' = [courses EXCEPT ![n] = None], live' \subseteq live,
         \A i \in live' : Course(n) # None /\ Course(n).id = i =>
           \E m \in Names \ {n} : courses[m] # None /\ courses[m].id = i
  PROVE  NoCourseIsLost'
<1>1. courses \in [Names -> Row \cup {None}]
  BY DEF IInv, TypeOK
<1>2. ASSUME NEW i \in live' PROVE Held(courses', i)
  <2>1. Held(courses, i)
    BY KeptIsHeld DEF Kept
  <2>2. None \in Row \cup {None}
    OBVIOUS
  <2>3. courses[n] # None /\ courses[n].id = i => \E m \in Names \ {n} : courses[m] # None /\ courses[m].id = i
    BY DEF Course
  <2>4. Held([courses EXCEPT ![n] = None], i)
    BY <1>1, <2>1, <2>2, <2>3, StaysHeld
  <2> QED BY <2>4
<1> QED BY <1>2 DEF NoCourseIsLost, Holders, Held

LEMMA KeptStep ==
  ASSUME \A r, q \in Requests : r = q, IInv, Kept, [Next]_vars
  PROVE  Kept'
<1>1. IInv'
  BY StepIInv
<1>2. CASE UNCHANGED vars
  BY <1>2 DEF vars, Kept, NoCourseIsLost, Holders, Current, Course
<1>3. CASE Crash
  <2>1. NoCourseIsLost'
    BY <1>3 DEF Crash, Kept, NoCourseIsLost, Holders
  <2>2. \A r \in Requests : pc'[r] = "idle"
    BY <1>3 DEF Crash
  <2> QED BY <2>1, <2>2 DEF Kept, Current
<1>4. ASSUME NEW r \in Requests, Statement(r) PROVE Kept'
  <2> SUFFICES NoCourseIsLost' /\ Current(r)'
    BY DEF Kept
  <2>1. /\ pc \in [Requests -> {"idle", "check", "save", "delete"}]
        /\ req \in [Requests -> Request \cup {None}] /\ stored \in [Requests -> Row \cup {None}]
        /\ courses \in [Names -> Row \cup {None}] /\ Current(r) /\ NoCourseIsLost
    BY DEF IInv, TypeOK, Kept
  <2>2. ASSUME End(r) PROVE Current(r)'
    <3>1. pc'[r] = "idle"
      BY <2>1, <2>2 DEF End, Goto
    <3> QED BY <3>1 DEF Current
  <2>3. UNCHANGED <<courses, live>> => NoCourseIsLost'
    BY <2>1 DEF NoCourseIsLost, Holders
  <2>4. CASE ReadForEdit(r) \/ ReadForImport(r)
    <3>1. PICK q \in Edit \cup Block : Take(r, q, Course(q.name)) /\ Goto(r, "save")
      BY <2>4 DEF ReadForEdit, ReadForImport
    <3>2. UNCHANGED <<courses, live>>
      BY <2>4 DEF ReadForEdit, ReadForImport
    <3>3. pc'[r] = "save" /\ req'[r] = q /\ stored'[r] = Course(q.name)
      BY <2>1, <3>1 DEF Take, Goto
    <3> QED BY <2>3, <3>1, <3>2, <3>3 DEF Current, Course
  <2>5. CASE CreateCourse(r)
    <3>1. PICK q \in Create : Course(q.name) = None /\ Take(r, q, None) /\ Goto(r, "save")
      BY <2>5 DEF CreateCourse
    <3>2. UNCHANGED <<courses, live>>
      BY <2>5 DEF CreateCourse
    <3>3. pc'[r] = "save" /\ req'[r] = q
      BY <2>1, <3>1 DEF Take, Goto
    <3> QED BY <2>3, <3>1, <3>2, <3>3 DEF Current, Course
  <2>6. CASE ImportCourseYAML(r)
    <3>1. PICK q \in Import : Take(r, q, Course(q.name)) /\ Goto(r, "save")
      BY <2>6 DEF ImportCourseYAML
    <3>2. UNCHANGED <<courses, live>>
      BY <2>6 DEF ImportCourseYAML
    <3>3. pc'[r] = "save" /\ req'[r] = q
      BY <2>1, <3>1 DEF Take, Goto
    <3> QED BY <2>3, <3>1, <3>2, <3>3 DEF Current
  <2>7. CASE RenameCourse(r)
    <3>1. PICK q \in Rename : q.new # q.name /\ Take(r, q, Course(q.name)) /\ Goto(r, "check")
      BY <2>7 DEF RenameCourse
    <3>2. UNCHANGED <<courses, live>>
      BY <2>7 DEF RenameCourse
    <3>3. pc'[r] = "check" /\ req'[r] = q /\ stored'[r] = Course(q.name)
      BY <2>1, <3>1 DEF Take, Goto
    <3> QED BY <2>3, <3>1, <3>2, <3>3 DEF Current, Course
  <2>8. CASE CheckNewName(r)
    <3>1. UNCHANGED <<courses, live>> /\ pc[r] = "check" /\ req[r].op = "rename"
      BY <2>8 DEF CheckNewName, IInv, LocalsMatch
    <3>2. CASE End(r)
      BY <2>2, <2>3, <3>1, <3>2
    <3>3. CASE Course(req[r].new) = None /\ Goto(r, "save") /\ UNCHANGED <<req, stored>>
      <4>1. pc'[r] = "save"
        BY <2>1, <3>3 DEF Goto
      <4> QED BY <2>1, <2>3, <3>1, <3>3, <4>1 DEF Current, Course
    <3> QED BY <2>8, <3>2, <3>3 DEF CheckNewName
  <2>9. CASE DeleteCourse(r)
    <3>1. PICK n \in Names :
            /\ pc[r] = "idle" /\ Course(n) # None /\ courses' = [courses EXCEPT ![n] = None]
            /\ live' = IF Holders(courses, Course(n).id) = {n} THEN live \ {Course(n).id} ELSE live
      BY <2>9 DEF DeleteCourse
    <3>2. ASSUME NEW i \in live', Course(n).id = i
          PROVE  \E m \in Names \ {n} : courses[m] # None /\ courses[m].id = i
      <4>1. Holders(courses, i) # {n} /\ n \in Holders(courses, i)
        BY <3>1, <3>2 DEF Holders, Course
      <4>2. PICK m \in Holders(courses, i) : m # n
        BY <4>1
      <4> QED BY <4>2 DEF Holders
    <3>3. NoCourseIsLost'
      BY <3>1, <3>2, RemovalKeeps
    <3>4. pc'[r] = "idle"
      BY <2>9, <3>1 DEF DeleteCourse
    <3> QED BY <3>3, <3>4 DEF Current
  <2>10. CASE Save(r)
    <3>1. pc[r] = "save" /\ (SaveCourse(r) \/ UNCHANGED <<courses, live>>)
      BY <2>10 DEF Save
    <3>2. NoCourseIsLost'
      BY <2>3, <3>1, SaveKeeps
    <3>3. CASE End(r)
      BY <2>2, <3>2, <3>3
    <3>4. CASE SaveCourse(r) /\ req[r].op = "rename" /\ Goto(r, "delete") /\ UNCHANGED <<req, stored>>
      <4>1. pc'[r] = "delete" /\ req'[r] = req[r] /\ stored'[r] = stored[r]
        BY <2>1, <3>4 DEF Goto
      <4>2. /\ req[r] \in Rename /\ stored[r] \in Row /\ req[r].new # req[r].name
            /\ courses[req[r].name] = stored[r]
        BY <2>1, <3>1, <3>4 DEF IInv, LocalsMatch, Current, Course
      <4>3. courses' = [courses EXCEPT ![req[r].new] = RenamedRow(r)]
        BY <3>4 DEF SaveCourse, Target, RowToSave
      <4>4. RenamedRow(r) \in Row /\ RenamedRow(r).id = stored[r].id
        BY <4>2, RoundTrip DEF RenamedRow, Row
      <4>5. courses'[req[r].new] = RenamedRow(r) /\ courses'[req[r].name] = stored[r]
        BY <2>1, <4>2, <4>3
      <4>6. RenamedRow(r) # None
        BY <4>4
      <4> QED BY <3>2, <3>4, <4>1, <4>2, <4>4, <4>5, <4>6 DEF Current, Course
    <3> QED BY <2>10, <3>3, <3>4 DEF Save, StopAfterError
  <2>11. CASE DeleteOld(r)
    <3>1. pc[r] = "delete" /\ End(r) /\ live' = live
      BY <2>11 DEF DeleteOld
    <3>2. CASE UNCHANGED courses
      BY <2>2, <2>3, <3>1, <3>2
    <3>3. CASE courses' = [courses EXCEPT ![req[r].name] = None]
      <4>1. req[r] \in Rename /\ req[r].op = "rename"
        BY <3>1 DEF IInv, LocalsMatch
      <4>2. /\ req[r].name \in Names /\ req[r].new \in Names \ {req[r].name}
            /\ courses[req[r].name] = stored[r]
            /\ courses[req[r].new] # None /\ courses[req[r].new].id = stored[r].id
        BY <2>1, <3>1, <4>1 DEF Current, Course
      <4>3. \A i \in live' : Course(req[r].name) # None /\ Course(req[r].name).id = i =>
              \E m \in Names \ {req[r].name} : courses[m] # None /\ courses[m].id = i
        BY <4>2 DEF Course
      <4>4. NoCourseIsLost'
        BY <3>1, <3>3, <4>2, <4>3, RemovalKeeps
      <4> QED BY <2>2, <3>1, <4>4
    <3> QED BY <2>11, <3>2, <3>3 DEF DeleteOld
  <2> QED BY <1>4, <2>4, <2>5, <2>6, <2>7, <2>8, <2>9, <2>10, <2>11 DEF Statement
<1> QED BY <1>2, <1>3, <1>4 DEF Next

\* courses.go: "a failure never loses the course": an owner whose requests come
\* one at a time loses no course, whatever call fails, loses its answer or is cut
\* off by a crash, and however many names and courses there are.
THEOREM FailuresLoseNothing ==
  ASSUME \A r, q \in Requests : r = q
  PROVE  Spec => []NoCourseIsLost
<1>1. Init => Kept
  BY DEF Init, Kept, NoCourseIsLost, Current
<1>2. IInv /\ Kept /\ [Next]_vars => Kept'
  BY KeptStep
<1>3. Kept => NoCourseIsLost
  BY DEF Kept
<1> QED BY <1>1, <1>2, <1>3, Inductive, PTL DEF Spec

----------------------------------------------------------------------------
(* Rosters: names of repositories, parts of a course, groups *)

HIDE CourseStoreAssumption DEF Content, File, Edit, Block, Create, Import, Rename, Request

\* An address whose domain GitLab would change, and the path of its repository.
LEMMA PathOfAnAddress ==
  ASSUME NEW e \in Entries, e.mail
  PROVE  RepoNameForStudent(e, TRUE, TRUE) =
           IF PartsOf(e.name) \subseteq Safe THEN e.name ELSE [i \in 1..2 |-> Parameterize[e.name[i]]]
BY RosterAssumption DEF RepoNameForStudent, GitlabProjectPath, RepoSuffix

\* A name that is kept is not one that GitLab makes of another.
LEMMA KeptIsNotMade ==
  ASSUME NEW x \in Entries, NEW y \in Entries, x.mail, y.mail, Parameterize[x.name[2]] # x.name[2],
         PartsOf(x.name) \subseteq Safe, ~(PartsOf(y.name) \subseteq Safe)
  PROVE  RepoNameForStudent(x, TRUE, TRUE) # RepoNameForStudent(y, TRUE, TRUE)
<1>1. SUFFICES ASSUME x.name = [i \in 1..2 |-> Parameterize[y.name[i]]] PROVE FALSE
  BY PathOfAnAddress
<1>2. x.name[2] = Parameterize[y.name[2]]
  BY <1>1
<1>3. Parameterize[Parameterize[y.name[2]]] = Parameterize[y.name[2]]
  BY RosterAssumption
<1> QED BY <1>2, <1>3

\* Two addresses with a dot in their domains share a repository only if both have
\* a character that a path cannot have (config/slug.go).
THEOREM NamesAreApart == NamesDiffer
<1> SUFFICES ASSUME NEW x \in Entries, NEW y \in Entries, x.mail, y.mail, x # y,
                    Parameterize[x.name[2]] # x.name[2], Parameterize[y.name[2]] # y.name[2],
                    RepoNameForStudent(x, TRUE, TRUE) = RepoNameForStudent(y, TRUE, TRUE)
             PROVE  ~(PartsOf(x.name) \subseteq Safe) /\ ~(PartsOf(y.name) \subseteq Safe)
  BY DEF NamesDiffer
<1>1. CASE PartsOf(x.name) \subseteq Safe /\ PartsOf(y.name) \subseteq Safe
  <2>1. x.name = y.name
    BY <1>1, PathOfAnAddress
  <2> QED BY <2>1, RosterAssumption
<1> QED BY <1>1, KeptIsNotMade

----------------------------------------------------------------------------

\* How many of one or two patterns select an entry.
LEMMA SelectingOne ==
  ASSUME NEW p \in Patterns, NEW e \in Entries
  PROVE  Cardinality(Selecting(<<p>>, e)) = IF e \in Matches[p] THEN 1 ELSE 0
<1>1. Selecting(<<p>>, e) = IF e \in Matches[p] THEN {1} ELSE {}
  BY DEF Selecting
<1> QED BY <1>1, FS_EmptySet, FS_Singleton

LEMMA SelectingTwo ==
  ASSUME NEW p \in Patterns, NEW q \in Patterns, NEW e \in Entries,
         Matches[p] \cap Matches[q] = {}, Matches[p] \cup Matches[q] = Entries
  PROVE  Cardinality(Selecting(<<p, q>>, e)) = 1
<1>1. Selecting(<<p, q>>, e) = {k \in 1..2 : e \in Matches[<<p, q>>[k]]}
  BY DEF Selecting
<1>2. Selecting(<<p, q>>, e) = IF e \in Matches[p] THEN {1} ELSE {2}
  BY <1>1
<1> QED BY <1>2, FS_Singleton

LEMMA StudentsAddUp ==
  ASSUME NEW common \in Rosters, NEW own \in Rosters, NEW p \in Patterns, NEW q \in Patterns,
         Matches[p] \cap Matches[q] = {}, Matches[p] \cup Matches[q] = Entries
  PROVE  /\ \A e \in Entries : ResolveStudents(common, own, <<p>>)[e] + ResolveStudents(common, own, <<q>>)[e]
                               = ResolveStudents(common, own, <<>>)[e]
         /\ ResolveStudents(common, own, <<p, q>>) = ResolveStudents(common, own, <<>>)
<1> DEFINE value == [e \in Entries |-> own.students[e] + common.students[e]]
<1>1. \A e \in Entries : value[e] \in Nat
  BY RosterAssumption
<1>2. /\ <<p>> # <<>> /\ <<q>> # <<>> /\ <<p, q>> # <<>>
  OBVIOUS
<1>3. ResolveStudents(common, own, <<>>) = value
  BY DEF ResolveStudents, FilterByPatterns
<1>4. ASSUME NEW e \in Entries
      PROVE  /\ ResolveStudents(common, own, <<p>>)[e] = IF e \in Matches[p] THEN value[e] ELSE 0
             /\ ResolveStudents(common, own, <<q>>)[e] = IF e \in Matches[q] THEN value[e] ELSE 0
             /\ value[e] * Cardinality(Selecting(<<p, q>>, e)) = value[e]
  <2>1. /\ ResolveStudents(common, own, <<p>>)[e] = value[e] * Cardinality(Selecting(<<p>>, e))
        /\ ResolveStudents(common, own, <<q>>)[e] = value[e] * Cardinality(Selecting(<<q>>, e))
    BY <1>2 DEF ResolveStudents, FilterByPatterns
  <2>2. value[e] * 1 = value[e] /\ value[e] * 0 = 0
    BY <1>1
  <2> HIDE DEF value
  <2>3. value[e] * Cardinality(Selecting(<<p>>, e)) = IF e \in Matches[p] THEN value[e] ELSE 0
    BY <2>2, SelectingOne
  <2>4. value[e] * Cardinality(Selecting(<<q>>, e)) = IF e \in Matches[q] THEN value[e] ELSE 0
    BY <2>2, SelectingOne
  <2>5. value[e] * Cardinality(Selecting(<<p, q>>, e)) = value[e]
    BY <2>2, SelectingTwo
  <2> QED BY <2>1, <2>3, <2>4, <2>5
<1>5. ResolveStudents(common, own, <<p, q>>) = [e \in Entries |-> value[e] * Cardinality(Selecting(<<p, q>>, e))]
  BY <1>2 DEF ResolveStudents, FilterByPatterns
<1> HIDE DEF value
<1>6. ResolveStudents(common, own, <<p, q>>) = [e \in Entries |-> value[e]]
  BY <1>4, <1>5
<1>7. [e \in Entries |-> value[e]] = value
  BY DEF value
<1>8. ASSUME NEW e \in Entries
      PROVE  ResolveStudents(common, own, <<p>>)[e] + ResolveStudents(common, own, <<q>>)[e] = value[e]
  <2>1. value[e] \in Nat
    BY <1>1
  <2>2. value[e] + 0 = value[e] /\ 0 + value[e] = value[e]
    BY <2>1
  <2>3. CASE e \in Matches[p]
    <3>1. e \notin Matches[q]
      BY <2>3
    <3> QED BY <1>4, <2>2, <2>3, <3>1
  <2>4. CASE e \notin Matches[p]
    <3>1. e \in Matches[q]
      BY <2>4
    <3> QED BY <1>4, <2>2, <2>4, <3>1
  <2> QED BY <2>3, <2>4
<1> QED BY <1>3, <1>6, <1>7, <1>8

----------------------------------------------------------------------------

\* The names of the groups that are resolved.
TakenNames(common, own, patterns) ==
  {f \in {LowerCase[g] : g \in DOMAIN common.groups \cup DOMAIN own.groups} :
     patterns = <<>> \/ \E i \in DOMAIN patterns : f \in MatchesGroup[patterns[i]]}

\* A group map that may result gives each of these names some members it may get.
LEMMA ResolvedGroups ==
  ASSUME NEW common, NEW own, NEW patterns, NEW m
  PROVE  m \in ResolveGroups(common, own, patterns) <=>
           /\ m = [f \in TakenNames(common, own, patterns) |-> m[f]]
           /\ \A f \in TakenNames(common, own, patterns) : m[f] \in Members(common, own, f)
<1> DEFINE taken == TakenNames(common, own, patterns)
           all == UNION {Members(common, own, f) : f \in taken}
<1>1. ResolveGroups(common, own, patterns) =
        {n \in [taken -> all] : \A f \in taken : n[f] \in Members(common, own, f)}
  BY Zenon DEF ResolveGroups, TakenNames
<1>2. ASSUME NEW f \in taken, NEW z \in Members(common, own, f) PROVE z \in all
  OBVIOUS
<1> HIDE DEF taken
<1>3. ASSUME m = [f \in taken |-> m[f]], \A f \in taken : m[f] \in all PROVE m \in [taken -> all]
  BY <1>3
<1>4. ASSUME m \in [taken -> all] PROVE m = [f \in taken |-> m[f]]
  BY <1>4
<1> HIDE DEF all
<1> QED BY <1>1, <1>2, <1>3, <1>4 DEF taken

LEMMA GroupsAddUp ==
  ASSUME NEW common \in Rosters, NEW own \in Rosters, NEW p \in Patterns, NEW q \in Patterns,
         MatchesGroup[p] \cap MatchesGroup[q] = {}, MatchesGroup[p] \cup MatchesGroup[q] = GroupNames,
         NEW m \in ResolveGroups(common, own, <<>>)
  PROVE  /\ [f \in DOMAIN m \cap MatchesGroup[p] |-> m[f]] \in ResolveGroups(common, own, <<p>>)
         /\ m \in ResolveGroups(common, own, <<p, q>>)
<1> DEFINE names == TakenNames(common, own, <<>>)
           part == [f \in DOMAIN m \cap MatchesGroup[p] |-> m[f]]
<1>1. /\ m = [f \in names |-> m[f]]
      /\ \A f \in names : m[f] \in Members(common, own, f)
  BY ResolvedGroups
<1>2. names \subseteq GroupNames
  BY RosterAssumption DEF TakenNames
<1>3. TakenNames(common, own, <<p>>) = names \cap MatchesGroup[p]
  BY DEF TakenNames
<1>4. TakenNames(common, own, <<p, q>>) = names
  <2>1. ASSUME NEW f \in names PROVE \E i \in DOMAIN <<p, q>> : f \in MatchesGroup[<<p, q>>[i]]
    <3>1. CASE f \in MatchesGroup[p]
      BY <3>1
    <3>2. CASE f \in MatchesGroup[q]
      BY <3>2
    <3> QED BY <1>2, <3>1, <3>2
  <2> QED BY <2>1 DEF TakenNames
<1>5. /\ part = [f \in names \cap MatchesGroup[p] |-> part[f]]
      /\ \A f \in names \cap MatchesGroup[p] : part[f] \in Members(common, own, f)
  BY <1>1
<1> QED BY <1>1, <1>3, <1>4, <1>5, ResolvedGroups

\* Work that is split by pattern into disjoint parts reaches each repository as
\* often as the work for all of them (config/resolve.go).
THEOREM SplitWorkAddsUp == PartsAddUp
<1> SUFFICES ASSUME NEW common \in Rosters, NEW own \in Rosters, NEW p \in Patterns, NEW q \in Patterns,
                    Matches[p] \cap Matches[q] = {}, Matches[p] \cup Matches[q] = Entries,
                    MatchesGroup[p] \cap MatchesGroup[q] = {}, MatchesGroup[p] \cup MatchesGroup[q] = GroupNames
             PROVE  /\ \A e \in Entries : ResolveStudents(common, own, <<p>>)[e]
                                             + ResolveStudents(common, own, <<q>>)[e]
                                           = ResolveStudents(common, own, <<>>)[e]
                    /\ ResolveStudents(common, own, <<p, q>>) = ResolveStudents(common, own, <<>>)
                    /\ \A m \in ResolveGroups(common, own, <<>>) :
                         /\ \E n \in ResolveGroups(common, own, <<p>>) :
                              n = [f \in DOMAIN m \cap MatchesGroup[p] |-> m[f]]
                         /\ m \in ResolveGroups(common, own, <<p, q>>)
  BY Zenon DEF PartsAddUp
<1>1. \A m \in ResolveGroups(common, own, <<>>) :
         /\ [f \in DOMAIN m \cap MatchesGroup[p] |-> m[f]] \in ResolveGroups(common, own, <<p>>)
         /\ m \in ResolveGroups(common, own, <<p, q>>)
  BY GroupsAddUp
<1> QED BY <1>1, StudentsAddUp, Zenon

----------------------------------------------------------------------------

\* Who is in a group has a place in it, and the other way round.
LEMMA WhoHasAPlace ==
  ASSUME NEW groups, NEW e
  PROVE  /\ \A f \in DOMAIN groups : e \in PartsOf(groups[f]) => \E i : <<f, i>> \in Places(groups, e)
         /\ \A w \in Places(groups, e) : w[1] \in DOMAIN groups /\ e \in PartsOf(groups[w[1]])
<1>1. ASSUME NEW f \in DOMAIN groups, e \in PartsOf(groups[f]) PROVE \E i : <<f, i>> \in Places(groups, e)
  <2>1. PICK i \in DOMAIN groups[f] : groups[f][i] = e
    BY <1>1 DEF PartsOf
  <2>2. <<f, i>> \in {<<f, k>> : k \in {j \in DOMAIN groups[f] : groups[f][j] = e}}
    BY <2>1
  <2> QED BY <2>2 DEF Places
<1>2. ASSUME NEW w \in Places(groups, e) PROVE w[1] \in DOMAIN groups /\ e \in PartsOf(groups[w[1]])
  <2>1. PICK f \in DOMAIN groups : w \in {<<f, i>> : i \in {j \in DOMAIN groups[f] : groups[f][j] = e}}
    BY <1>2 DEF Places
  <2>2. PICK i \in DOMAIN groups[f] : w = <<f, i>> /\ groups[f][i] = e
    BY <2>1
  <2>3. w[1] = f
    BY <2>2
  <2> QED BY <2>2, <2>3 DEF PartsOf
<1> QED BY <1>1, <1>2

\* The values of a function on a finite set.
LEMMA ImageIsFinite ==
  ASSUME NEW S, IsFiniteSet(S), NEW fun, fun = [x \in S |-> fun[x]]
  PROVE  IsFiniteSet({fun[x] : x \in S})
<1>1. fun \in Surjection(S, {fun[x] : x \in S})
  BY DEF Surjection
<1> QED BY <1>1, FS_Surjection

\* There are only so many places.
LEMMA PlacesAreFinite ==
  ASSUME NEW groups, IsFiniteSet(DOMAIN groups), NEW e, \A f \in DOMAIN groups : groups[f] \in Seq(Entries)
  PROVE  IsFiniteSet(Places(groups, e))
<1> DEFINE at == [f \in DOMAIN groups |-> {<<f, i>> : i \in {j \in DOMAIN groups[f] : groups[f][j] = e}}]
<1>1. IsFiniteSet({at[f] : f \in DOMAIN groups})
  <2>1. at = [f \in DOMAIN groups |-> at[f]]
    OBVIOUS
  <2> HIDE DEF at
  <2> QED BY <2>1, ImageIsFinite
<1>2. ASSUME NEW f \in DOMAIN groups PROVE IsFiniteSet(at[f])
  <2> DEFINE where == {j \in DOMAIN groups[f] : groups[f][j] = e}
             place == [i \in where |-> <<f, i>>]
  <2>1. DOMAIN groups[f] = 1..Len(groups[f]) /\ Len(groups[f]) \in Nat
    OBVIOUS
  <2>2. IsFiniteSet(1..Len(groups[f]))
    BY <2>1, FS_Interval
  <2>3. where \subseteq 1..Len(groups[f])
    BY <2>1
  <2>4. IsFiniteSet(where)
    BY <2>2, <2>3, FS_Subset
  <2>5. IsFiniteSet({place[i] : i \in where})
    <3>1. place = [i \in where |-> place[i]]
      OBVIOUS
    <3> HIDE DEF place, where
    <3> QED BY <2>4, <3>1, ImageIsFinite
  <2>6. at[f] = {place[i] : i \in where}
    OBVIOUS
  <2> QED BY <2>5, <2>6
<1>3. Places(groups, e) = UNION {at[f] : f \in DOMAIN groups}
  BY DEF Places
<1> HIDE DEF at
<1> QED BY <1>1, <1>2, <1>3, FS_UNION

\* In a course without dups nobody is in two groups.
LEMMA NobodyInTwo ==
  ASSUME NEW groups, IsFiniteSet(DOMAIN groups), \A f \in DOMAIN groups : groups[f] \in Seq(Entries),
         CheckDupsInGroups(groups) = {}, NEW e \in Entries, NEW f \in DOMAIN groups, NEW g \in DOMAIN groups,
         e \in PartsOf(groups[f]), e \in PartsOf(groups[g])
  PROVE  f = g
<1> SUFFICES ASSUME f # g PROVE FALSE
  OBVIOUS
<1>1. PICK i, j : <<f, i>> \in Places(groups, e) /\ <<g, j>> \in Places(groups, e)
  BY WhoHasAPlace
<1> DEFINE a == <<f, i>>
           b == <<g, j>>
<1>2. a # b
  OBVIOUS
<1>3. {a, b} \subseteq Places(groups, e)
  BY <1>1
<1> HIDE DEF a, b
<1>4. IsFiniteSet(Places(groups, e))
  BY PlacesAreFinite
<1>5. Cardinality({a}) = 1 /\ IsFiniteSet({a})
  BY FS_Singleton
<1>6. Cardinality({a, b}) = 2
  <2>1. b \notin {a}
    BY <1>2
  <2>2. Cardinality({a} \cup {b}) = Cardinality({a}) + 1
    BY <1>5, <2>1, FS_AddElement
  <2>3. {a, b} = {a} \cup {b}
    OBVIOUS
  <2>4. Cardinality({a, b}) = Cardinality({a}) + 1
    BY <2>2, <2>3
  <2> QED BY <1>5, <2>4
<1>7. Cardinality({a, b}) <= Cardinality(Places(groups, e)) /\ Cardinality(Places(groups, e)) \in Nat
  BY <1>3, <1>4, FS_Subset, FS_CardinalityType
<1>8. Cardinality(Places(groups, e)) > 1
  BY <1>6, <1>7
<1> QED BY <1>8 DEF CheckDupsInGroups

\* The groups of a course that the check sees.
LEMMA SeenGroups ==
  ASSUME NEW common \in Rosters, NEW seen \in ResolveCourse(common)
  PROVE  /\ DOMAIN seen = {LowerCase[g] : g \in DOMAIN common.groups}
         /\ IsFiniteSet(DOMAIN seen)
         /\ \A f \in DOMAIN seen : \E g \in Alike(common.groups, f) : seen[f] = common.groups[g]
         /\ \A f \in DOMAIN seen : seen[f] \in Seq(Entries)
<1> DEFINE names == TakenNames(common, NoRoster, <<>>)
<1>1. /\ seen = [f \in names |-> seen[f]]
      /\ \A f \in names : seen[f] \in Members(common, NoRoster, f)
  BY ResolvedGroups DEF ResolveCourse
<1>2. DOMAIN NoRoster.groups = {}
  BY DEF NoRoster
<1>3. names = {LowerCase[g] : g \in DOMAIN common.groups}
  BY <1>2 DEF TakenNames
<1>4. names \subseteq GroupNames
  BY <1>3, RosterAssumption
<1>5. IsFiniteSet(names)
  BY <1>4, RosterAssumption, FS_Subset
<1>6. \A f : Alike(NoRoster.groups, f) = {}
  BY <1>2 DEF Alike
<1>7. \A f : Members(common, NoRoster, f) = {common.groups[g] : g \in Alike(common.groups, f)}
  BY <1>6 DEF Members
<1>8. \A g \in DOMAIN common.groups : common.groups[g] \in Seq(Entries)
  BY RosterAssumption
<1>9. DOMAIN seen = names
  BY <1>1
<1>10. \A f \in names : \E g \in Alike(common.groups, f) : seen[f] = common.groups[g]
  BY <1>1, <1>7
<1> HIDE DEF names
<1>11. \A f \in DOMAIN seen : seen[f] \in Seq(Entries)
  BY <1>8, <1>9, <1>10 DEF Alike
<1> QED BY <1>3, <1>5, <1>9, <1>10, <1>11

\* Unless names are equal but for case, the groups of an assignment are parts of
\* the groups the check has seen.
LEMMA GroupsAreParts ==
  ASSUME NEW common \in Rosters, NEW own \in Rosters, NEW seen \in ResolveCourse(common),
         \A g, h \in DOMAIN common.groups : LowerCase[g] = LowerCase[h] => g = h,
         \A g \in DOMAIN own.groups :
           LowerCase[g] \in DOMAIN seen /\ PartsOf(own.groups[g]) \subseteq PartsOf(seen[LowerCase[g]]),
         NEW m \in ResolveGroups(common, own, <<>>), NEW f \in DOMAIN m
  PROVE  f \in DOMAIN seen /\ PartsOf(m[f]) \subseteq PartsOf(seen[f])
<1>1. /\ m = [n \in TakenNames(common, own, <<>>) |-> m[n]]
      /\ \A n \in TakenNames(common, own, <<>>) : m[n] \in Members(common, own, n)
  BY ResolvedGroups
<1>2. m[f] \in Members(common, own, f) /\ f \in TakenNames(common, own, <<>>)
  BY <1>1
<1>3. CASE Alike(own.groups, f) # {}
  <2>1. PICK g \in Alike(own.groups, f) : m[f] = own.groups[g]
    BY <1>2, <1>3 DEF Members
  <2> QED BY <2>1 DEF Alike
<1>4. CASE Alike(own.groups, f) = {}
  <2>1. PICK g \in Alike(common.groups, f) : m[f] = common.groups[g]
    BY <1>2, <1>4 DEF Members
  <2>2. f \in DOMAIN seen
    <3>1. g \in DOMAIN common.groups /\ LowerCase[g] = f
      BY <2>1 DEF Alike
    <3>2. DOMAIN seen = {LowerCase[x] : x \in DOMAIN common.groups}
      BY SeenGroups
    <3> QED BY <3>1, <3>2
  <2>3. PICK h \in Alike(common.groups, f) : seen[f] = common.groups[h]
    BY <2>2, SeenGroups
  <2>4. g = h
    BY <2>1, <2>3 DEF Alike
  <2> QED BY <2>1, <2>2, <2>3, <2>4
<1> QED BY <1>3, <1>4

\* In a course that checks out every student has one repository per group
\* assignment, and nobody without an account has one (gitlab/check.go).
THEOREM OneGroupEach == GroupsStayApart
<1> SUFFICES ASSUME NEW common \in Rosters, NEW own \in Rosters, NEW seen \in ResolveCourse(common),
                    CheckCourseData(common, seen),
                    \A g, h \in DOMAIN common.groups : LowerCase[g] = LowerCase[h] => g = h,
                    \A g \in DOMAIN own.groups :
                      LowerCase[g] \in DOMAIN seen /\ PartsOf(own.groups[g]) \subseteq PartsOf(seen[LowerCase[g]]),
                    NEW m \in ResolveGroups(common, own, <<>>), NEW e \in Entries
             PROVE  /\ Cardinality({f \in DOMAIN m : e \in PartsOf(m[f])}) <= 1
                    /\ CheckError(e) => Places(m, e) = {}
  BY Zenon DEF GroupsStayApart
<1>1. \A f \in DOMAIN m : f \in DOMAIN seen /\ PartsOf(m[f]) \subseteq PartsOf(seen[f])
  BY GroupsAreParts
<1>2. \A f, g \in DOMAIN m : e \in PartsOf(m[f]) /\ e \in PartsOf(m[g]) => f = g
  BY <1>1, NobodyInTwo, SeenGroups DEF CheckCourseData
<1>3. Cardinality({f \in DOMAIN m : e \in PartsOf(m[f])}) <= 1
  <2> DEFINE in == {f \in DOMAIN m : e \in PartsOf(m[f])}
  <2>1. CASE in = {}
    BY <2>1, FS_EmptySet
  <2>2. CASE in # {}
    <3>1. PICK f : in = {f}
      BY <1>2, <2>2
    <3> HIDE DEF in
    <3>2. Cardinality(in) = 1
      BY <3>1, FS_Singleton
    <3> QED BY <3>2 DEF in
  <2> QED BY <2>1, <2>2
<1>4. ASSUME CheckError(e), NEW w \in Places(m, e) PROVE FALSE
  <2>1. w[1] \in DOMAIN m /\ e \in PartsOf(m[w[1]])
    BY <1>4, WhoHasAPlace
  <2>2. w[1] \in DOMAIN seen /\ e \in PartsOf(seen[w[1]])
    BY <1>1, <2>1
  <2>3. Places(seen, e) # {}
    BY <2>2, WhoHasAPlace
  <2> QED BY <1>4, <2>3 DEF CheckCourseData
<1> QED BY <1>3, <1>4

\* Every repository has one name, and every student one repository, however the
\* work is split into parts (config/resolve.go, assignment.go, gitlab/check.go).
THEOREM EachHasItsRepository == NamesDiffer /\ PartsAddUp /\ GroupsStayApart
BY NamesAreApart, SplitWorkAddsUp, OneGroupEach

\* A nonempty set of numbers has a least one.
LEMMA Least ==
  ASSUME NEW S \in SUBSET Nat, S # {}
  PROVE  \E m \in S : \A n \in S : m <= n
<1>1. PICK m \in S : \A n \in S : ~(<<n, m>> \in OpToRel(<, Nat))
  BY WFMin, NatLessThanWellFounded, Zenon
<1>2. \A n \in S : ~(n < m)
  BY <1>1 DEF OpToRel
<1> QED BY <1>2

\* A set that has 0, and with each number the next, has them all.
LEMMA Counting ==
  ASSUME NEW S, 0 \in S, \A n \in Nat : n \in S => n + 1 \in S
  PROVE  Nat \subseteq S
<1> SUFFICES ASSUME Nat \ S # {} PROVE FALSE
  OBVIOUS
<1>1. PICK m \in Nat \ S : \A n \in Nat \ S : m <= n
  BY Least
<1>2. m - 1 \in Nat /\ m - 1 \notin Nat \ S
  BY <1>1
<1> QED BY <1>1, <1>2

----------------------------------------------------------------------------
(* The assignments of a course: what a resolution has seen *)

\* How many names are left when those of seen have been looked up.
LeftOf(seen) == Cardinality(Keys \ seen)

LEMMA LeftToSee ==
  ASSUME NEW seen \in SUBSET Keys
  PROVE  /\ LeftOf(seen) \in Nat
         /\ \A f \in Keys \ seen : seen \cup {f} \in SUBSET Keys /\ LeftOf(seen \cup {f}) = LeftOf(seen) - 1
         /\ LeftOf(seen) = 0 => seen = Keys
<1>1. IsFiniteSet(Keys \ seen)
  BY AssignmentsAssumption, FS_Subset
<1>2. Cardinality(Keys \ seen) \in Nat
  BY <1>1, FS_CardinalityType
<1>3. ASSUME NEW f \in Keys \ seen
      PROVE  seen \cup {f} \in SUBSET Keys /\ LeftOf(seen \cup {f}) = LeftOf(seen) - 1
  <2>1. Keys \ (seen \cup {f}) = (Keys \ seen) \ {f}
    OBVIOUS
  <2>2. Cardinality((Keys \ seen) \ {f}) = Cardinality(Keys \ seen) - 1
    BY <1>1, FS_RemoveElement
  <2> QED BY <2>1, <2>2 DEF LeftOf
<1>4. Cardinality(Keys \ seen) = 0 => Keys \ seen = {}
  BY <1>1, FS_EmptySet
<1> QED BY <1>2, <1>3, <1>4 DEF LeftOf

\* What holds of a set of names if it holds of each that is larger by one, holds of all.
LEMMA MoreSeen ==
  ASSUME NEW Q, \A seen \in SUBSET Keys : (\A f \in Keys \ seen : seen \cup {f} \in Q) => seen \in Q
  PROVE  SUBSET Keys \subseteq Q
<1> DEFINE S == {n \in Nat : \A seen \in SUBSET Keys : LeftOf(seen) = n => seen \in Q}
<1>1. 0 \in S
  <2> SUFFICES ASSUME NEW seen \in SUBSET Keys, LeftOf(seen) = 0 PROVE seen \in Q
    OBVIOUS
  <2>1. Keys \ seen = {}
    BY LeftToSee
  <2> QED BY <2>1
<1>2. ASSUME NEW n \in Nat, n \in S PROVE n + 1 \in S
  <2> SUFFICES ASSUME NEW seen \in SUBSET Keys, LeftOf(seen) = n + 1 PROVE seen \in Q
    OBVIOUS
  <2>1. ASSUME NEW f \in Keys \ seen PROVE seen \cup {f} \in Q
    <3>1. seen \cup {f} \in SUBSET Keys /\ LeftOf(seen \cup {f}) = n
      BY LeftToSee
    <3> QED BY <1>2, <3>1
  <2> QED BY <2>1
<1> HIDE DEF S
<1>3. Nat \subseteq S
  BY <1>1, <1>2, Counting
<1> QED BY <1>3, LeftToSee DEF S

\* The results of every name when the names in seen have been looked up.
Outcome(c, f, results) == UNION {Inherit(c, k, results) : k \in LookupAssignment(c, f)}
After(c, merge, seen) == [f \in Keys |-> IF f \in seen THEN {Error} ELSE Outcome(c, f, merge[seen \cup {f}])]
Merges(c, merge) == merge = [seen \in SUBSET Keys |-> After(c, merge, seen)]

LEMMA MergeExists ==
  ASSUME NEW c
  PROVE  \E merge : Merges(c, merge)
<1> DEFINE Some(n) == {seen \in SUBSET Keys : LeftOf(seen) <= n}
           S == {n \in Nat : \E m : m = [seen \in Some(n) |-> After(c, m, seen)]}
<1>1. 0 \in S
  <2> DEFINE m == [seen \in Some(0) |-> [f \in Keys |-> {Error}]]
  <2>1. ASSUME NEW seen \in Some(0) PROVE After(c, m, seen) = [f \in Keys |-> {Error}]
    <3>1. seen = Keys
      BY LeftToSee
    <3> QED BY <3>1 DEF After
  <2>2. m = [seen \in Some(0) |-> After(c, m, seen)]
    <3> DEFINE a(seen) == After(c, m, seen)
    <3>1. \A seen \in Some(0) : m[seen] = a(seen)
      BY <2>1
    <3> HIDE DEF a
    <3>2. m = [seen \in Some(0) |-> a(seen)]
      BY <3>1
    <3> QED BY <3>2 DEF a
  <2> QED BY <2>2
<1>2. ASSUME NEW n \in Nat, n \in S PROVE n + 1 \in S
  <2>1. PICK m : m = [seen \in Some(n) |-> After(c, m, seen)]
    BY <1>2
  <2> DEFINE next == [seen \in Some(n + 1) |-> IF seen \in Some(n) THEN m[seen] ELSE After(c, m, seen)]
  <2>2. ASSUME NEW seen \in Some(n + 1) PROVE next[seen] = After(c, next, seen)
    <3>1. ASSUME NEW f \in Keys \ seen PROVE next[seen \cup {f}] = m[seen \cup {f}]
      <4>1. seen \cup {f} \in Some(n) /\ seen \cup {f} \in Some(n + 1)
        BY LeftToSee
      <4> QED BY <4>1
    <3>2. After(c, next, seen) = After(c, m, seen)
      <4> HIDE DEF next
      <4>1. \A f \in Keys : (IF f \in seen THEN {Error} ELSE Outcome(c, f, next[seen \cup {f}])) =
                            (IF f \in seen THEN {Error} ELSE Outcome(c, f, m[seen \cup {f}]))
        BY <3>1
      <4> QED BY <4>1 DEF After
    <3>3. seen \in Some(n) => m[seen] = After(c, m, seen)
      BY <2>1
    <3>4. next[seen] = After(c, m, seen)
      BY <3>3
    <3> QED BY <3>2, <3>4
  <2>3. next = [seen \in Some(n + 1) |-> After(c, next, seen)]
    <3> DEFINE a(seen) == After(c, next, seen)
    <3>1. \A seen \in Some(n + 1) : next[seen] = a(seen)
      BY <2>2
    <3> HIDE DEF a
    <3>2. next = [seen \in Some(n + 1) |-> a(seen)]
      BY <3>1
    <3> QED BY <3>2 DEF a
  <2> HIDE DEF next
  <2>4. \E x : x = [seen \in Some(n + 1) |-> After(c, x, seen)]
    BY <2>3, Zenon
  <2> QED BY <2>4
<1> HIDE DEF S
<1>3. Nat \subseteq S
  BY <1>1, <1>2, Counting
<1>4. LeftOf({}) \in Nat
  BY LeftToSee
<1> DEFINE all == LeftOf({})
<1>5. PICK m : m = [seen \in Some(all) |-> After(c, m, seen)]
  BY <1>3, <1>4 DEF S
<1>6. Some(all) = SUBSET Keys
  <2> SUFFICES ASSUME NEW seen \in SUBSET Keys PROVE LeftOf(seen) <= all
    OBVIOUS
  <2>1. Keys \ seen \in SUBSET (Keys \ {}) /\ IsFiniteSet(Keys \ {})
    BY AssignmentsAssumption, FS_Subset
  <2> QED BY <2>1, FS_Subset DEF LeftOf
<1> QED BY <1>5, <1>6 DEF Merges

LEMMA MergeIs ==
  ASSUME NEW c
  PROVE  \E merge : Merges(c, merge) /\ \A name : MergeAssignment(c, name) = merge[{}][Fold[name]]
<1> DEFINE merge == CHOOSE merge : Merges(c, merge)
<1>1. Merges(c, merge)
  BY MergeExists
<1>2. ASSUME NEW name PROVE MergeAssignment(c, name) = merge[{}][Fold[name]]
  BY Zenon DEF MergeAssignment, Merges, After, Outcome
<1> QED BY <1>1, <1>2

----------------------------------------------------------------------------
(* Chains of parents *)

Courses == [Keys -> Own \cup {Unset}]

LEMMA OwnKeys ==
  ASSUME NEW c \in Courses, NEW n \in Keys
  PROVE  /\ Has(c, n) <=> c[n] \in Own
         /\ Has(c, n) => /\ c[n].extends \in Refs \cup {Unset} /\ c[n].abstract \in BOOLEAN
                         /\ \A f \in Fields : c[n][f] \in {"true", "false", "v1", "v2", Unset}
                         /\ c[n].flag \in {"true", "false", Unset} /\ c[n].url \in {"v1", Unset}
                         /\ c[n].tag \in {"v1", "v2", Unset}
<1>1. c[n] \in Own \cup {Unset}
  BY DEF Courses
<1> QED BY <1>1, AssignmentsAssumption DEF Has, Own, Fields

\* At most one parent, which the course has.
LEMMA OneParent ==
  ASSUME NEW c \in Courses, ~Clash(c), NEW n \in Keys
  PROVE  /\ \A p \in Parents(c, n) : p \in Keys /\ Has(c, p)
         /\ \A p, q \in Parents(c, n) : p = q
         /\ Has(c, n) /\ c[n].extends # Unset =>
              Parents(c, n) = LookupAssignment(c, Fold[c[n].extends])
BY DEF Parents, LookupAssignment, Clash

\* A set that has an assignment, and with each its parents, has all above it.
LEMMA AboveIsLeast ==
  ASSUME NEW c, NEW n, NEW S \in SUBSET Keys, n \in S, \A k \in S : Parents(c, k) \subseteq S
  PROVE  Above(c, n) \subseteq S
BY DEF Above

LEMMA AboveIsClosed ==
  ASSUME NEW c, NEW n \in Keys
  PROVE  /\ n \in Above(c, n) /\ Above(c, n) \in SUBSET Keys
         /\ \A k \in Above(c, n) : Parents(c, k) \subseteq Above(c, n)
<1>1. ASSUME NEW k \in Above(c, n), NEW p \in Parents(c, k) PROVE p \in Above(c, n)
  <2>1. p \in Keys
    BY DEF Parents, LookupAssignment
  <2> QED BY <2>1 DEF Above
<1> QED BY <1>1 DEF Above

LEMMA AboveIsAbove ==
  ASSUME NEW c, NEW n \in Keys, NEW k \in Above(c, n)
  PROVE  Above(c, k) \subseteq Above(c, n)
BY AboveIsClosed, AboveIsLeast

LEMMA ParentsAreAbove ==
  ASSUME NEW c, NEW n \in Keys, NEW p \in Parents(c, n)
  PROVE  p \in Keys /\ Above(c, p) \subseteq Above(c, n)
<1>1. p \in Above(c, n)
  BY AboveIsClosed
<1> QED BY <1>1, AboveIsClosed, AboveIsAbove

\* What is above an assignment is it, and what is above its parent.
LEMMA AboveInSteps ==
  ASSUME NEW c, NEW n \in Keys
  PROVE  \A k \in Above(c, n) : k = n \/ \E p \in Parents(c, n) : k \in Above(c, p)
<1> DEFINE S == {n} \cup {k \in Keys : \E p \in Parents(c, n) : k \in Above(c, p)}
<1>1. ASSUME NEW k \in S, NEW q \in Parents(c, k) PROVE q \in S
  <2>1. q \in Keys
    BY DEF Parents, LookupAssignment
  <2>2. CASE k = n
    BY <2>1, <2>2, AboveIsClosed
  <2>3. CASE k # n
    <3>1. PICK p \in Parents(c, n) : k \in Above(c, p)
      BY <2>3
    <3>2. q \in Above(c, p)
      BY <3>1, ParentsAreAbove, AboveIsClosed
    <3> QED BY <2>1, <3>2
  <2> QED BY <2>2, <2>3
<1> HIDE DEF S
<1>2. S \in SUBSET Keys /\ n \in S
  BY DEF S
<1>3. Above(c, n) \subseteq S
  BY <1>1, <1>2, AboveIsLeast
<1> QED BY <1>3 DEF S

LEMMA AllAboveAreThere ==
  ASSUME NEW c \in Courses, ~Clash(c), NEW n \in Keys, Has(c, n)
  PROVE  \A k \in Above(c, n) : k \in Keys /\ Has(c, k)
<1> DEFINE S == {k \in Keys : Has(c, k)}
<1>1. \A k \in S : Parents(c, k) \subseteq S
  BY OneParent
<1>2. Above(c, n) \subseteq S
  BY <1>1, AboveIsLeast
<1> QED BY <1>2

\* What is above a member of a circle is on it.
LEMMA Around ==
  ASSUME NEW c \in Courses, ~Clash(c), NEW n \in Keys, OnCycle(c, n), NEW k \in Above(c, n)
  PROVE  n \in Above(c, k)
<1> DEFINE S == {m \in Above(c, n) : n \in Above(c, m)}
<1>1. PICK p \in Parents(c, n) : n \in Above(c, p)
  BY DEF OnCycle
<1>2. S \in SUBSET Keys /\ n \in S
  BY AboveIsClosed
<1>3. ASSUME NEW m \in S, NEW q \in Parents(c, m) PROVE q \in S
  <2>1. m \in Keys /\ q \in Above(c, n)
    BY <1>2, AboveIsClosed
  <2>2. n \in Above(c, q)
    <3>1. CASE m = n
      BY <1>1, <3>1, OneParent
    <3>2. CASE m # n
      <4>1. PICK r \in Parents(c, m) : n \in Above(c, r)
        BY <2>1, <3>2, AboveInSteps
      <4> QED BY <2>1, <4>1, OneParent
    <3> QED BY <3>1, <3>2
  <2> QED BY <2>1, <2>2
<1> HIDE DEF S
<1>4. Above(c, n) \subseteq S
  BY <1>2, <1>3, AboveIsLeast
<1> QED BY <1>4 DEF S

\* Where no chain comes back, of two assignments one is above the other at most.
LEMMA NotBothAbove ==
  ASSUME NEW c \in Courses, NEW j \in Keys, NEW k \in Keys, j \in Above(c, k), k \in Above(c, j), j # k
  PROVE  OnCycle(c, j)
<1>1. PICK p \in Parents(c, j) : k \in Above(c, p)
  BY AboveInSteps
<1>2. p \in Keys /\ Above(c, k) \subseteq Above(c, p)
  BY <1>1, ParentsAreAbove, AboveIsAbove
<1> QED BY <1>1, <1>2 DEF OnCycle

----------------------------------------------------------------------------
(* What is merged is what is written *)

\* Each field that is mentioned above an assignment is mentioned nearest somewhere.
HasNearest(c, n) ==
  \A f \in Fields : Mentions(c, n, f) # {} =>
    \E k \in Mentions(c, n, f) : Mentions(c, n, f) \subseteq Above(c, k)

LEMMA NearestIs ==
  ASSUME NEW c \in Courses, NEW n \in Keys, ChainEnds(c, n), NEW f,
         NEW k \in Mentions(c, n, f), Mentions(c, n, f) \subseteq Above(c, k)
  PROVE  Nearest(c, n, f) = k
<1> DEFINE j == Nearest(c, n, f)
<1>1. j \in Mentions(c, n, f) /\ Mentions(c, n, f) \subseteq Above(c, j)
  BY DEF Nearest
<1>2. j \in Above(c, n) /\ k \in Above(c, n)
  BY <1>1 DEF Mentions
<1>3. j \in Keys /\ k \in Keys /\ ~OnCycle(c, j)
  BY <1>2, AboveIsClosed DEF ChainEnds
<1>4. j \in Above(c, k) /\ k \in Above(c, j)
  BY <1>1
<1> QED BY <1>3, <1>4, NotBothAbove

LEMMA WrittenIsMerged ==
  ASSUME NEW c \in Courses, ~Clash(c), NEW n \in Keys, Has(c, n), HasNearest(c, n)
  PROVE  AsWritten(c, n) \in Merged /\ AsWritten(c, n) # Error
<1>1. ASSUME NEW f \in Fields, Mentions(c, n, f) # {}
      PROVE  c[Nearest(c, n, f)][f] \in {"true", "false", "v1", "v2", Unset}
  <2>1. Nearest(c, n, f) \in Mentions(c, n, f)
    BY <1>1 DEF HasNearest, Nearest
  <2>2. Nearest(c, n, f) \in Keys /\ Has(c, Nearest(c, n, f))
    BY <2>1, AllAboveAreThere DEF Mentions
  <2> QED BY <2>2, OwnKeys
<1>2. AsWritten(c, n) \in Merged
  BY <1>1 DEF AsWritten, Merged
<1> QED BY <1>2, AssignmentsAssumption DEF Error

\* A chain begins with an assignment without a parent.
LEMMA FirstOfAChain ==
  ASSUME NEW c \in Courses, NEW n \in Keys, Has(c, n), c[n].extends = Unset
  PROVE  ChainEnds(c, n) /\ HasNearest(c, n) /\ AsWritten(c, n) = [g \in Fields |-> c[n][g]]
<1>1. Parents(c, n) = {}
  BY DEF Parents
<1>2. Above(c, n) = {n}
  BY <1>1, AboveIsClosed, AboveInSteps
<1>3. ChainEnds(c, n)
  BY <1>1, <1>2 DEF ChainEnds, Dangling, OnCycle
<1>4. HasNearest(c, n)
  BY <1>2 DEF HasNearest, Mentions
<1>5. ASSUME NEW f \in Fields PROVE AsWritten(c, n)[f] = c[n][f]
  <2>1. CASE c[n][f] = Unset
    BY <1>2, <2>1 DEF AsWritten, Mentions
  <2>2. CASE c[n][f] # Unset
    <3>1. Mentions(c, n, f) = {n}
      BY <1>2, <2>2 DEF Mentions
    <3>2. Nearest(c, n, f) = n
      BY <1>2, <1>3, <3>1, NearestIs
    <3> QED BY <3>1, <3>2 DEF AsWritten
  <2> QED BY <2>1, <2>2
<1>6. AsWritten(c, n) = [g \in Fields |-> AsWritten(c, n)[g]]
  BY DEF AsWritten
<1> QED BY <1>3, <1>4, <1>5, <1>6

\* It goes on with an assignment whose parent's chain ends and does not have it.
LEMMA ChainGoesOn ==
  ASSUME NEW c \in Courses, ~Clash(c), NEW n \in Keys, Has(c, n), NEW p \in Parents(c, n)
  PROVE  /\ Above(c, n) = {n} \cup Above(c, p)
         /\ OnCycle(c, n) <=> n \in Above(c, p)
         /\ ChainEnds(c, n) <=> ~OnCycle(c, n) /\ ChainEnds(c, p)
<1>1. /\ p \in Keys /\ Above(c, p) \subseteq Above(c, n)
      /\ n \in Above(c, n) /\ \A q \in Parents(c, n) : q = p
  BY ParentsAreAbove, AboveIsClosed, OneParent
<1>2. Above(c, n) = {n} \cup Above(c, p)
  BY <1>1, AboveInSteps
<1>3. OnCycle(c, n) <=> n \in Above(c, p)
  BY <1>1 DEF OnCycle
<1>4. ~Dangling(c, n)
  BY DEF Dangling
<1>5. ChainEnds(c, n) <=> ~OnCycle(c, n) /\ ChainEnds(c, p)
  BY <1>2, <1>4 DEF ChainEnds
<1> QED BY <1>2, <1>3, <1>5

LEMMA WrittenGoesOn ==
  ASSUME NEW c \in Courses, ~Clash(c), NEW n \in Keys, Has(c, n), NEW p \in Parents(c, n),
         ChainEnds(c, n), HasNearest(c, p)
  PROVE  HasNearest(c, n) /\ AsWritten(c, n) = DeepMerge(AsWritten(c, p), c[n])
<1>1. Above(c, n) = {n} \cup Above(c, p)
  BY ChainGoesOn
<1>2. \A f \in Fields : c[n][f] = Unset => Mentions(c, n, f) = Mentions(c, p, f)
  BY <1>1 DEF Mentions
<1>3. \A f \in Fields : c[n][f] # Unset => n \in Mentions(c, n, f) /\ Mentions(c, n, f) \subseteq Above(c, n)
  BY <1>1 DEF Mentions
<1>4. HasNearest(c, n)
  BY <1>2, <1>3 DEF HasNearest
<1>5. ASSUME NEW f \in Fields
      PROVE  AsWritten(c, n)[f] = IF c[n][f] # Unset THEN c[n][f] ELSE AsWritten(c, p)[f]
  <2>1. CASE c[n][f] # Unset
    <3>1. Nearest(c, n, f) = n
      BY <1>3, <2>1, NearestIs
    <3> QED BY <1>3, <2>1, <3>1 DEF AsWritten
  <2>2. CASE c[n][f] = Unset
    <3>1. Mentions(c, n, f) = Mentions(c, p, f)
      BY <1>2, <2>2
    <3>2. Nearest(c, n, f) = Nearest(c, p, f)
      BY <3>1 DEF Nearest
    <3> QED BY <2>2, <3>1, <3>2 DEF AsWritten
  <2> QED BY <2>1, <2>2
<1>6. AsWritten(c, n) = [f \in Fields |-> AsWritten(c, n)[f]]
  BY DEF AsWritten
<1> QED BY <1>4, <1>5, <1>6 DEF DeepMerge

\* Nothing above k has been looked up.
Fresh(c, seen, k) == \A a \in Above(c, k) : Fold[a] \notin seen

\* What mergeAssignment returns for a key, having seen some names.
MergeOf(c, merge, seen, k) ==
  /\ merge[seen][Fold[k]] = IF Fresh(c, seen, k) /\ ChainEnds(c, k) THEN {AsWritten(c, k)} ELSE {Error}
  /\ Fresh(c, seen, k) /\ ChainEnds(c, k) => HasNearest(c, k)

LEMMA Inherits ==
  ASSUME NEW c, NEW k, NEW results
  PROVE  /\ c[k].extends = Unset => Inherit(c, k, results) = {[g \in Fields |-> c[k][g]]}
         /\ c[k].extends # Unset /\ LookupAssignment(c, Fold[c[k].extends]) = {} =>
              Inherit(c, k, results) = {Error}
         /\ c[k].extends # Unset /\ LookupAssignment(c, Fold[c[k].extends]) # {} =>
              Inherit(c, k, results) =
                {IF m = Error THEN Error ELSE DeepMerge(m, c[k]) : m \in results[Fold[c[k].extends]]}
BY Zenon DEF Inherit

LEMMA MergeOfAName ==
  ASSUME NEW c \in Courses, ~Clash(c), NEW merge, Merges(c, merge),
         NEW seen \in SUBSET Keys, NEW k \in Keys, Has(c, k)
  PROVE  /\ Fold[k] \in Keys
         /\ Fold[k] \in seen => merge[seen][Fold[k]] = {Error}
         /\ Fold[k] \notin seen => merge[seen][Fold[k]] = Inherit(c, k, merge[seen \cup {Fold[k]}])
<1>1. Fold[k] \in Keys
  BY AssignmentsAssumption
<1>2. merge[seen][Fold[k]] = IF Fold[k] \in seen THEN {Error} ELSE Outcome(c, Fold[k], merge[seen \cup {Fold[k]}])
  <2>1. merge[seen] = After(c, merge, seen)
    BY DEF Merges
  <2> QED BY <1>1, <2>1 DEF After
<1>3. LookupAssignment(c, Fold[k]) = {k}
  BY DEF LookupAssignment, Clash
<1>4. Outcome(c, Fold[k], merge[seen \cup {Fold[k]}]) = Inherit(c, k, merge[seen \cup {Fold[k]}])
  BY <1>3 DEF Outcome
<1> QED BY <1>1, <1>2, <1>4

LEMMA MergeGoesOn ==
  ASSUME NEW c \in Courses, ~Clash(c), NEW merge, Merges(c, merge), NEW seen \in SUBSET Keys,
         \A f \in Keys \ seen, p \in Keys : Has(c, p) => MergeOf(c, merge, seen \cup {f}, p),
         NEW k \in Keys, Has(c, k)
  PROVE  MergeOf(c, merge, seen, k)
<1> DEFINE now == seen \cup {Fold[k]}
           parent == c[k].extends
<1>0. Fold[k] \notin seen => merge[seen][Fold[k]] = Inherit(c, k, merge[now])
  BY MergeOfAName
<1>1. CASE Fold[k] \in seen
  <2>1. ~Fresh(c, seen, k)
    BY <1>1, AboveIsClosed DEF Fresh
  <2> QED BY <1>1, <2>1, MergeOfAName DEF MergeOf
<1>2. CASE Fold[k] \notin seen /\ parent = Unset
  <2>1. ChainEnds(c, k) /\ HasNearest(c, k) /\ AsWritten(c, k) = [g \in Fields |-> c[k][g]]
    BY <1>2, FirstOfAChain
  <2>2. Above(c, k) = {k}
    BY <1>2, AboveIsClosed, AboveInSteps DEF Parents
  <2>3. Fresh(c, seen, k)
    BY <1>2, <2>2 DEF Fresh
  <2>4. merge[seen][Fold[k]] = {AsWritten(c, k)}
    BY <1>0, <1>2, <2>1, Inherits
  <2> QED BY <2>1, <2>3, <2>4 DEF MergeOf
<1>3. CASE Fold[k] \notin seen /\ parent # Unset /\ Parents(c, k) = {}
  <2>1. ~ChainEnds(c, k)
    BY <1>3, AboveIsClosed DEF ChainEnds, Dangling
  <2>2. LookupAssignment(c, Fold[parent]) = {}
    BY <1>3, OneParent
  <2>3. merge[seen][Fold[k]] = {Error}
    BY <1>0, <1>3, <2>2, Inherits
  <2> QED BY <2>1, <2>3 DEF MergeOf
<1>4. CASE Fold[k] \notin seen /\ parent # Unset /\ Parents(c, k) # {}
  <2>1. PICK p \in Parents(c, k) : TRUE
    BY <1>4
  <2>2. p \in Keys /\ Has(c, p) /\ Fold[p] = Fold[parent] /\ LookupAssignment(c, Fold[parent]) # {}
    BY <1>4, <2>1, OneParent DEF LookupAssignment
  <2>3. MergeOf(c, merge, now, p)
    BY <1>4, <2>2, MergeOfAName
  <2>4. Above(c, k) = {k} \cup Above(c, p) /\ (OnCycle(c, k) <=> k \in Above(c, p))
        /\ (ChainEnds(c, k) <=> ~OnCycle(c, k) /\ ChainEnds(c, p))
    BY <2>1, ChainGoesOn
  <2>5. Fresh(c, now, p) <=> Fresh(c, seen, k) /\ ~OnCycle(c, k)
    <3>1. \A a \in Above(c, p) : Fold[a] = Fold[k] <=> a = k
      BY <2>2, AllAboveAreThere DEF Clash
    <3> QED BY <1>4, <2>4, <3>1 DEF Fresh
  <2>6. merge[seen][Fold[k]] = {IF m = Error THEN Error ELSE DeepMerge(m, c[k]) : m \in merge[now][Fold[p]]}
    BY <1>0, <1>4, <2>2, Inherits
  <2>7. CASE Fresh(c, seen, k) /\ ChainEnds(c, k)
    <3>1. merge[now][Fold[p]] = {AsWritten(c, p)} /\ HasNearest(c, p)
      BY <2>3, <2>4, <2>5, <2>7 DEF MergeOf
    <3>2. AsWritten(c, p) # Error
      BY <2>2, <3>1, WrittenIsMerged
    <3>3. HasNearest(c, k) /\ AsWritten(c, k) = DeepMerge(AsWritten(c, p), c[k])
      BY <2>1, <2>7, <3>1, WrittenGoesOn
    <3> QED BY <2>6, <2>7, <3>1, <3>2, <3>3 DEF MergeOf
  <2>8. CASE ~(Fresh(c, seen, k) /\ ChainEnds(c, k))
    <3>1. merge[now][Fold[p]] = {Error}
      BY <2>3, <2>4, <2>5, <2>8 DEF MergeOf
    <3> QED BY <2>6, <2>8, <3>1 DEF MergeOf
  <2> QED BY <2>7, <2>8
<1> QED BY <1>1, <1>2, <1>3, <1>4

\* What is merged for an assignment is what is written in its chain, if that ends.
LEMMA MergedIsWritten ==
  ASSUME NEW c \in Courses, ~Clash(c), NEW n \in Keys, Has(c, n)
  PROVE  /\ MergeAssignment(c, n) = IF ChainEnds(c, n) THEN {AsWritten(c, n)} ELSE {Error}
         /\ ChainEnds(c, n) => HasNearest(c, n) /\ AsWritten(c, n) \in Merged /\ AsWritten(c, n) # Error
<1>1. PICK merge : Merges(c, merge) /\ \A name : MergeAssignment(c, name) = merge[{}][Fold[name]]
  BY MergeIs
<1> DEFINE Q == {seen \in SUBSET Keys : \A k \in Keys : Has(c, k) => MergeOf(c, merge, seen, k)}
<1>2. ASSUME NEW seen \in SUBSET Keys, \A f \in Keys \ seen : seen \cup {f} \in Q PROVE seen \in Q
  <2>1. \A f \in Keys \ seen, p \in Keys : Has(c, p) => MergeOf(c, merge, seen \cup {f}, p)
    BY <1>2
  <2> QED BY <1>1, <2>1, MergeGoesOn
<1> HIDE DEF Q
<1>3. SUBSET Keys \subseteq Q
  BY <1>2, MoreSeen
<1>4. MergeOf(c, merge, {}, n)
  BY <1>3 DEF Q
<1>5. Fresh(c, {}, n)
  BY DEF Fresh
<1> QED BY <1>1, <1>4, <1>5, WrittenIsMerged DEF MergeOf

----------------------------------------------------------------------------
(* What is resolved is what was written *)

LEMMA Builds ==
  ASSUME NEW m \in Merged
  PROVE  Build(m) = IF m.tag # Unset => m.url # Unset
                    THEN [flag |-> m.flag = "true", url |-> m.url, tag |-> m.tag] ELSE Error
<1>1. m # Error
  BY AssignmentsAssumption DEF Error
<1> QED BY <1>1 DEF Build, StartercodeSound, HasStartercode

LEMMA ResolvedIsWritten ==
  ASSUME NEW c \in Courses, ~Clash(c), NEW n \in Keys, Has(c, n)
  PROVE  /\ ~c[n].abstract /\ ChainEnds(c, n) => ResolveAssignment(c, n) = {Build(AsWritten(c, n))}
         /\ c[n].abstract \/ ~ChainEnds(c, n) => ResolveAssignment(c, n) = {Error}
<1>1. LookupAssignment(c, Fold[n]) = {n}
  BY DEF LookupAssignment, Clash
<1>2. ResolveAssignment(c, n) = IF c[n].abstract THEN {Error} ELSE {Build(m) : m \in MergeAssignment(c, n)}
  BY <1>1 DEF ResolveAssignment
<1>3. Build(Error) = Error
  BY DEF Build
<1> QED BY <1>2, <1>3, MergedIsWritten

LEMMA WrittenWins ==
  ASSUME course \in Courses
  PROVE  NearestWins
<1> SUFFICES ASSUME ~Clash(course), NEW n \in Keys, Has(course, n)
             PROVE  LET m == AsWritten(course, n)
                        sound == ~course[n].abstract /\ ChainEnds(course, n) /\ (m.tag # Unset => m.url # Unset)
                    IN ResolveAssignment(course, n) =
                         IF sound THEN {[flag |-> m.flag = "true", url |-> m.url, tag |-> m.tag]} ELSE {Error}
  BY DEF NearestWins
<1> DEFINE m == AsWritten(course, n)
<1>1. CASE ~course[n].abstract /\ ChainEnds(course, n)
  <2>1. m \in Merged
    BY <1>1, MergedIsWritten
  <2>2. ResolveAssignment(course, n) = {Build(m)}
    BY <1>1, ResolvedIsWritten
  <2> HIDE DEF m
  <2>3. ResolveAssignment(course, n) =
          IF m.tag # Unset => m.url # Unset THEN {[flag |-> m.flag = "true", url |-> m.url, tag |-> m.tag]} ELSE {Error}
    BY <2>1, <2>2, Builds
  <2> QED BY <1>1, <2>3 DEF m
<1>2. CASE course[n].abstract \/ ~ChainEnds(course, n)
  BY <1>2, ResolvedIsWritten
<1> QED BY <1>1, <1>2

\* A result there is, in a course without clashes, is the only one.
LEMMA ResultIsWritten ==
  ASSUME NEW c \in Courses, ~Clash(c), NEW n \in Keys, Has(c, n), NEW r \in ResolveAssignment(c, n), r # Error
  PROVE  /\ ~c[n].abstract /\ ChainEnds(c, n) /\ AsWritten(c, n) \in Merged
         /\ ResolveAssignment(c, n) = {r}
         /\ r = [flag |-> AsWritten(c, n).flag = "true", url |-> AsWritten(c, n).url, tag |-> AsWritten(c, n).tag]
<1>1. ~c[n].abstract /\ ChainEnds(c, n) /\ ResolveAssignment(c, n) = {Build(AsWritten(c, n))}
  BY OwnKeys, ResolvedIsWritten
<1>2. AsWritten(c, n) \in Merged
  BY <1>1, MergedIsWritten
<1>3. r = Build(AsWritten(c, n))
  BY <1>1
<1> QED BY <1>1, <1>2, <1>3, Builds

LEMMA LintedResolves ==
  ASSUME course \in Courses
  PROVE  CleanResolves
<1> SUFFICES ASSUME NEW n \in Keys, Has(course, n), ~course[n].abstract, ~Clash(course),
                    \A k \in Above(course, n) : ~OnCycle(course, k) /\ LintAssignment(course, k) = {}
             PROVE  Error \notin ResolveAssignment(course, n)
  BY DEF CleanResolves
<1> DEFINE m == AsWritten(course, n)
<1>1. ASSUME NEW k \in Above(course, n)
      PROVE  k \in Keys /\ ~Dangling(course, k) /\ StartercodeSound(course[k])
  <2>1. k \in Keys /\ Has(course, k)
    BY AllAboveAreThere
  <2>2. course[k].extends = Unset \/ course[k].extends \in {j \in Keys : Has(course, j)}
    BY DEF LintAssignment
  <2>3. StartercodeSound(course[k])
    BY DEF LintAssignment
  <2>4. course[k].extends # Unset => course[k].extends \in LookupAssignment(course, Fold[course[k].extends])
    BY <2>2 DEF LookupAssignment
  <2> QED BY <2>1, <2>3, <2>4, OneParent DEF Dangling
<1>2. ChainEnds(course, n)
  BY <1>1 DEF ChainEnds
<1>3. HasNearest(course, n) /\ m \in Merged
  BY <1>2, MergedIsWritten
<1>4. m.tag # Unset => m.url # Unset
  <2> SUFFICES ASSUME m.tag # Unset PROVE m.url # Unset
    OBVIOUS
  <2>1. Mentions(course, n, "tag") # {}
    BY DEF AsWritten, Fields
  <2>2. PICK k \in Mentions(course, n, "tag") : TRUE
    BY <2>1
  <2>3. k \in Above(course, n) /\ course[k].tag # Unset
    BY <2>2 DEF Mentions
  <2>4. Has(course, k)
    BY <2>3, AllAboveAreThere
  <2>5. course[k].url # Unset
    BY <1>1, <2>3 DEF StartercodeSound, HasStartercode
  <2>6. Mentions(course, n, "url") # {}
    BY <2>3, <2>5 DEF Mentions
  <2>7. Nearest(course, n, "url") \in Mentions(course, n, "url")
    BY <1>3, <2>6 DEF HasNearest, Nearest, Fields
  <2>8. course[Nearest(course, n, "url")].url # Unset
    BY <2>7 DEF Mentions
  <2> QED BY <2>6, <2>8 DEF AsWritten, Fields
<1>5. ResolveAssignment(course, n) = {Build(m)}
  BY <1>2, ResolvedIsWritten
<1> HIDE DEF m
<1>6. Build(m) = [flag |-> m.flag = "true", url |-> m.url, tag |-> m.tag]
  BY <1>3, <1>4, Builds
<1>7. Build(m) \in [flag : BOOLEAN, url : {"v1", Unset}, tag : {"v1", "v2", Unset}]
  <2>1. m.url \in {"v1", Unset} /\ m.tag \in {"v1", "v2", Unset}
    <3>1. ASSUME NEW f \in Fields, Mentions(course, n, f) # {}
          PROVE  Nearest(course, n, f) \in Keys /\ Has(course, Nearest(course, n, f))
      <4>1. Nearest(course, n, f) \in Mentions(course, n, f)
        BY <1>3, <3>1 DEF HasNearest, Nearest
      <4> QED BY <4>1, AllAboveAreThere DEF Mentions
    <3> QED BY <3>1, OwnKeys DEF m, AsWritten, Fields
  <2> QED BY <1>6, <2>1
<1> QED BY <1>5, <1>7, AssignmentsAssumption DEF Error

----------------------------------------------------------------------------
(* Edits: what is encoded, and what a draft leaves *)

LEMMA Encodes ==
  ASSUME NEW c \in Courses
  PROVE  /\ EncodeAssignments(c) \in Courses /\ ~SaysFalse(EncodeAssignments(c))
         /\ \A n \in Keys :
              /\ Has(EncodeAssignments(c), n) <=> Has(c, n)
              /\ Has(c, n) =>
                   EncodeAssignments(c)[n] = [c[n] EXCEPT !.flag = IF @ = "true" THEN @ ELSE Unset]
         /\ ~SaysFalse(c) => EncodeAssignments(c) = c
<1> DEFINE e == EncodeAssignments(c)
<1>1. ASSUME NEW n \in Keys, Has(c, n)
      PROVE  /\ e[n] = [c[n] EXCEPT !.flag = IF @ = "true" THEN @ ELSE Unset]
             /\ e[n] \in Own /\ Has(e, n) /\ e[n].flag # "false" /\ (c[n].flag # "false" => e[n] = c[n])
  <2>1. e[n] = [c[n] EXCEPT !.flag = IF @ = "true" THEN @ ELSE Unset]
    BY <1>1 DEF EncodeAssignments
  <2>2. c[n] \in Own
    BY <1>1, OwnKeys
  <2>3. e[n] \in Own /\ e[n].flag # "false" /\ (c[n].flag # "false" => e[n] = c[n])
    BY <2>1, <2>2, AssignmentsAssumption DEF Own
  <2> QED BY <2>1, <2>3, AssignmentsAssumption DEF Has
<1>2. ASSUME NEW n \in Keys, ~Has(c, n) PROVE e[n] = Unset /\ ~Has(e, n) /\ e[n] = c[n]
  BY <1>2 DEF EncodeAssignments, Has
<1>3. e = [n \in Keys |-> e[n]] /\ c = [n \in Keys |-> c[n]]
  BY DEF EncodeAssignments, Courses
<1> HIDE DEF e
<1>4. e \in Courses
  BY <1>1, <1>2, <1>3 DEF Courses
<1>5. ~SaysFalse(e)
  BY <1>1, <1>2 DEF SaysFalse
<1>6. \A n \in Keys : Has(e, n) <=> Has(c, n)
  BY <1>1, <1>2
<1>7. ASSUME ~SaysFalse(c) PROVE e = c
  <2>1. \A n \in Keys : e[n] = c[n]
    BY <1>1, <1>2, <1>7 DEF SaysFalse
  <2> QED BY <1>3, <2>1
<1> QED BY <1>1, <1>4, <1>5, <1>6, <1>7 DEF e

LEMMA DraftApplies ==
  ASSUME NEW o \in Own, NEW d \in Drafts
  PROVE  ApplyDraft(o, d) \in Own /\ \A f \in DOMAIN o \cap DOMAIN d : ApplyDraft(o, d)[f] = d[f]
<1>1. [f \in DOMAIN o |-> IF f \in DOMAIN d THEN d[f] ELSE o[f]] \in Own
  BY AssignmentsAssumption
<1>2. ApplyDraft(o, d) = [f \in DOMAIN o |-> IF f \in DOMAIN d THEN d[f] ELSE o[f]]
  BY DEF ApplyDraft, ApplyStartercodeDraft
<1> QED BY <1>1, <1>2

\* What an edit makes of the course before it is encoded.
Drafted(n, d) ==
  [course EXCEPT ![n] = ApplyDraft(IF Has(course, n) THEN EncodeAssignments(course)[n] ELSE Empty, d)]
Renamed(old, new) == [Repoint(course, old, new) EXCEPT ![old] = Unset, ![new] = course[old]]

LEMMA DraftedIsACourse ==
  ASSUME course \in Courses, NEW n \in Keys, NEW d \in Drafts
  PROVE  /\ Drafted(n, d) \in Courses /\ Has(Drafted(n, d), n)
         /\ \A f \in ({"extends", "abstract"} \cup Fields) \cap DOMAIN d : Drafted(n, d)[n][f] = d[f]
         /\ \A k \in Keys \ {n} : Drafted(n, d)[k] = course[k]
<1> DEFINE o == IF Has(course, n) THEN EncodeAssignments(course)[n] ELSE Empty
<1>1. o \in Own
  <2>1. Empty \in Own
    BY DEF Empty, Own
  <2>2. Has(course, n) => EncodeAssignments(course)[n] \in Own
    BY Encodes, OwnKeys
  <2> QED BY <2>1, <2>2
<1>2. DOMAIN o = {"extends", "abstract"} \cup Fields
  <2> HIDE DEF o
  <2> QED BY <1>1 DEF Own, Fields
<1>3. Drafted(n, d) = [course EXCEPT ![n] = ApplyDraft(o, d)]
  BY DEF Drafted
<1> HIDE DEF o
<1>4. ApplyDraft(o, d) \in Own /\ \A f \in DOMAIN o \cap DOMAIN d : ApplyDraft(o, d)[f] = d[f]
  BY <1>1, DraftApplies
<1>5. Drafted(n, d) \in Courses /\ Drafted(n, d)[n] = ApplyDraft(o, d)
      /\ \A k \in Keys \ {n} : Drafted(n, d)[k] = course[k]
  BY <1>3, <1>4 DEF Courses
<1> QED BY <1>2, <1>4, <1>5, AssignmentsAssumption DEF Has

LEMMA RenamedIsACourse ==
  ASSUME course \in Courses, NEW old \in Keys, NEW new \in Keys, Has(course, old), ~Has(course, new)
  PROVE  /\ Renamed(old, new) \in Courses /\ old # new
         /\ Renamed(old, new)[new] = course[old] /\ Renamed(old, new)[old] = Unset
         /\ \A n \in Keys \ {old, new} :
              Renamed(old, new)[n] =
                IF Has(course, n) /\ course[n].extends = old THEN [course[n] EXCEPT !.extends = new] ELSE course[n]
<1> DEFINE rest == Repoint(course, old, new)
<1>1. ASSUME NEW n \in Keys
      PROVE  /\ rest[n] \in Own \cup {Unset}
             /\ n # old => rest[n] = IF Has(course, n) /\ course[n].extends = old
                                     THEN [course[n] EXCEPT !.extends = new] ELSE course[n]
  <2>1. new \in Refs /\ course[n] \in Own \cup {Unset} /\ (Has(course, n) => course[n] \in Own)
    BY OwnKeys, AssignmentsAssumption DEF Courses
  <2>2. Has(course, n) => [course[n] EXCEPT !.extends = new] \in Own
    BY <2>1 DEF Own
  <2> QED BY <2>1, <2>2 DEF Repoint
<1>2. rest = [n \in Keys |-> rest[n]]
  BY DEF Repoint
<1> HIDE DEF rest
<1>3. rest \in [Keys -> Own \cup {Unset}]
  BY <1>1, <1>2
<1>4. Renamed(old, new) = [rest EXCEPT ![old] = Unset, ![new] = course[old]]
  BY DEF Renamed, rest
<1>5. course[old] \in Own /\ old # new
  BY OwnKeys DEF Has
<1> QED BY <1>1, <1>3, <1>4, <1>5 DEF Courses

\* What the last edit with a draft has left.
DraftHeld ==
  last.op = "set" =>
    /\ last.name \in Keys /\ last.draft \in Drafts /\ Has(course, last.name)
    /\ \A f \in {"url", "tag"} \cap DOMAIN last.draft : course[last.name][f] = last.draft[f]
    /\ "flag" \in DOMAIN last.draft =>
         course[last.name].flag = IF last.draft["flag"] = "true" THEN "true" ELSE Unset
    /\ course[last.name].abstract \/ \E r \in ResolveAssignment(course, last.name) : r # Error

EditInv == CourseOK /\ DraftHeld

LEMMA SavingKeeps ==
  ASSUME CourseOK, edits < MaxEdits, NEW op, NEW c \in Courses, SaveCourseSource(op, c),
         op.op \in {"set", "import", "copy", "rename", "delete"}
  PROVE  CourseOK'
<1>1. EncodeAssignments(c) \in Courses /\ ~SaysFalse(EncodeAssignments(c))
  BY Encodes
<1>2. course' \in Courses /\ ~SaysFalse(course') /\ last' = op /\ edits' \in 0..MaxEdits
  BY <1>1, AssignmentsAssumption DEF CourseOK, SaveCourseSource
<1>3. ~SaysFalse(course)'
  BY <1>2 DEF SaysFalse, Has
<1> QED BY <1>2, <1>3 DEF CourseOK, Courses

LEMMA SetKeeps ==
  ASSUME EditInv, edits < MaxEdits, NEW n \in Keys, NEW d \in Drafts, SetAssignment(n, d)
  PROVE  EditInv'
<1> DEFINE c == Drafted(n, d)
           op == [op |-> "set", name |-> n, draft |-> d]
<1>1. Valid(c, n) /\ SaveCourseSource(op, c)
  BY DEF SetAssignment, Drafted
<1>2. course \in Courses
  BY DEF EditInv, CourseOK, Courses
<1>3. /\ c \in Courses /\ Has(c, n)
      /\ \A f \in ({"extends", "abstract"} \cup Fields) \cap DOMAIN d : c[n][f] = d[f]
  BY <1>2, DraftedIsACourse
<1>4. CourseOK'
  BY <1>1, <1>3, SavingKeeps DEF EditInv
<1> HIDE DEF c
<1>5. course' = EncodeAssignments(c) /\ last' = op
  BY <1>1 DEF SaveCourseSource
<1>6. Has(course', n) /\ course'[n] = [c[n] EXCEPT !.flag = IF @ = "true" THEN @ ELSE Unset] /\ c[n] \in Own
  BY <1>3, <1>5, Encodes, OwnKeys
<1>7. /\ course'[n].url = c[n].url /\ course'[n].tag = c[n].tag /\ course'[n].abstract = c[n].abstract
      /\ course'[n].flag = IF c[n].flag = "true" THEN "true" ELSE Unset
  BY <1>6 DEF Own
<1>8. course'[n].abstract \/ \E r \in ResolveAssignment(course', n) : r # Error
  BY <1>1, <1>5, <1>7 DEF Valid
<1>9. last'.name = n /\ last'.draft = d
  BY <1>5
<1>10. DraftHeld'
  <2>1. \A f \in {"url", "tag"} \cap DOMAIN d : course'[n][f] = d[f]
    BY <1>3, <1>7 DEF Fields
  <2>2. "flag" \in DOMAIN d => course'[n].flag = IF d["flag"] = "true" THEN "true" ELSE Unset
    BY <1>3, <1>7 DEF Fields
  <2> QED BY <1>6, <1>8, <1>9, <2>1, <2>2 DEF DraftHeld, Has
<1> QED BY <1>4, <1>10 DEF EditInv

LEMMA ImportKeeps ==
  ASSUME EditInv, edits < MaxEdits, NEW n \in Keys, NEW b \in Bodies, ImportAssignmentYAML(n, b)
  PROVE  EditInv'
<1> DEFINE c == [course EXCEPT ![n] = b]
           op == [op |-> "import", name |-> n]
<1>1. SaveCourseSource(op, c)
  BY DEF ImportAssignmentYAML
<1>2. c \in Courses
  BY AssignmentsAssumption DEF EditInv, CourseOK, Courses
<1>3. CourseOK'
  BY <1>1, <1>2, SavingKeeps DEF EditInv
<1>4. last'.op # "set"
  BY <1>1 DEF SaveCourseSource
<1> QED BY <1>3, <1>4 DEF EditInv, DraftHeld

LEMMA CopyKeeps ==
  ASSUME EditInv, edits < MaxEdits, NEW from \in Keys, NEW n \in Keys, CopyAssignment(from, n)
  PROVE  EditInv'
<1> DEFINE c == [course EXCEPT ![n] = course[from]]
           op == [op |-> "copy", from |-> from, name |-> n]
<1>1. SaveCourseSource(op, c)
  BY DEF CopyAssignment
<1>2. c \in Courses
  BY DEF EditInv, CourseOK, Courses
<1>3. CourseOK'
  BY <1>1, <1>2, SavingKeeps DEF EditInv
<1>4. last'.op # "set"
  BY <1>1 DEF SaveCourseSource
<1> QED BY <1>3, <1>4 DEF EditInv, DraftHeld

LEMMA RenameKeeps ==
  ASSUME EditInv, edits < MaxEdits, NEW from \in Keys, NEW n \in Keys, RenameAssignment(from, n)
  PROVE  EditInv'
<1> DEFINE op == [op |-> "rename", from |-> from, name |-> n]
<1>1. SaveCourseSource(op, Renamed(from, n)) /\ Has(course, from) /\ ~Has(course, n)
  BY DEF RenameAssignment, Renamed
<1>2. course \in Courses
  BY DEF EditInv, CourseOK, Courses
<1>3. Renamed(from, n) \in Courses
  BY <1>1, <1>2, RenamedIsACourse
<1>4. CourseOK'
  BY <1>1, <1>3, SavingKeeps DEF EditInv
<1>5. last'.op # "set"
  BY <1>1 DEF SaveCourseSource
<1> QED BY <1>4, <1>5 DEF EditInv, DraftHeld

LEMMA DeleteKeeps ==
  ASSUME EditInv, edits < MaxEdits, NEW n \in Keys, DeleteAssignment(n)
  PROVE  EditInv'
<1> DEFINE c == [course EXCEPT ![n] = Unset]
           op == [op |-> "delete", name |-> n]
<1>1. SaveCourseSource(op, c)
  BY DEF DeleteAssignment
<1>2. c \in Courses
  BY DEF EditInv, CourseOK, Courses
<1>3. CourseOK'
  BY <1>1, <1>2, SavingKeeps DEF EditInv
<1>4. last'.op # "set"
  BY <1>1 DEF SaveCourseSource
<1> QED BY <1>3, <1>4 DEF EditInv, DraftHeld

LEMMA UploadKeeps ==
  ASSUME EditInv, edits < MaxEdits, NEW c \in Uploads, ImportCourse(c)
  PROVE  EditInv'
<1>1. c \in Courses /\ MaxEdits \in Nat
  BY AssignmentsAssumption DEF Courses
<1>2. course' = c /\ last' = [op |-> "upload"] /\ edits' = edits + 1
  BY DEF ImportCourse
<1>3. CourseOK'
  BY <1>1, <1>2 DEF EditInv, CourseOK, Courses
<1> QED BY <1>2, <1>3 DEF EditInv, DraftHeld

LEMMA InitEdits ==
  ASSUME InitCourse
  PROVE  EditInv
<1>1. course \in Courses /\ MaxEdits \in Nat
  BY AssignmentsAssumption DEF InitCourse, Courses
<1> QED BY <1>1 DEF InitCourse, EditInv, CourseOK, DraftHeld, Courses

LEMMA EditsKeep ==
  ASSUME EditInv, [EditCourse]_courseVars
  PROVE  EditInv'
<1>1. CASE UNCHANGED courseVars
  <2>1. course' = course /\ last' = last /\ edits' = edits
    BY <1>1 DEF courseVars
  <2>2. CourseOK'
    BY <2>1 DEF EditInv, CourseOK, SaysFalse, Has
  <2>3. DraftHeld'
    BY <2>1 DEF EditInv, DraftHeld, Has
  <2> QED BY <2>2, <2>3 DEF EditInv
<1>2. CASE EditCourse
  <2>0. edits < MaxEdits
    BY <1>2 DEF EditCourse
  <2>1. ASSUME NEW n \in Keys, NEW d \in Drafts, SetAssignment(n, d) PROVE EditInv'
    BY <2>0, <2>1, SetKeeps
  <2>2. ASSUME NEW n \in Keys, NEW b \in Bodies, ImportAssignmentYAML(n, b) PROVE EditInv'
    BY <2>0, <2>2, ImportKeeps
  <2>3. ASSUME NEW n \in Keys, NEW from \in Keys, CopyAssignment(from, n) PROVE EditInv'
    BY <2>0, <2>3, CopyKeeps
  <2>4. ASSUME NEW n \in Keys, NEW from \in Keys, RenameAssignment(from, n) PROVE EditInv'
    BY <2>0, <2>4, RenameKeeps
  <2>5. ASSUME NEW n \in Keys, DeleteAssignment(n) PROVE EditInv'
    BY <2>0, <2>5, DeleteKeeps
  <2>6. ASSUME NEW c \in Uploads, ImportCourse(c) PROVE EditInv'
    BY <2>0, <2>6, UploadKeeps
  <2> QED BY <1>2, <2>1, <2>2, <2>3, <2>4, <2>5, <2>6 DEF EditCourse
<1> QED BY <1>1, <1>2

LEMMA DraftsTakeEffect ==
  ASSUME EditInv
  PROVE  DraftTakesEffect
<1> DEFINE n == last.name
           p == CHOOSE q \in Parents(course, n) : TRUE
           m == AsWritten(course, n)
           i == CHOOSE j \in MergeAssignment(course, p) : TRUE
<1> SUFFICES ASSUME last.op = "set", ~Clash(course), ~course[n].abstract,
                    NEW r \in ResolveAssignment(course, n)
             PROVE  /\ r # Error
                    /\ \A f \in {"url", "tag"} \cap DOMAIN last.draft :
                         r[f] = IF last.draft[f] # Unset THEN last.draft[f]
                                ELSE IF course[n].extends = Unset THEN Unset ELSE i[f]
                    /\ "flag" \in DOMAIN last.draft =>
                         r.flag = (\/ last.draft["flag"] = "true"
                                   \/ course[n].extends # Unset /\ i.flag = "true")
  BY DEF DraftTakesEffect
<1>1. course \in Courses
  BY DEF EditInv, CourseOK, Courses
<1>2. /\ n \in Keys /\ Has(course, n)
      /\ \A f \in {"url", "tag"} \cap DOMAIN last.draft : course[n][f] = last.draft[f]
      /\ "flag" \in DOMAIN last.draft =>
           course[n].flag = IF last.draft["flag"] = "true" THEN "true" ELSE Unset
      /\ \E s \in ResolveAssignment(course, n) : s # Error
  BY DEF EditInv, DraftHeld
<1>3. PICK s \in ResolveAssignment(course, n) : s # Error
  BY <1>2
<1>4. /\ ChainEnds(course, n) /\ ResolveAssignment(course, n) = {s}
      /\ s = [flag |-> m.flag = "true", url |-> m.url, tag |-> m.tag]
  BY <1>1, <1>2, <1>3, ResultIsWritten
<1>5. r # Error /\ (r.flag = (m.flag = "true")) /\ r.url = m.url /\ r.tag = m.tag
  BY <1>3, <1>4
<1>6. CASE course[n].extends = Unset
  <2>1. m = [g \in Fields |-> course[n][g]]
    BY <1>1, <1>2, <1>6, FirstOfAChain
  <2>2. m.url = course[n].url /\ m.tag = course[n].tag /\ m.flag = course[n].flag
    BY <2>1 DEF Fields
  <2> HIDE DEF n, m, i
  <2>3. "flag" \in DOMAIN last.draft => (m.flag = "true" <=> last.draft["flag"] = "true")
    BY <1>2, <2>2, AssignmentsAssumption
  <2> QED BY <1>2, <1>5, <1>6, <2>2, <2>3
<1>7. CASE course[n].extends # Unset
  <2>1. p \in Parents(course, n)
    BY <1>2, <1>4, <1>7, AboveIsClosed DEF ChainEnds, Dangling
  <2>2. p \in Keys /\ Has(course, p)
    BY <1>1, <1>2, <2>1, OneParent
  <2>3. ChainEnds(course, p)
    BY <1>1, <1>2, <1>4, <2>1, ChainGoesOn
  <2>4. MergeAssignment(course, p) = {AsWritten(course, p)} /\ HasNearest(course, p)
    BY <1>1, <2>2, <2>3, MergedIsWritten
  <2>5. i = AsWritten(course, p)
    BY <2>4
  <2>6. m = DeepMerge(i, course[n])
    <3>1. ASSUME NEW q \in Parents(course, n), HasNearest(course, q)
          PROVE  AsWritten(course, n) = DeepMerge(AsWritten(course, q), course[n])
      BY <1>1, <1>2, <1>4, <3>1, WrittenGoesOn
    <3> HIDE DEF i, p
    <3> QED BY <2>1, <2>4, <2>5, <3>1
  <2>7. \A f \in Fields : m[f] = IF course[n][f] # Unset THEN course[n][f] ELSE i[f]
    BY <2>6 DEF DeepMerge
  <2> HIDE DEF n, m, i
  <2>8. "flag" \in DOMAIN last.draft =>
          (m.flag = "true" <=> last.draft["flag"] = "true" \/ i.flag = "true")
    BY <1>2, <2>7, AssignmentsAssumption DEF Fields
  <2>9. \A f \in {"url", "tag"} \cap DOMAIN last.draft :
          r[f] = IF last.draft[f] # Unset THEN last.draft[f] ELSE i[f]
    BY <1>2, <1>5, <2>7 DEF Fields
  <2>10. ASSUME "flag" \in DOMAIN last.draft
         PROVE  r.flag = (\/ last.draft["flag"] = "true"
                          \/ course[n].extends # Unset /\ i.flag = "true")
    BY <1>5, <1>7, <2>8, <2>10
  <2> QED BY <1>5, <1>7, <2>9, <2>10
<1> QED BY <1>6, <1>7

\* Type correctness; an edit leaves no explicit false behind.
THEOREM CoursesStayCorrect == Editing => []CourseOK
<1>1. InitCourse => EditInv
  BY InitEdits
<1>2. EditInv /\ [EditCourse]_courseVars => EditInv'
  BY EditsKeep
<1>3. EditInv => CourseOK
  BY DEF EditInv
<1> QED BY <1>1, <1>2, <1>3, PTL DEF Editing

\* What is resolved is what was written: the nearest ancestor that mentions a
\* field decides it, a draft has its effect, and what lint finds nothing in
\* resolves, whatever the names and the chains, and after every edit.
THEOREM ResolutionIsWhatIsWritten == Editing => []ResolvesAsWritten
<1>1. InitCourse => EditInv
  BY InitEdits
<1>2. EditInv /\ [EditCourse]_courseVars => EditInv'
  BY EditsKeep
<1>3. EditInv => ResolvesAsWritten
  <2> SUFFICES ASSUME EditInv PROVE ResolvesAsWritten
    OBVIOUS
  <2>1. course \in Courses
    BY DEF EditInv, CourseOK, Courses
  <2> QED BY <2>1, WrittenWins, DraftsTakeEffect, LintedResolves DEF ResolvesAsWritten
<1> QED BY <1>1, <1>2, <1>3, PTL DEF Editing

----------------------------------------------------------------------------
(* Chains that look alike resolve to the same *)

\* What is above n in c is found in d, each under the name that h gives it.
Mirrored(c, n, d, h) ==
  \A k \in Above(c, n) :
    /\ Has(d, h[k]) /\ \A f \in Fields : d[h[k]][f] = c[k][f]
    /\ c[k].extends = Unset <=> d[h[k]].extends = Unset
    /\ Parents(d, h[k]) = {h[j] : j \in Parents(c, k)}
    /\ \A j \in Above(c, n) : h[j] = h[k] => j = k

LEMMA MirroredAbove ==
  ASSUME NEW c \in Courses, NEW d \in Courses, NEW n \in Keys, NEW h \in [Keys -> Keys],
         Mirrored(c, n, d, h), NEW k \in Above(c, n)
  PROVE  Above(d, h[k]) = {h[j] : j \in Above(c, k)}
<1> DEFINE Image == {h[j] : j \in Above(c, k)}
           T == {j \in Above(c, k) : h[j] \in Above(d, h[k])}
<1>1. k \in Keys /\ Above(c, k) \subseteq Above(c, n) /\ Above(c, k) \in SUBSET Keys /\ k \in Above(c, k)
  BY AboveIsClosed, AboveIsAbove
<1>2. \A j \in Above(c, k) : Parents(d, h[j]) = {h[i] : i \in Parents(c, j)} /\ Parents(c, j) \subseteq Above(c, k)
  BY <1>1, AboveIsClosed DEF Mirrored
<1>3. Above(d, h[k]) \subseteq Image
  <2>1. Image \in SUBSET Keys /\ h[k] \in Image
    BY <1>1
  <2>2. \A x \in Image : Parents(d, x) \subseteq Image
    BY <1>2
  <2> HIDE DEF Image
  <2> QED BY <2>1, <2>2, AboveIsLeast
<1>4. Image \subseteq Above(d, h[k])
  <2>1. h[k] \in Keys
    BY <1>1
  <2>2. T \in SUBSET Keys /\ k \in T
    BY <1>1, <2>1, AboveIsClosed
  <2>3. ASSUME NEW j \in T, NEW i \in Parents(c, j) PROVE i \in T
    <3>1. h[i] \in Parents(d, h[j]) /\ i \in Above(c, k)
      BY <1>2
    <3> QED BY <2>1, <3>1, AboveIsClosed
  <2> HIDE DEF T
  <2>4. Above(c, k) \subseteq T
    BY <2>2, <2>3, AboveIsLeast
  <2> QED BY <2>4 DEF T
<1> QED BY <1>3, <1>4

LEMMA MirroredEnds ==
  ASSUME NEW c \in Courses, ~Clash(c), NEW d \in Courses, NEW n \in Keys, Has(c, n), NEW h \in [Keys -> Keys],
         Mirrored(c, n, d, h), ChainEnds(c, n)
  PROVE  ChainEnds(d, h[n])
<1>1. n \in Above(c, n)
  BY AboveIsClosed
<1>2. Above(d, h[n]) = {h[k] : k \in Above(c, n)}
  BY <1>1, MirroredAbove
<1>3. ASSUME NEW k \in Above(c, n) PROVE ~Dangling(d, h[k]) /\ ~OnCycle(d, h[k])
  <2>1. k \in Keys /\ ~Dangling(c, k) /\ ~OnCycle(c, k)
    BY AboveIsClosed DEF ChainEnds
  <2>2. /\ Has(d, h[k]) /\ (c[k].extends = Unset <=> d[h[k]].extends = Unset)
        /\ Parents(d, h[k]) = {h[j] : j \in Parents(c, k)}
        /\ \A j \in Above(c, n) : h[j] = h[k] => j = k
    BY DEF Mirrored
  <2>3. ASSUME Dangling(d, h[k]) PROVE FALSE
    <3>1. c[k].extends # Unset /\ Parents(c, k) = {}
      BY <2>2, <2>3 DEF Dangling
    <3>2. Has(c, k)
      BY AllAboveAreThere
    <3> QED BY <2>1, <3>1, <3>2 DEF Dangling
  <2>4. ASSUME OnCycle(d, h[k]) PROVE FALSE
    <3>1. PICK j \in Parents(c, k) : h[k] \in Above(d, h[j])
      BY <2>2, <2>4 DEF OnCycle
    <3>2. j \in Above(c, n)
      BY AboveIsClosed
    <3>3. Above(d, h[j]) = {h[i] : i \in Above(c, j)}
      BY <3>2, MirroredAbove
    <3>4. PICK i \in Above(c, j) : h[i] = h[k]
      BY <3>1, <3>3
    <3>5. i \in Above(c, n)
      BY <3>2, AboveIsAbove
    <3>6. k \in Above(c, j)
      BY <2>2, <3>4, <3>5
    <3> QED BY <2>1, <3>1, <3>6 DEF OnCycle
  <2> QED BY <2>3, <2>4
<1> QED BY <1>2, <1>3 DEF ChainEnds

LEMMA MirroredIsWritten ==
  ASSUME NEW c \in Courses, ~Clash(c), NEW d \in Courses, NEW n \in Keys, Has(c, n), NEW h \in [Keys -> Keys],
         Mirrored(c, n, d, h), ChainEnds(c, n)
  PROVE  ChainEnds(d, h[n]) /\ AsWritten(d, h[n]) = AsWritten(c, n)
<1>1. ChainEnds(d, h[n]) /\ HasNearest(c, n) /\ n \in Above(c, n)
  BY MirroredEnds, MergedIsWritten, AboveIsClosed
<1>2. Above(d, h[n]) = {h[k] : k \in Above(c, n)}
  BY <1>1, MirroredAbove
<1>3. ASSUME NEW f \in Fields PROVE AsWritten(d, h[n])[f] = AsWritten(c, n)[f]
  <2>1. \A k \in Above(c, n) : d[h[k]][f] = c[k][f]
    BY DEF Mirrored
  <2>2. Mentions(d, h[n], f) = {h[k] : k \in Mentions(c, n, f)}
    BY <1>2, <2>1 DEF Mentions
  <2>3. CASE Mentions(c, n, f) = {}
    BY <2>2, <2>3 DEF AsWritten
  <2>4. CASE Mentions(c, n, f) # {}
    <3>1. PICK k \in Mentions(c, n, f) : Mentions(c, n, f) \subseteq Above(c, k)
      BY <1>1, <2>4 DEF HasNearest
    <3>2. k \in Above(c, n)
      BY DEF Mentions
    <3>3. Above(d, h[k]) = {h[j] : j \in Above(c, k)}
      BY <3>2, MirroredAbove
    <3>4. h[k] \in Mentions(d, h[n], f) /\ Mentions(d, h[n], f) \subseteq Above(d, h[k])
      BY <2>2, <3>1, <3>3
    <3>5. Nearest(c, n, f) = k
      BY <3>1, NearestIs
    <3>6. Nearest(d, h[n], f) = h[k]
      BY <1>1, <3>4, NearestIs
    <3> QED BY <2>1, <2>4, <3>2, <3>4, <3>5, <3>6 DEF AsWritten
  <2> QED BY <2>3, <2>4
<1>4. /\ AsWritten(d, h[n]) = [f \in Fields |-> AsWritten(d, h[n])[f]]
      /\ AsWritten(c, n) = [f \in Fields |-> AsWritten(c, n)[f]]
  BY DEF AsWritten
<1> QED BY <1>1, <1>3, <1>4

\* Two assignments resolve to the same, if each mirrors the other when its chain ends.
LEMMA SameResult ==
  ASSUME NEW c \in Courses, ~Clash(c), NEW n \in Keys, Has(c, n),
         NEW d \in Courses, ~Clash(d), NEW m \in Keys, Has(d, m), d[m].abstract <=> c[n].abstract,
         ChainEnds(c, n) <=> ChainEnds(d, m),
         ChainEnds(c, n) => AsWritten(d, m) = AsWritten(c, n)
  PROVE  ResolveAssignment(d, m) = ResolveAssignment(c, n)
<1>1. CASE ~c[n].abstract /\ ChainEnds(c, n)
  <2>1. ResolveAssignment(c, n) = {Build(AsWritten(c, n))}
    BY <1>1, ResolvedIsWritten
  <2>2. ResolveAssignment(d, m) = {Build(AsWritten(d, m))}
    BY <1>1, ResolvedIsWritten
  <2> QED BY <1>1, <2>1, <2>2
<1>2. CASE c[n].abstract \/ ~ChainEnds(c, n)
  <2>1. ResolveAssignment(c, n) = {Error}
    BY <1>2, ResolvedIsWritten
  <2>2. ResolveAssignment(d, m) = {Error}
    BY <1>2, ResolvedIsWritten
  <2> QED BY <2>1, <2>2
<1> QED BY <1>1, <1>2

\* Nothing changes for an assignment if neither before nor after it is above it
\* what has changed.
LEMMA TheRestIsWritten ==
  ASSUME NEW c \in Courses, ~Clash(c), NEW d \in Courses, ~Clash(d), NEW x \in Keys,
         \A k \in Keys \ {x} : /\ Has(d, k) <=> Has(c, k)
                               /\ Has(c, k) => /\ d[k].extends = c[k].extends
                                               /\ \A f \in Fields : d[k][f] = c[k][f],
         NEW m \in Keys, Has(c, m), x \notin Above(c, m), x \notin Above(d, m)
  PROVE  /\ Above(d, m) = Above(c, m) /\ (ChainEnds(c, m) <=> ChainEnds(d, m))
         /\ ChainEnds(c, m) => AsWritten(d, m) = AsWritten(c, m)
<1> DEFINE T == Above(c, m) \cap Above(d, m)
           same == [k \in Keys |-> k]
<1>1. \A k \in Above(c, m) : k \in Keys \ {x} /\ Has(c, k) /\ Parents(c, k) \subseteq Above(c, m)
  BY AllAboveAreThere, AboveIsClosed
<1>2. \A k \in Above(d, m) : k \in Keys \ {x} /\ Has(d, k) /\ Parents(d, k) \subseteq Above(d, m)
  <2>1. Has(d, m)
    BY <1>1, AboveIsClosed
  <2> QED BY <2>1, AllAboveAreThere, AboveIsClosed
<1>3. ASSUME NEW k \in T PROVE Parents(c, k) = Parents(d, k)
  <2>1. k \in Keys \ {x} /\ Has(c, k) /\ Has(d, k) /\ x \notin Parents(c, k) /\ x \notin Parents(d, k)
    BY <1>1, <1>2
  <2>2. d[k].extends = c[k].extends
    BY <2>1
  <2>3. \A p \in Keys \ {x} : p \in Parents(c, k) <=> p \in Parents(d, k)
    BY <2>1, <2>2 DEF Parents, LookupAssignment
  <2>4. Parents(c, k) \subseteq Keys /\ Parents(d, k) \subseteq Keys
    BY DEF Parents, LookupAssignment
  <2> QED BY <2>1, <2>3, <2>4
<1>4. T \in SUBSET Keys /\ m \in T /\ \A k \in T : Parents(c, k) \subseteq T /\ Parents(d, k) \subseteq T
  BY <1>1, <1>2, <1>3, AboveIsClosed
<1>5. Above(c, m) = T /\ Above(d, m) = T
  <2> HIDE DEF T
  <2>1. Above(c, m) \subseteq T /\ Above(d, m) \subseteq T
    BY <1>4, AboveIsLeast
  <2> QED BY <2>1 DEF T
<1>6. same \in [Keys -> Keys] /\ \A k \in Keys : same[k] = k
  OBVIOUS
<1> HIDE DEF T, same
<1>7. \A k \in T : {same[j] : j \in Parents(c, k)} = Parents(c, k)
  BY <1>4, <1>6
<1>8. Mirrored(c, m, d, same) /\ Mirrored(d, m, c, same)
  BY <1>1, <1>2, <1>3, <1>5, <1>6, <1>7 DEF Mirrored
<1>9. Has(c, m) /\ Has(d, m)
  BY <1>2, <1>4, <1>5
<1> QED BY <1>5, <1>6, <1>8, <1>9, MirroredIsWritten

----------------------------------------------------------------------------
(* What an edit keeps *)

\* An assignment is found again under a name, encoded, with the same parent or another.
KeptAs(c, k, d, j) ==
  /\ Has(d, j) /\ (d[j].abstract <=> c[k].abstract)
  /\ c[k].flag # "false" => \A f \in Fields : d[j][f] = c[k][f]
SameKey(c, k, d, j) == KeptAs(c, k, d, j) /\ d[j].extends = c[k].extends

\* All but one are found again, as they were.
AllBut(c, d, x) ==
  \A k \in Keys \ {x} : (Has(d, k) <=> Has(c, k)) /\ (Has(c, k) => SameKey(c, k, d, k))

LEMMA EncodedIsKept ==
  ASSUME NEW c \in Courses, NEW d, d = EncodeAssignments(c)
  PROVE  \A k \in Keys : (Has(d, k) <=> Has(c, k)) /\ (Has(c, k) => SameKey(c, k, d, k))
<1> SUFFICES ASSUME NEW k \in Keys PROVE (Has(d, k) <=> Has(c, k)) /\ (Has(c, k) => SameKey(c, k, d, k))
  OBVIOUS
<1>1. Has(d, k) <=> Has(c, k)
  BY Encodes
<1>2. ASSUME Has(c, k) PROVE SameKey(c, k, d, k)
  <2>1. d[k] = [c[k] EXCEPT !.flag = IF @ = "true" THEN @ ELSE Unset] /\ c[k] \in Own
    BY <1>2, Encodes, OwnKeys
  <2>2. /\ d[k].extends = c[k].extends /\ d[k].url = c[k].url /\ d[k].tag = c[k].tag
        /\ d[k].abstract = c[k].abstract /\ (c[k].flag # "false" => d[k].flag = c[k].flag)
    BY <2>1 DEF Own
  <2> QED BY <1>1, <1>2, <2>2 DEF SameKey, KeptAs, Fields
<1> QED BY <1>1, <1>2

LEMMA OneIsEdited ==
  ASSUME EditInv, NEW n \in Keys,
         \/ \E d \in Drafts : SetAssignment(n, d)
         \/ \E b \in Bodies : ImportAssignmentYAML(n, b)
         \/ DeleteAssignment(n)
  PROVE  /\ course \in Courses /\ course' \in Courses /\ AllBut(course, course', n)
         /\ last'.name = n /\ last'.op \in {"set", "import", "delete"}
         /\ Has(course', n) => course'[n].abstract \/ \E r \in ResolveAssignment(course', n) : r # Error
<1>1. course \in Courses
  BY DEF EditInv, CourseOK, Courses
<1>2. ASSUME NEW c \in Courses, course' = EncodeAssignments(c), \A k \in Keys \ {n} : c[k] = course[k]
      PROVE  /\ course' \in Courses /\ AllBut(course, course', n)
             /\ Has(course', n) <=> Has(c, n)
             /\ Has(c, n) /\ Valid(c, n) => course'[n].abstract \/ \E r \in ResolveAssignment(course', n) : r # Error
  <2>1. course' \in Courses
    BY <1>2, Encodes
  <2> DEFINE d == course'
  <2>2. \A k \in Keys : (Has(d, k) <=> Has(c, k)) /\ (Has(c, k) => SameKey(c, k, d, k))
    BY <1>2, EncodedIsKept
  <2> HIDE DEF d
  <2>3. AllBut(course, d, n)
    BY <1>2, <2>2 DEF AllBut, SameKey, KeptAs, Has
  <2>4. Has(c, n) /\ Valid(c, n) => d[n].abstract \/ \E r \in ResolveAssignment(d, n) : r # Error
    BY <1>2, <2>2 DEF Valid, SameKey, KeptAs, d
  <2> QED BY <2>1, <2>2, <2>3, <2>4 DEF d
<1>3. ASSUME NEW d \in Drafts, SetAssignment(n, d)
      PROVE  /\ course' \in Courses /\ AllBut(course, course', n) /\ last'.name = n /\ last'.op = "set"
             /\ Has(course', n) => course'[n].abstract \/ \E r \in ResolveAssignment(course', n) : r # Error
  <2> DEFINE c == Drafted(n, d)
  <2>1. Valid(c, n) /\ course' = EncodeAssignments(c) /\ last' = [op |-> "set", name |-> n, draft |-> d]
    BY <1>3 DEF SetAssignment, Drafted, SaveCourseSource
  <2>2. c \in Courses /\ Has(c, n) /\ \A k \in Keys \ {n} : c[k] = course[k]
    BY <1>1, DraftedIsACourse
  <2> HIDE DEF c
  <2> QED BY <1>2, <2>1, <2>2
<1>4. ASSUME NEW b \in Bodies, ImportAssignmentYAML(n, b)
      PROVE  /\ course' \in Courses /\ AllBut(course, course', n) /\ last'.name = n /\ last'.op = "import"
             /\ Has(course', n) => course'[n].abstract \/ \E r \in ResolveAssignment(course', n) : r # Error
  <2> DEFINE c == [course EXCEPT ![n] = b]
  <2>1. Valid(c, n) /\ course' = EncodeAssignments(c) /\ last' = [op |-> "import", name |-> n]
    BY <1>4 DEF ImportAssignmentYAML, SaveCourseSource
  <2>2. c \in Courses /\ Has(c, n) /\ \A k \in Keys \ {n} : c[k] = course[k]
    BY <1>1, AssignmentsAssumption DEF Courses, Has
  <2> HIDE DEF c
  <2> QED BY <1>2, <2>1, <2>2
<1>5. ASSUME DeleteAssignment(n)
      PROVE  /\ course' \in Courses /\ AllBut(course, course', n) /\ last'.name = n /\ last'.op = "delete"
             /\ ~Has(course', n)
  <2> DEFINE c == [course EXCEPT ![n] = Unset]
  <2>1. course' = EncodeAssignments(c) /\ last' = [op |-> "delete", name |-> n]
    BY <1>5 DEF DeleteAssignment, SaveCourseSource
  <2>2. c \in Courses /\ ~Has(c, n) /\ \A k \in Keys \ {n} : c[k] = course[k]
    BY <1>1 DEF Courses, Has
  <2> HIDE DEF c
  <2> QED BY <1>2, <2>1, <2>2
<1> QED BY <1>1, <1>3, <1>4, <1>5

LEMMA OneIsCopied ==
  ASSUME EditInv, NEW from \in Keys, NEW n \in Keys, CopyAssignment(from, n)
  PROVE  /\ course \in Courses /\ course' \in Courses /\ AllBut(course, course', n)
         /\ Has(course, from) /\ ~Has(course, n) /\ SameKey(course, from, course', n)
         /\ last'.op = "copy" /\ last'.name = n /\ last'.from = from
<1>1. course \in Courses
  BY DEF EditInv, CourseOK, Courses
<1> DEFINE c == [course EXCEPT ![n] = course[from]]
           d == course'
<1>2. d = EncodeAssignments(c) /\ last' = [op |-> "copy", from |-> from, name |-> n]
      /\ Has(course, from) /\ ~Has(course, n)
  BY DEF CopyAssignment, SaveCourseSource
<1>3. c \in Courses /\ Has(c, n) /\ c[n] = course[from] /\ \A k \in Keys \ {n} : c[k] = course[k]
  BY <1>1, <1>2 DEF Courses, Has
<1> HIDE DEF c
<1>4. course' \in Courses
  BY <1>2, <1>3, Encodes
<1>5. \A k \in Keys : (Has(d, k) <=> Has(c, k)) /\ (Has(c, k) => SameKey(c, k, d, k))
  BY <1>2, <1>3, EncodedIsKept
<1> HIDE DEF d
<1>6. AllBut(course, d, n)
  BY <1>3, <1>5 DEF AllBut, SameKey, KeptAs, Has
<1>7. SameKey(course, from, d, n)
  BY <1>3, <1>5 DEF SameKey, KeptAs
<1> QED BY <1>1, <1>2, <1>4, <1>6, <1>7 DEF d

\* A name has become another, also where it was the parent.
Turned(c, d, old, new) ==
  /\ Has(c, old) /\ ~Has(c, new) /\ ~Has(d, old) /\ old # new /\ SameKey(c, old, d, new)
  /\ \A k \in Keys \ {old, new} :
       /\ Has(d, k) <=> Has(c, k)
       /\ Has(c, k) => /\ KeptAs(c, k, d, k)
                       /\ d[k].extends = IF c[k].extends = old THEN new ELSE c[k].extends

LEMMA OneIsRenamed ==
  ASSUME EditInv, NEW old \in Keys, NEW new \in Keys, RenameAssignment(old, new)
  PROVE  /\ course \in Courses /\ course' \in Courses /\ Turned(course, course', old, new)
         /\ last'.op = "rename" /\ last'.name = new /\ last'.from = old
<1>1. course \in Courses
  BY DEF EditInv, CourseOK, Courses
<1> DEFINE c == Renamed(old, new)
           d == course'
<1>2. d = EncodeAssignments(c) /\ last' = [op |-> "rename", from |-> old, name |-> new]
      /\ Has(course, old) /\ ~Has(course, new)
  BY DEF RenameAssignment, Renamed, SaveCourseSource
<1>3. /\ c \in Courses /\ old # new /\ c[new] = course[old] /\ c[old] = Unset
      /\ \A n \in Keys \ {old, new} :
           c[n] = IF Has(course, n) /\ course[n].extends = old THEN [course[n] EXCEPT !.extends = new] ELSE course[n]
  BY <1>1, <1>2, RenamedIsACourse
<1> HIDE DEF c
<1>4. course' \in Courses
  BY <1>2, <1>3, Encodes
<1>5. \A k \in Keys : (Has(d, k) <=> Has(c, k)) /\ (Has(c, k) => SameKey(c, k, d, k))
  BY <1>2, <1>3, EncodedIsKept
<1> HIDE DEF d
<1>6. SameKey(course, old, d, new) /\ ~Has(d, old)
  BY <1>2, <1>3, <1>5 DEF SameKey, KeptAs, Has
<1>7. ASSUME NEW k \in Keys \ {old, new}
      PROVE  /\ Has(d, k) <=> Has(course, k)
             /\ Has(course, k) => /\ KeptAs(course, k, d, k)
                                  /\ d[k].extends = IF course[k].extends = old THEN new ELSE course[k].extends
  <2>1. /\ Has(c, k) <=> Has(course, k)
        /\ Has(course, k) => /\ c[k].abstract = course[k].abstract /\ c[k].flag = course[k].flag
                             /\ c[k].url = course[k].url /\ c[k].tag = course[k].tag
                             /\ c[k].extends = IF course[k].extends = old THEN new ELSE course[k].extends
    <3>1. CASE Has(course, k) /\ course[k].extends = old
      <4>1. c[k] = [course[k] EXCEPT !.extends = new] /\ course[k] \in Own
        BY <1>1, <1>3, <3>1, OwnKeys
      <4>2. c[k] \in Own
        BY <4>1, AssignmentsAssumption DEF Own
      <4>3. Has(c, k)
        BY <1>3, <4>2, OwnKeys
      <4> QED BY <3>1, <4>1, <4>3 DEF Own
    <3>2. CASE ~(Has(course, k) /\ course[k].extends = old)
      BY <1>3, <3>2 DEF Has
    <3> QED BY <3>1, <3>2
  <2> QED BY <1>5, <2>1 DEF SameKey, KeptAs, Fields
<1> QED BY <1>1, <1>2, <1>3, <1>4, <1>6, <1>7 DEF Turned, d

----------------------------------------------------------------------------
(* The rest keeps its meaning *)

LEMMA RestResolves ==
  ASSUME NEW c \in Courses, Clear(c), NEW d \in Courses, ~Clash(d), NEW x \in Keys, AllBut(c, d, x),
         NEW m \in Keys \ {x}, Has(c, m), x \notin Above(c, m), x \notin Above(d, m)
  PROVE  ResolveAssignment(d, m) = ResolveAssignment(c, m)
<1>1. \A k \in Keys \ {x} : /\ Has(d, k) <=> Has(c, k)
                            /\ Has(c, k) => /\ d[k].extends = c[k].extends /\ (d[k].abstract <=> c[k].abstract)
                                            /\ \A f \in Fields : d[k][f] = c[k][f]
  BY DEF AllBut, SameKey, KeptAs, Clear, SaysFalse
<1>2. (ChainEnds(c, m) <=> ChainEnds(d, m)) /\ (ChainEnds(c, m) => AsWritten(d, m) = AsWritten(c, m))
  BY <1>1, TheRestIsWritten DEF Clear
<1> QED BY <1>1, <1>2, SameResult DEF Clear

\* A name nobody waited for is the parent of nobody, once it is there.
LEMMA NobodyBelow ==
  ASSUME NEW c \in Courses, NEW d \in Courses, ~Clash(d), NEW x \in Keys, ~Has(c, x), Has(d, x),
         AllBut(c, d, x), NobodyWaitsFor(c, x), NEW k \in Keys, Has(c, k), c[k].extends # Unset
  PROVE  Fold[c[k].extends] # Fold[x]
<1> SUFFICES ASSUME Fold[c[k].extends] = Fold[x] PROVE FALSE
  OBVIOUS
<1>1. \A p \in Keys : Has(c, p) => Fold[p] # Fold[x]
  BY DEF AllBut, Clash
<1>2. Parents(c, k) = {}
  BY <1>1 DEF Parents, LookupAssignment
<1> QED BY <1>2 DEF NobodyWaitsFor, Dangling

LEMMA CopyIsBelowNobody ==
  ASSUME NEW c \in Courses, NEW d \in Courses, ~Clash(d), NEW x \in Keys, ~Has(c, x), Has(d, x),
         AllBut(c, d, x), NobodyWaitsFor(c, x), NEW from \in Keys, Has(c, from), SameKey(c, from, d, x)
  PROVE  /\ \A k \in Keys : x \notin Parents(c, k) /\ x \notin Parents(d, k)
         /\ \A k \in Keys \ {x} : /\ Parents(d, k) = Parents(c, k)
                                  /\ x \notin Above(c, k) /\ x \notin Above(d, k)
         /\ Parents(d, x) = Parents(c, from)
<1> DEFINE S == Keys \ {x}
<1>1. \A k \in Keys : Has(c, k) /\ c[k].extends # Unset => Fold[c[k].extends] # Fold[x]
  BY NobodyBelow
<1>2. \A k \in S : (Has(d, k) <=> Has(c, k)) /\ (Has(c, k) => d[k].extends = c[k].extends)
  BY DEF AllBut, SameKey
<1>3. \A f : f # Fold[x] => LookupAssignment(d, f) = LookupAssignment(c, f)
  BY <1>2 DEF LookupAssignment
<1>4. d[x].extends = c[from].extends
  BY DEF SameKey
<1>5. \A k \in S : Parents(d, k) = Parents(c, k)
  BY <1>1, <1>2, <1>3 DEF Parents
<1>6. Parents(d, x) = Parents(c, from)
  BY <1>1, <1>3, <1>4 DEF Parents
<1>7. \A k \in Keys : x \notin Parents(c, k)
  BY DEF Parents, LookupAssignment
<1>8. \A k \in Keys : x \notin Parents(d, k)
  BY <1>5, <1>6, <1>7
<1>9. \A k \in S : Parents(c, k) \subseteq S /\ Parents(d, k) \subseteq S
  BY <1>7, <1>8 DEF Parents, LookupAssignment
<1>10. \A k \in S : Above(c, k) \subseteq S /\ Above(d, k) \subseteq S
  BY <1>9, AboveIsLeast
<1> QED BY <1>5, <1>6, <1>7, <1>8, <1>10

LEMMA CopyResolves ==
  ASSUME NEW c \in Courses, Clear(c), NEW d \in Courses, ~Clash(d), NEW x \in Keys, ~Has(c, x), Has(d, x),
         AllBut(c, d, x), NobodyWaitsFor(c, x), NEW from \in Keys, Has(c, from), SameKey(c, from, d, x)
  PROVE  ResolveAssignment(d, x) = ResolveAssignment(c, from)
<1>1. /\ \A k \in Keys \ {x} : x \notin Above(c, k) /\ x \notin Above(d, k)
      /\ Parents(d, x) = Parents(c, from) /\ x \notin Parents(d, x)
  BY CopyIsBelowNobody
<1>2. /\ d[x].extends = c[from].extends /\ (d[x].abstract <=> c[from].abstract)
      /\ \A f \in Fields : d[x][f] = c[from][f]
  BY DEF SameKey, KeptAs, Clear, SaysFalse
<1>3. (ChainEnds(c, from) <=> ChainEnds(d, x)) /\ (ChainEnds(c, from) => AsWritten(d, x) = AsWritten(c, from))
  <2>1. CASE c[from].extends = Unset
    <3>1. [g \in Fields |-> d[x][g]] = [g \in Fields |-> c[from][g]]
      BY <1>2
    <3> QED BY <1>2, <2>1, <3>1, FirstOfAChain
  <2>2. CASE c[from].extends # Unset /\ Parents(c, from) = {}
    <3>1. Dangling(c, from) /\ Dangling(d, x)
      BY <1>1, <1>2, <2>2 DEF Dangling
    <3> QED BY <3>1, AboveIsClosed DEF ChainEnds
  <2>3. ASSUME NEW p \in Parents(c, from)
        PROVE  (ChainEnds(c, from) <=> ChainEnds(d, x)) /\ (ChainEnds(c, from) => AsWritten(d, x) = AsWritten(c, from))
    <3>1. p \in Keys \ {x} /\ Has(c, p) /\ p \in Parents(d, x)
      BY <1>1, OneParent DEF Clear
    <3>2. /\ ChainEnds(c, p) <=> ChainEnds(d, p)
          /\ ChainEnds(c, p) => AsWritten(d, p) = AsWritten(c, p)
      <4>1. \A k \in Keys \ {x} : /\ Has(d, k) <=> Has(c, k)
                                  /\ Has(c, k) => d[k].extends = c[k].extends /\ \A f \in Fields : d[k][f] = c[k][f]
        BY DEF AllBut, SameKey, KeptAs, Clear, SaysFalse
      <4> QED BY <1>1, <3>1, <4>1, TheRestIsWritten DEF Clear
    <3>3. ChainEnds(d, x) <=> ChainEnds(d, p)
      BY <1>1, <3>1, ChainGoesOn
    <3>4. ChainEnds(c, from) <=> ChainEnds(c, p)
      <4>1. ASSUME ChainEnds(c, p), OnCycle(c, from) PROVE FALSE
        <5>1. from \in Above(c, p)
          BY <4>1, ChainGoesOn DEF Clear
        <5> QED BY <4>1, <5>1 DEF ChainEnds
      <4> QED BY <4>1, ChainGoesOn DEF Clear
    <3>5. ASSUME ChainEnds(c, from) PROVE AsWritten(d, x) = AsWritten(c, from)
      <4>1. HasNearest(c, p) /\ HasNearest(d, p)
        <5>1. Has(d, p)
          BY <3>1, OneParent
        <5> QED BY <3>1, <3>2, <3>4, <3>5, <5>1, MergedIsWritten DEF Clear
      <4>2. AsWritten(c, from) = DeepMerge(AsWritten(c, p), c[from])
        BY <3>5, <4>1, WrittenGoesOn DEF Clear
      <4>3. AsWritten(d, x) = DeepMerge(AsWritten(d, p), d[x])
        BY <3>1, <3>2, <3>3, <3>4, <3>5, <4>1, WrittenGoesOn
      <4>4. DeepMerge(AsWritten(d, p), d[x]) = DeepMerge(AsWritten(c, p), c[from])
        BY <1>2, <3>2, <3>4, <3>5 DEF DeepMerge
      <4> QED BY <4>2, <4>3, <4>4
    <3> QED BY <3>2, <3>3, <3>4, <3>5
  <2> QED BY <2>1, <2>2, <2>3
<1> QED BY <1>2, <1>3, SameResult DEF Clear

\* Where a name has become another, it has with all who had it as their parent.  An
\* assignment that was its own parent is that no more, but its chain does not end.
Renames(h, old, new) == h \in [Keys -> Keys] /\ \A j \in Keys : h[j] = IF j = old THEN new ELSE j
Through(h, S) == {h[j] : j \in S}

LEMMA TurnedParents ==
  ASSUME NEW c \in Courses, ~Clash(c), NEW d \in Courses, ~Clash(d), NEW old \in Keys, NEW new \in Keys,
         Turned(c, d, old, new), SpelledAsIs(c, old), NobodyWaitsFor(c, new),
         NEW k \in Keys, Has(c, k), k = old => old \notin Parents(c, old),
         NEW h, Renames(h, old, new)
  PROVE  Parents(d, h[k]) = Through(h, Parents(c, k))
<1>0. h \in [Keys -> Keys] /\ \A j \in Keys : h[j] = IF j = old THEN new ELSE j
  BY DEF Renames
<1>1. \A p \in Keys \ {old, new} : Has(d, p) <=> Has(c, p)
  BY DEF Turned
<1>2. Has(c, old) /\ ~Has(c, new) /\ ~Has(d, old) /\ Has(d, new) /\ old # new
  BY DEF Turned, SameKey, KeptAs
<1>3. k # new /\ h[k] \in Keys /\ Has(d, h[k])
  BY <1>0, <1>1, <1>2
<1>4. /\ k = old => d[h[k]].extends = c[k].extends
      /\ k # old => d[h[k]].extends = IF c[k].extends = old THEN new ELSE c[k].extends
  BY <1>0, <1>3 DEF Turned, SameKey
<1>5. old # Unset /\ new # Unset
  BY AssignmentsAssumption
<1>6. CASE c[k].extends = Unset
  BY <1>4, <1>5, <1>6 DEF Parents, Through
<1>7. CASE c[k].extends # Unset /\ Fold[c[k].extends] = Fold[old]
  <2>1. c[k].extends = old
    BY <1>7 DEF SpelledAsIs
  <2>2. Parents(c, k) = {old}
    BY <1>2, <1>7 DEF Parents, LookupAssignment, Clash
  <2>3. k # old
    BY <2>2
  <2>4. Parents(d, h[k]) = {new}
    BY <1>2, <1>3, <1>4, <1>5, <2>1, <2>3 DEF Parents, LookupAssignment, Clash
  <2> QED BY <1>0, <2>2, <2>4 DEF Through
<1>8. CASE c[k].extends # Unset /\ Fold[c[k].extends] # Fold[old]
  <2>1. d[h[k]].extends = c[k].extends
    BY <1>4, <1>8
  <2>2. Fold[c[k].extends] # Fold[new]
    <3> SUFFICES ASSUME Fold[c[k].extends] = Fold[new] PROVE FALSE
      OBVIOUS
    <3>1. PICK p \in Parents(c, k) : TRUE
      BY <1>8 DEF NobodyWaitsFor, Dangling
    <3>2. p \in Keys /\ Has(c, p) /\ Fold[p] = Fold[new]
      BY <1>8, <3>1 DEF Parents, LookupAssignment
    <3>3. p # old /\ p # new
      BY <1>2, <1>8, <3>2
    <3> QED BY <1>1, <1>2, <3>2, <3>3 DEF Clash
  <2>3. LookupAssignment(d, Fold[c[k].extends]) = LookupAssignment(c, Fold[c[k].extends])
    BY <1>1, <1>8, <2>2 DEF LookupAssignment
  <2>4. Parents(d, h[k]) = Parents(c, k) /\ old \notin Parents(c, k) /\ Parents(c, k) \subseteq Keys
    BY <1>3, <1>8, <2>1, <2>3 DEF Parents, LookupAssignment
  <2> QED BY <1>0, <2>4 DEF Through
<1> QED BY <1>6, <1>7, <1>8

LEMMA OwnParentTurned ==
  ASSUME NEW c \in Courses, ~Clash(c), NEW d \in Courses, ~Clash(d), NEW old \in Keys, NEW new \in Keys,
         Turned(c, d, old, new), old \in Parents(c, old)
  PROVE  OnCycle(c, old) /\ (Dangling(d, new) \/ OnCycle(d, new))
<1>1. OnCycle(c, old)
  BY AboveIsClosed DEF OnCycle
<1>2. c[old].extends # Unset /\ Fold[c[old].extends] = Fold[old] /\ Has(c, old)
  BY DEF Parents, LookupAssignment
<1>3. Has(d, new) /\ d[new].extends = c[old].extends /\ ~Has(d, old) /\ ~Has(c, new)
  BY DEF Turned, SameKey, KeptAs
<1>4. \A p \in Parents(d, new) : p = new
  BY <1>2, <1>3 DEF Parents, LookupAssignment, Clash, Turned
<1>5. CASE Parents(d, new) = {}
  BY <1>1, <1>2, <1>3, <1>5 DEF Dangling
<1>6. CASE Parents(d, new) # {}
  BY <1>1, <1>4, <1>6, AboveIsClosed DEF OnCycle
<1> QED BY <1>1, <1>5, <1>6

LEMMA RenameResolves ==
  ASSUME NEW c \in Courses, Clear(c), NEW d \in Courses, ~Clash(d), NEW old \in Keys, NEW new \in Keys,
         Turned(c, d, old, new), SpelledAsIs(c, old), NobodyWaitsFor(c, new), NEW n \in Keys, Has(c, n)
  PROVE  ResolveAssignment(d, IF n = old THEN new ELSE n) = ResolveAssignment(c, n)
<1> DEFINE h == [k \in Keys |-> IF k = old THEN new ELSE k]
           g == [k \in Keys |-> IF k = new THEN old ELSE k]
<1>1. /\ h \in [Keys -> Keys] /\ \A j \in Keys : h[j] = IF j = old THEN new ELSE j
      /\ g \in [Keys -> Keys] /\ \A j \in Keys : g[j] = IF j = new THEN old ELSE j
  OBVIOUS
<1>0. Renames(h, old, new)
  BY DEF Renames
<1> HIDE DEF h, g
<1>2. ~Clash(c) /\ ~SaysFalse(c) /\ ~Has(c, new) /\ ~Has(d, old) /\ old # new
  BY DEF Clear, Turned
<1>3. ASSUME NEW k \in Keys, Has(c, k)
      PROVE  /\ h[k] \in Keys /\ g[h[k]] = k
             /\ Has(d, h[k]) /\ (d[h[k]].abstract <=> c[k].abstract)
             /\ \A f \in Fields : d[h[k]][f] = c[k][f]
             /\ c[k].extends = Unset <=> d[h[k]].extends = Unset
  <2>1. k # new /\ c[k].flag # "false" /\ old # Unset /\ new # Unset
    BY <1>2, <1>3, AssignmentsAssumption DEF SaysFalse
  <2>2. CASE k = old
    BY <1>1, <2>1, <2>2 DEF Turned, SameKey, KeptAs
  <2>3. CASE k # old
    <3>1. KeptAs(c, k, d, k) /\ d[k].extends = IF c[k].extends = old THEN new ELSE c[k].extends
      BY <1>3, <2>1, <2>3 DEF Turned
    <3> QED BY <1>1, <2>1, <2>3, <3>1 DEF KeptAs
  <2> QED BY <2>2, <2>3
<1>4. ASSUME NEW k \in Keys, Has(d, k) PROVE Has(c, g[k]) /\ h[g[k]] = k /\ g[k] \in Keys
  BY <1>1, <1>2, <1>4 DEF Turned
<1>5. ASSUME NEW k \in Keys, Has(c, k), k = old => old \notin Parents(c, old)
      PROVE  Parents(d, h[k]) = {h[j] : j \in Parents(c, k)}
  <2>1. Parents(d, h[k]) = Through(h, Parents(c, k))
    BY <1>0, <1>2, <1>5, TurnedParents
  <2> QED BY <2>1 DEF Through
<1>6. ASSUME ChainEnds(c, n) PROVE Mirrored(c, n, d, h)
  <2>1. \A k \in Above(c, n) : k \in Keys /\ Has(c, k) /\ ~OnCycle(c, k)
    BY <1>2, <1>6, AllAboveAreThere DEF ChainEnds
  <2>2. \A k \in Above(c, n) : k = old => old \notin Parents(c, old)
    BY <1>2, <2>1, OwnParentTurned
  <2>3. \A k \in Above(c, n) : Parents(d, h[k]) = {h[j] : j \in Parents(c, k)}
    BY <1>5, <2>1, <2>2
  <2>4. \A k \in Above(c, n), j \in Above(c, n) : h[j] = h[k] => j = k
    BY <1>3, <2>1
  <2> QED BY <1>3, <2>1, <2>3, <2>4 DEF Mirrored
<1>7. ASSUME ChainEnds(d, h[n]) PROVE Mirrored(d, h[n], c, g)
  <2>0. h[n] \in Keys /\ Has(d, h[n])
    BY <1>3
  <2>1. \A k \in Above(d, h[n]) : k \in Keys /\ Has(d, k) /\ ~OnCycle(d, k) /\ ~Dangling(d, k)
    BY <1>7, <2>0, AllAboveAreThere DEF ChainEnds
  <2>2. \A k \in Above(d, h[n]) : k = new => old \notin Parents(c, old)
    BY <1>2, <2>1, OwnParentTurned
  <2>3. ASSUME NEW k \in Above(d, h[n]) PROVE Parents(c, g[k]) = {g[j] : j \in Parents(d, k)}
    <3>1. k \in Keys /\ Has(d, k) /\ Has(c, g[k]) /\ h[g[k]] = k /\ g[k] \in Keys
      BY <1>4, <2>1
    <3>2. g[k] = old => k = new
      BY <1>1, <3>1
    <3>3. Parents(d, k) = {h[j] : j \in Parents(c, g[k])}
      BY <1>5, <2>2, <3>1, <3>2
    <3>4. \A j \in Parents(c, g[k]) : g[h[j]] = j
      BY <1>2, <1>3, <3>1, OneParent
    <3> QED BY <3>3, <3>4
  <2>4. \A k \in Above(d, h[n]), j \in Above(d, h[n]) : g[j] = g[k] => j = k
    BY <1>4, <2>1
  <2>5. \A k \in Above(d, h[n]) :
          /\ Has(c, g[k]) /\ \A f \in Fields : c[g[k]][f] = d[k][f]
          /\ d[k].extends = Unset <=> c[g[k]].extends = Unset
    BY <1>3, <1>4, <2>1
  <2> QED BY <2>3, <2>4, <2>5 DEF Mirrored
<1>8. h[n] \in Keys /\ Has(d, h[n]) /\ (d[h[n]].abstract <=> c[n].abstract) /\ g[h[n]] = n
  BY <1>3
<1>9. ChainEnds(c, n) => ChainEnds(d, h[n]) /\ AsWritten(d, h[n]) = AsWritten(c, n)
  BY <1>1, <1>2, <1>6, MirroredIsWritten
<1>10. ChainEnds(d, h[n]) => ChainEnds(c, n)
  BY <1>1, <1>7, <1>8, MirroredIsWritten
<1>11. ResolveAssignment(d, h[n]) = ResolveAssignment(c, n)
  BY <1>2, <1>8, <1>9, <1>10, SameResult
<1> QED BY <1>1, <1>11

----------------------------------------------------------------------------
(* Circles *)

\* A circle that was there before: every step to a parent was one, by other names.
LEMMA CircleWasThere ==
  ASSUME NEW c \in Courses, NEW d \in Courses, NEW n \in Keys, NEW g \in [Keys -> Keys],
         \A k \in Above(d, n), p \in Keys : p \in Parents(d, k) => g[p] \in Parents(c, g[k]),
         OnCycle(d, n)
  PROVE  OnCycle(c, g[n])
<1>1. PICK p \in Parents(d, n) : n \in Above(d, p)
  BY DEF OnCycle
<1>2. n \in Above(d, n) /\ p \in Keys /\ p \in Above(d, n) /\ Above(d, p) \subseteq Above(d, n)
  BY <1>1, AboveIsClosed, ParentsAreAbove
<1>3. g[p] \in Parents(c, g[n]) /\ g[p] \in Keys /\ g[n] \in Keys
  BY <1>1, <1>2
<1> DEFINE T == {k \in Above(d, p) : g[k] \in Above(c, g[p])}
<1>4. T \in SUBSET Keys /\ p \in T
  BY <1>2, <1>3, AboveIsClosed
<1>5. ASSUME NEW k \in T, NEW q \in Parents(d, k) PROVE q \in T
  <2>1. q \in Keys /\ q \in Above(d, p) /\ k \in Above(d, n)
    BY <1>2, AboveIsClosed
  <2>2. g[q] \in Parents(c, g[k])
    BY <2>1
  <2> QED BY <1>3, <2>1, <2>2, AboveIsClosed
<1> HIDE DEF T
<1>6. Above(d, p) \subseteq T
  BY <1>4, <1>5, AboveIsLeast
<1>7. g[n] \in Above(c, g[p])
  BY <1>1, <1>6 DEF T
<1> QED BY <1>3, <1>7 DEF OnCycle

\* The same, of steps by the same names.
LEMMA SameCircle ==
  ASSUME NEW c \in Courses, NEW d \in Courses, NEW n \in Keys,
         \A k \in Above(d, n) : Parents(d, k) \subseteq Parents(c, k), OnCycle(d, n)
  PROVE  OnCycle(c, n)
<1> DEFINE g == [k \in Keys |-> k]
<1>1. g \in [Keys -> Keys] /\ \A k \in Keys : g[k] = k
  OBVIOUS
<1> HIDE DEF g
<1>2. \A k \in Above(d, n), p \in Keys : p \in Parents(d, k) => g[p] \in Parents(c, g[k])
  BY <1>1, AboveIsClosed
<1>3. OnCycle(c, g[n])
  BY <1>1, <1>2, CircleWasThere
<1> QED BY <1>1, <1>3

\* What an edit has validated is on no circle.
LEMMA EditClosesNone ==
  ASSUME NEW c \in Courses, NEW d \in Courses, ~Clash(d), NEW x \in Keys, AllBut(c, d, x),
         Has(d, x) => d[x].abstract \/ \E r \in ResolveAssignment(d, x) : r # Error,
         NEW n \in Keys, Has(d, n), OnCycle(d, n), \A m \in Above(d, n) : ~d[m].abstract
  PROVE  OnCycle(c, n)
<1>1. \A k \in Above(d, n) : k \in Keys /\ Has(d, k)
  BY AllAboveAreThere
<1>2. x \notin Above(d, n)
  <2> SUFFICES ASSUME x \in Above(d, n) PROVE FALSE
    OBVIOUS
  <2>1. PICK r \in ResolveAssignment(d, x) : r # Error
    BY <1>1
  <2>2. ChainEnds(d, x)
    BY <1>1, <2>1, ResultIsWritten
  <2>3. n \in Above(d, x)
    BY Around
  <2> QED BY <2>2, <2>3 DEF ChainEnds
<1>3. ASSUME NEW k \in Above(d, n) PROVE Parents(d, k) \subseteq Parents(c, k)
  <2>1. \A p \in Parents(d, k) : p \in Keys \ {x} /\ Has(d, p)
    BY <1>1, <1>2, AboveIsClosed, OneParent
  <2>2. k \in Keys \ {x} /\ Has(c, k) /\ d[k].extends = c[k].extends
    BY <1>1, <1>2 DEF AllBut, SameKey
  <2> QED BY <1>1, <2>1, <2>2 DEF Parents, LookupAssignment, AllBut
<1> QED BY <1>3, SameCircle

LEMMA CopyClosesNone ==
  ASSUME NEW c \in Courses, NEW d \in Courses, ~Clash(d), NEW x \in Keys, ~Has(c, x), Has(d, x),
         AllBut(c, d, x), NobodyWaitsFor(c, x), NEW from \in Keys, Has(c, from), SameKey(c, from, d, x),
         NEW n \in Keys, OnCycle(d, n)
  PROVE  OnCycle(c, n)
<1>1. /\ \A k \in Keys : x \notin Parents(d, k)
      /\ \A k \in Keys \ {x} : Parents(d, k) = Parents(c, k) /\ x \notin Above(d, k)
  BY CopyIsBelowNobody
<1>2. n # x
  <2>1. PICK p \in Parents(d, n) : n \in Above(d, p)
    BY DEF OnCycle
  <2>2. p \in Keys \ {x}
    BY <1>1, <2>1, ParentsAreAbove
  <2> QED BY <1>1, <2>1, <2>2
<1>3. \A k \in Above(d, n) : Parents(d, k) \subseteq Parents(c, k)
  <2>1. \A k \in Above(d, n) : k \in Keys \ {x}
    BY <1>1, <1>2, AboveIsClosed
  <2> QED BY <1>1, <2>1
<1> QED BY <1>3, SameCircle

LEMMA RenameClosesNone ==
  ASSUME NEW c \in Courses, NEW d \in Courses, ~Clash(d), NEW old \in Keys, NEW new \in Keys,
         Turned(c, d, old, new), NobodyWaitsFor(c, new), NEW n \in Keys, OnCycle(d, n)
  PROVE  OnCycle(c, IF n = new THEN old ELSE n)
<1> DEFINE g == [k \in Keys |-> IF k = new THEN old ELSE k]
<1>1. g \in [Keys -> Keys] /\ \A j \in Keys : g[j] = IF j = new THEN old ELSE j
  OBVIOUS
<1> HIDE DEF g
<1>2. /\ Has(c, old) /\ ~Has(c, new) /\ ~Has(d, old) /\ Has(d, new) /\ old # new
      /\ d[new].extends = c[old].extends
      /\ \A k \in Keys \ {old, new} : Has(d, k) <=> Has(c, k)
  BY DEF Turned, SameKey, KeptAs
<1>3. \A k \in Keys : Has(d, k) => Has(c, g[k]) /\ g[k] \in Keys
  BY <1>1, <1>2
<1>4. \A k \in Keys \ {old, new} : Has(d, k) =>
        Has(c, k) /\ d[k].extends = IF c[k].extends = old THEN new ELSE c[k].extends
  BY DEF Turned
\* Who looks for the new name found the old one: the names differ in case only.
<1>5. ASSUME NEW k \in Keys, Has(c, k), c[k].extends # Unset, Fold[c[k].extends] = Fold[new]
      PROVE  Fold[old] = Fold[new]
  <2>1. PICK q \in Parents(c, k) : TRUE
    BY <1>5 DEF NobodyWaitsFor, Dangling
  <2>2. q \in Keys /\ Has(c, q) /\ Fold[q] = Fold[new]
    BY <1>5, <2>1 DEF Parents, LookupAssignment
  <2>3. q # new
    BY <1>2, <2>2
  <2>4. q # old => Has(d, q)
    BY <1>2, <2>2, <2>3
  <2> QED BY <1>2, <2>2, <2>3, <2>4 DEF Clash
<1>6. ASSUME NEW k \in Keys, NEW p \in Parents(d, k) PROVE g[p] \in Parents(c, g[k])
  <2>1. /\ p \in Keys /\ Has(d, p) /\ Has(d, k) /\ d[k].extends # Unset /\ Fold[p] = Fold[d[k].extends]
        /\ k # old /\ p # old
    BY <1>2 DEF Parents, LookupAssignment
  <2>2. CASE d[k].extends = c[g[k]].extends
    <3>1. Has(c, g[k]) /\ g[k] \in Keys /\ Has(c, g[p]) /\ g[p] \in Keys
      BY <1>3, <2>1
    <3>2. Fold[g[p]] = Fold[p]
      <4>1. CASE p # new
        BY <1>1, <2>1, <4>1
      <4>2. CASE p = new
        BY <1>1, <1>5, <2>1, <2>2, <3>1, <4>2
      <4> QED BY <4>1, <4>2
    <3> QED BY <2>1, <2>2, <3>1, <3>2 DEF Parents, LookupAssignment
  <2>3. CASE d[k].extends # c[g[k]].extends
    <3>1. k # new /\ k \in Keys \ {old, new} /\ g[k] = k
      BY <1>1, <1>2, <2>1, <2>3
    <3>2. Has(c, k) /\ c[k].extends = old /\ d[k].extends = new
      BY <1>4, <2>1, <2>3, <3>1
    <3>3. p = new
      BY <1>2, <2>1, <3>2 DEF Clash
    <3>4. old # Unset
      BY AssignmentsAssumption
    <3> QED BY <1>1, <1>2, <3>1, <3>2, <3>3, <3>4 DEF Parents, LookupAssignment
  <2> QED BY <2>2, <2>3
<1>7. \A k \in Above(d, n), p \in Keys : p \in Parents(d, k) => g[p] \in Parents(c, g[k])
  BY <1>6, AboveIsClosed
<1>8. OnCycle(c, g[n])
  BY <1>1, <1>7, CircleWasThere
<1> QED BY <1>1, <1>8

----------------------------------------------------------------------------
(* Every edit keeps the rest *)

RestKept == StaysBelow /\ RenameKeepsAll /\ CopyIsTheSame /\ NoNewCycle

LEMMA EditKeepsTheRest ==
  ASSUME EditInv, NEW n \in Keys,
         \/ \E d \in Drafts : SetAssignment(n, d)
         \/ \E b \in Bodies : ImportAssignmentYAML(n, b)
         \/ DeleteAssignment(n)
  PROVE  RestKept
<1>1. /\ course \in Courses /\ course' \in Courses /\ AllBut(course, course', n)
      /\ last'.name = n /\ last'.op \in {"set", "import", "delete"}
      /\ Has(course', n) => course'[n].abstract \/ \E r \in ResolveAssignment(course', n) : r # Error
  BY OneIsEdited
<1> DEFINE d == course'
<1>2. d \in Courses /\ AllBut(course, d, n)
      /\ (Has(d, n) => d[n].abstract \/ \E r \in ResolveAssignment(d, n) : r # Error)
  BY <1>1
<1> HIDE DEF d
<1>3. Clear(course) /\ ~Clash(d) =>
        \A m \in Keys : Has(course, m) /\ m # n =>
          (n \notin Above(course, m) \cup Above(d, m) => ResolveAssignment(d, m) = ResolveAssignment(course, m))
  BY <1>1, <1>2, RestResolves
<1>4. ~Clash(d) =>
        \A m \in Keys : Has(d, m) /\ ~OnCycle(course, m) /\ (\A k \in Above(d, m) : ~d[k].abstract) => ~OnCycle(d, m)
  BY <1>1, <1>2, EditClosesNone
<1>5. StaysBelow
  BY <1>1, <1>3 DEF StaysBelow, d
<1>6. NoNewCycle
  BY <1>1, <1>4 DEF NoNewCycle, d
<1>7. RenameKeepsAll /\ CopyIsTheSame
  BY <1>1 DEF RenameKeepsAll, CopyIsTheSame
<1> QED BY <1>5, <1>6, <1>7 DEF RestKept

LEMMA CopyKeepsTheRest ==
  ASSUME EditInv, NEW from \in Keys, NEW n \in Keys, CopyAssignment(from, n)
  PROVE  RestKept
<1>1. /\ course \in Courses /\ course' \in Courses /\ AllBut(course, course', n)
      /\ Has(course, from) /\ ~Has(course, n) /\ SameKey(course, from, course', n)
      /\ last'.op = "copy" /\ last'.name = n /\ last'.from = from
  BY OneIsCopied
<1> DEFINE d == course'
<1>2. d \in Courses /\ AllBut(course, d, n) /\ SameKey(course, from, d, n) /\ Has(d, n)
  BY <1>1 DEF SameKey, KeptAs
<1> HIDE DEF d
<1>3. ASSUME Clear(course), ~Clash(d), NobodyWaitsFor(course, n), NEW m \in Keys, Has(d, m)
      PROVE  ResolveAssignment(d, m) = ResolveAssignment(course, IF m = n THEN from ELSE m)
  <2>1. CASE m = n
    <3>1. ResolveAssignment(d, n) = ResolveAssignment(course, from)
      BY <1>1, <1>2, <1>3, CopyResolves
    <3> QED BY <2>1, <3>1
  <2>2. CASE m # n
    <3>1. n \notin Above(course, m) /\ n \notin Above(d, m)
      BY <1>1, <1>2, <1>3, <2>2, CopyIsBelowNobody
    <3>2. Has(course, m)
      BY <1>2, <1>3, <2>2 DEF AllBut
    <3> QED BY <1>1, <1>2, <1>3, <2>2, <3>1, <3>2, RestResolves
  <2> QED BY <2>1, <2>2
<1>4. ASSUME ~Clash(d), NobodyWaitsFor(course, n), NEW m \in Keys, OnCycle(d, m) PROVE OnCycle(course, m)
  BY <1>1, <1>2, <1>4, CopyClosesNone
<1>5. CopyIsTheSame
  BY <1>1, <1>3 DEF CopyIsTheSame, d
<1>6. NoNewCycle
  BY <1>1, <1>4 DEF NoNewCycle, d
<1>7. StaysBelow /\ RenameKeepsAll
  BY <1>1 DEF StaysBelow, RenameKeepsAll
<1> QED BY <1>5, <1>6, <1>7 DEF RestKept

LEMMA RenameKeepsTheRest ==
  ASSUME EditInv, NEW old \in Keys, NEW new \in Keys, RenameAssignment(old, new)
  PROVE  RestKept
<1>1. /\ course \in Courses /\ course' \in Courses /\ Turned(course, course', old, new)
      /\ last'.op = "rename" /\ last'.name = new /\ last'.from = old
  BY OneIsRenamed
<1> DEFINE d == course'
<1>2. d \in Courses /\ Turned(course, d, old, new)
  BY <1>1
<1> HIDE DEF d
<1>3. ASSUME Clear(course), ~Clash(d), SpelledAsIs(course, old), NobodyWaitsFor(course, new),
             NEW m \in Keys, Has(course, m)
      PROVE  ResolveAssignment(d, IF m = old THEN new ELSE m) = ResolveAssignment(course, m)
  BY <1>1, <1>2, <1>3, RenameResolves
<1>4. ASSUME ~Clash(d), NobodyWaitsFor(course, new), NEW m \in Keys, OnCycle(d, m)
      PROVE  OnCycle(course, IF m = new THEN old ELSE m)
  BY <1>1, <1>2, <1>4, RenameClosesNone
<1>5. RenameKeepsAll
  BY <1>1, <1>3 DEF RenameKeepsAll, d
<1>6. NoNewCycle
  BY <1>1, <1>4 DEF NoNewCycle, d
<1>7. StaysBelow /\ CopyIsTheSame
  BY <1>1 DEF StaysBelow, CopyIsTheSame
<1> QED BY <1>5, <1>6, <1>7 DEF RestKept

LEMMA AllEditsKeepTheRest ==
  ASSUME EditInv, EditCourse
  PROVE  RestKept
<1>1. ASSUME NEW n \in Keys, NEW d \in Drafts, SetAssignment(n, d) PROVE RestKept
  BY <1>1, EditKeepsTheRest
<1>2. ASSUME NEW n \in Keys, NEW b \in Bodies, ImportAssignmentYAML(n, b) PROVE RestKept
  BY <1>2, EditKeepsTheRest
<1>3. ASSUME NEW n \in Keys, NEW from \in Keys, CopyAssignment(from, n) PROVE RestKept
  BY <1>3, CopyKeepsTheRest
<1>4. ASSUME NEW n \in Keys, NEW from \in Keys, RenameAssignment(from, n) PROVE RestKept
  BY <1>4, RenameKeepsTheRest
<1>5. ASSUME NEW n \in Keys, DeleteAssignment(n) PROVE RestKept
  BY <1>5, EditKeepsTheRest
<1>6. ASSUME NEW c \in Uploads, ImportCourse(c) PROVE RestKept
  <2>1. last'.op = "upload"
    BY <1>6 DEF ImportCourse
  <2> QED BY <2>1 DEF RestKept, StaysBelow, RenameKeepsAll, CopyIsTheSame, NoNewCycle
<1> QED BY <1>1, <1>2, <1>3, <1>4, <1>5, <1>6 DEF EditCourse

\* No edit reaches what does not inherit from the edited assignment, a rename and a
\* copy change no meaning, and no circle is closed.
THEOREM MeaningIsKept == Editing => EditsKeepTheRest
<1>1. InitCourse => EditInv
  BY InitEdits
<1>2. EditInv /\ [EditCourse]_courseVars => EditInv'
  BY EditsKeep
<1>3. EditInv /\ [EditCourse]_courseVars =>
        [StaysBelow /\ RenameKeepsAll /\ CopyIsTheSame /\ NoNewCycle]_courseVars
  BY AllEditsKeepTheRest DEF RestKept
<1> QED BY <1>1, <1>2, <1>3, PTL DEF Editing, EditsKeepTheRest

\* Whatever is edited, every student has one repository.
THEOREM OneRepositoryEverywhere == Editing => []OneRepositoryEach
<1>1. OneRepositoryEach
  BY EachHasItsRepository DEF OneRepositoryEach
<1> QED BY <1>1, PTL
=============================================================================
