----------------------------- MODULE Wizard_proofs -----------------------------
(* What the proof system checks about Wizard. *)
EXTENDS Wizard, FiniteSetTheorems, TLAPS

-----------------------------------------------------------------------------
(* Type correctness, and the checks of names. *)

\* No row the check could have seen has its name: none is inserted under a number that was given out.
Valid(check) ==
    /\ check.rows <= lastRow
    /\ \A r \in rows : r.project = check.project /\ r.name = check.name => check.rows < r.id

\* What a step in a cell is when `asked` requests were made: each test puts "test" before the name once.
Fits(step) == step.name.tests <= asks /\ Valid(step.checked)

\* What the variables of a request are at each of its steps.
Shape(p, q) ==
    /\ p # "idle" => q.cell \in Cells
    /\ q.given.name.tests = 0 /\ Valid(q.given.checked)
    /\ p \in {"check", "set"} /\ q.op \in {"project", "entire"} => q.given.project \in Projects
    /\ p \in {"row", "workload", "service"} =>
        q.project \in Projects /\ q.op \in {"deploy", "test", "stateful"} /\ heap[q.cell].project \in Projects
    /\ p \in {"workload", "service"} => q.row <= lastRow

StepInv ==
    /\ userOf \in Tabs /\ heap \in [Cells -> ConfigServiceStep] /\ cache \in [Users -> 0..First]
    /\ entered \in [Users -> ConfigServiceStep] /\ asks \in 0..MaxAsks
    /\ \A i \in Cells : Fits(heap[i])
    /\ \A u \in Users : entered[u].name.tests <= asks

TableInv ==
    /\ rows \subseteq Row /\ lastRow \in 0..MaxRows
    /\ \A r, s \in rows : r.id = s.id => r = s
    /\ \A r \in rows : r.id <= lastRow /\ Valid(r.checked)

ObjectInv ==
    /\ objects \subseteq Object
    /\ \A o, p \in objects : o.kind = p.kind /\ o.project = p.project /\ o.name = p.name => o = p
    /\ \A o \in objects : o.row <= lastRow

ProcInv ==
    /\ pc \in [Clients -> PCs] /\ req \in [Clients -> Request]
    /\ \A c \in Clients : Shape(pc[c], req[c])

TypeInv == StepInv /\ TableInv /\ ObjectInv /\ ProcInv

-----------------------------------------------------------------------------
(* What a patient user entered is what the user's step has. *)

\* A cell a user's wizard or one of the user's requests points to.
InUse(u, i) ==
    \/ cache[u] = i
    \/ \E c \in Clients : userOf[c] = u /\ pc[c] # "idle" /\ req[c].cell = i

\* Users share no cells, and a cell that was in no use yet is blank.
CellsInv ==
    /\ \A u, v \in Users, i \in Cells : InUse(u, i) /\ InUse(v, i) => u = v
    /\ \A u \in Users, i \in Cells : InUse(u, i) => i <= asks \/ i = First
    /\ \A i \in Cells : asks < i /\ i # First => heap[i] = Blank

Agree(step, asked) ==
    /\ \A f \in {"project", "name", "containers", "inits"} : step[f] = asked[f]
    /\ step.externals \subseteq asked.externals

\* The cached step, and the one a request works on, are what was entered; what is deployed is what
\* was looked up.
EnteredBy(c) ==
    /\ pc[c] # "idle" /\ req[c].op # "entire" => Agree(Step(c), entered[userOf[c]])
    /\ pc[c] \in {"row", "workload", "service"} => req[c].project = Step(c).project
    /\ pc[c] \in {"workload", "service"} => req[c].name = Step(c).name

EnteredOf(u) ==
    /\ cache[u] # 0 => Agree(heap[cache[u]], entered[u])
    /\ \A c \in Clients : userOf[c] = u => EnteredBy(c)

EnteredInv == \A u \in Users : Patient(u) => EnteredOf(u)

\* The row a request inserted.
RowInv ==
    \A c \in Clients : pc[c] \in {"workload", "service"} =>
        \A r \in rows : r.id = req[c].row =>
            r.owner = userOf[c] /\ r.project = req[c].project /\ r.name = req[c].name

WizardInv == CellsInv /\ EnteredInv /\ RowInv /\ EnteredIsDeployed
-----------------------------------------------------------------------------
LEMMA Bounds ==
    /\ MaxAsks \in Nat /\ MaxRows \in Nat \ {0} /\ First = MaxAsks + 1 /\ Cells = 1..First
    /\ First \in Cells /\ \A i \in Cells : i \in Nat /\ i # 0
BY WizardAssumption DEF First, Cells

LEMMA TypeInvTyped == TypeInv => TypeOK
BY DEF TypeInv, TypeOK, StepInv, TableInv, ObjectInv, ProcInv

LEMMA BlankTyped ==
    /\ Blank \in ConfigServiceStep /\ Blank.project = None /\ Blank.name = NoName /\ NoName.tests = 0
    /\ Blank.containers = {} /\ Blank.inits = {} /\ Blank.externals = {}
    /\ Blank.checked.rows = 0 /\ Blank.checked.project = None /\ Blank.checked \in Check
<1>1. NoName \in Name /\ NoName.tests = 0
    BY Bounds DEF NoName, Name
<1>2. (CHOOSE t \in Types \ {"edge", "stateful"} : TRUE) \in Types
    BY WizardAssumption
<1>3. [project |-> None, name |-> NoName, rows |-> 0] \in Check
    BY <1>1, Bounds DEF Check
<1>4. Blank \in ConfigServiceStep
    BY <1>1, <1>2, <1>3 DEF Blank, ConfigServiceStep
<1>. QED  BY <1>1, <1>3, <1>4 DEF Blank

LEMMA NullTyped ==
    /\ NullRequest \in Request /\ NullRequest.op = "deploy" /\ NullRequest.cell = 0
    /\ NullRequest.given = Blank /\ NullRequest.row = 0 /\ NullRequest.project = None
    /\ NullRequest.name = NoName
<1>1. NoName \in Name
    BY Bounds DEF NoName, Name
<1>. QED  BY <1>1, BlankTyped, Bounds DEF NullRequest, Request, Ops

\* What is entered in a phase.
LEMMA GivenTyped ==
    ASSUME NEW phase \in Phases, NEW given \in Given(phase)
    PROVE  /\ given \in ConfigServiceStep /\ given.name.tests = 0 /\ given.checked = Blank.checked
           /\ phase \in {"project", "entire"} => given.project \in Projects
<1>1. \A l \in ContainerLists \cup InitLists \cup ExternalLists : l \in SUBSET Containers
    BY DEF Containers
<1>2. ASSUME NEW n \in Names, NEW g \in ConfigServiceStep, g.name = [Blank.name EXCEPT !.base = n]
      PROVE  g.name.tests = 0
    BY <1>2, BlankTyped DEF NoName
<1>3. \A n \in Names : [Blank.name EXCEPT !.base = n] \in Name
    BY Bounds, BlankTyped DEF NoName, Name
<1>4. CASE phase = "project"
    BY <1>4, BlankTyped DEF Given, ConfigServiceStep
<1>5. CASE phase = "containers"
    BY <1>1, <1>5, BlankTyped DEF Given, ConfigServiceStep
<1>6. CASE phase = "inits"
    BY <1>1, <1>6, BlankTyped DEF Given, ConfigServiceStep
<1>7. CASE phase = "external"
    <2>1. PICK n \in Names, t \in Types, e \in ExternalLists : given = ExternalStep(n, t, e)
        BY <1>7 DEF Given
    <2>2. given = [Blank EXCEPT !.name = [Blank.name EXCEPT !.base = n], !.type = t, !.externals = e]
        BY <2>1, BlankTyped DEF ExternalStep, EntireStep, ConfigServiceStep
    <2>3. given \in ConfigServiceStep
        BY <1>1, <1>3, <2>2, BlankTyped DEF ConfigServiceStep
    <2>. QED  BY <1>2, <1>7, <2>2, <2>3, BlankTyped DEF ConfigServiceStep
<1>8. CASE phase = "entire"
    <2>1. PICK p \in Projects, n \in Names, l \in ContainerLists, e \in ExternalLists :
              given = EntireStep(p, n, l, e)
        BY <1>8 DEF Given
    <2>2. given = [Blank EXCEPT !.project = p, !.name = [Blank.name EXCEPT !.base = n],
                                !.containers = l, !.externals = e]
        BY <2>1, BlankTyped DEF ExternalStep, EntireStep, ConfigServiceStep
    <2>3. given \in ConfigServiceStep
        BY <1>1, <1>3, <2>2, BlankTyped DEF ConfigServiceStep
    <2>. QED  BY <1>2, <2>2, <2>3, BlankTyped DEF ConfigServiceStep
<1>. QED  BY <1>4, <1>5, <1>6, <1>7, <1>8, WizardAssumption

\* The same row, but for its status.
SameRow(r, s) ==
    /\ r.id = s.id /\ r.project = s.project /\ r.name = s.name /\ r.checked = s.checked
    /\ r.owner = s.owner /\ r.cell = s.cell

\* Rows are inserted under new numbers, or change their status only.
RowsMove ==
    /\ lastRow' \in Nat /\ lastRow <= lastRow'
    /\ \A s \in rows' :
          \/ s.id \in Nat /\ lastRow < s.id
          \/ \E r \in rows : SameRow(r, s)

LEMMA SameSelf == \A r : SameRow(r, r)
BY DEF SameRow

LEMMA ValidKept ==
    ASSUME TypeInv, RowsMove, NEW check \in Check, Valid(check)
    PROVE  Valid(check)'
<1>1. lastRow \in Nat /\ lastRow' \in Nat /\ lastRow <= lastRow' /\ check.rows \in Nat /\ check.rows <= lastRow
    BY Bounds DEF RowsMove, TypeInv, TableInv, Check, Valid
<1>2. ASSUME NEW s \in rows', s.project = check.project, s.name = check.name PROVE check.rows < s.id
    BY <1>1, <1>2 DEF RowsMove, SameRow, Valid
<1>. QED  BY <1>1, <1>2 DEF Valid, RowsMove

LEMMA RowsStay == ASSUME TypeInv, UNCHANGED <<rows, lastRow>> PROVE RowsMove
BY Bounds DEF RowsMove, SameRow, TypeInv, TableInv

\* A cell that has a project keeps one.
CellsKeep ==
    /\ asks <= asks'
    /\ \A i \in Cells : heap[i].project \in Projects => heap'[i].project \in Projects

\* What one request's step does, of which the others notice nothing.
LEMMA ProcStep ==
    ASSUME TypeInv, RowsMove, CellsKeep, NEW c \in Clients, NEW p \in PCs, NEW q \in Request,
           pc' = [pc EXCEPT ![c] = p], req' = [req EXCEPT ![c] = q], Shape(p, q)'
    PROVE  ProcInv'
<1>1. pc' \in [Clients -> PCs] /\ req' \in [Clients -> Request]
    BY DEF TypeInv, ProcInv
<1>2. ASSUME NEW d \in Clients \ {c} PROVE Shape(pc[d], req[d])'
    <2>1. pc'[d] = pc[d] /\ req'[d] = req[d]
        BY DEF TypeInv, ProcInv
    <2>2. PICK o \in PCs, r \in Request : o = pc[d] /\ r = req[d] /\ Shape(o, r)
        BY DEF TypeInv, ProcInv
    <2>3. r.given.checked \in Check
        BY DEF Request, ConfigServiceStep
    <2>4. Valid(r.given.checked)'
        BY <2>2, <2>3, ValidKept DEF Shape
    <2>5. o \in {"row", "workload", "service"} => heap'[r.cell].project \in Projects
        BY <2>2 DEF Shape, CellsKeep
    <2>6. r.row \in Nat /\ lastRow \in Nat /\ lastRow' \in Nat /\ lastRow <= lastRow'
        BY Bounds DEF Request, RowsMove, TypeInv, TableInv
    <2>7. Shape(o, r)'
        BY <2>2, <2>4, <2>5, <2>6 DEF Shape
    <2>. QED  BY <2>1, <2>2, <2>7
<1>3. pc'[c] = p /\ req'[c] = q
    BY DEF TypeInv, ProcInv
<1>. QED  BY <1>1, <1>2, <1>3 DEF ProcInv

LEMMA ProcStays ==
    ASSUME TypeInv, RowsMove, CellsKeep, UNCHANGED procVars
    PROVE  ProcInv'
<1>1. ASSUME NEW d \in Clients PROVE Shape(pc[d], req[d])'
    <2>1. pc'[d] = pc[d] /\ req'[d] = req[d]
        BY DEF procVars
    <2>2. PICK o \in PCs, r \in Request : o = pc[d] /\ r = req[d] /\ Shape(o, r)
        BY DEF TypeInv, ProcInv
    <2>3. r.given.checked \in Check
        BY DEF Request, ConfigServiceStep
    <2>4. Valid(r.given.checked)'
        BY <2>2, <2>3, ValidKept DEF Shape
    <2>5. o \in {"row", "workload", "service"} => heap'[r.cell].project \in Projects
        BY <2>2 DEF Shape, CellsKeep
    <2>6. r.row \in Nat /\ lastRow \in Nat /\ lastRow' \in Nat /\ lastRow <= lastRow'
        BY Bounds DEF Request, RowsMove, TypeInv, TableInv
    <2>7. Shape(o, r)'
        BY <2>2, <2>4, <2>5, <2>6 DEF Shape
    <2>. QED  BY <2>1, <2>2, <2>7
<1>. QED  BY <1>1 DEF ProcInv, TypeInv, procVars

LEMMA ValidBlank == TypeInv => Valid(Blank.checked)
<1> SUFFICES ASSUME TypeInv PROVE Valid(Blank.checked)
    OBVIOUS
<1>1. \A r \in rows : 0 < r.id
    BY Bounds DEF TypeInv, TableInv, Row
<1>2. 0 <= lastRow
    BY Bounds DEF TypeInv, TableInv
<1>. QED  BY <1>1, <1>2, BlankTyped DEF Valid

LEMMA NullShape == ASSUME TypeInv, NEW p, p = "idle" PROVE Shape(p, NullRequest)
BY NullTyped, BlankTyped, ValidBlank DEF Shape

LEMMA ReturnStep ==
    ASSUME TypeInv, RowsMove, CellsKeep, NEW c \in Clients, Return(c) PROVE ProcInv'
<1>1. Valid(Blank.checked)'
    BY ValidBlank, ValidKept, BlankTyped
<1>2. Shape("idle", NullRequest)'
    BY <1>1, NullTyped, BlankTyped DEF Shape
<1>. QED  BY <1>2, NullTyped, ProcStep DEF Return, Goto, PCs

LEMMA GotoStep ==
    ASSUME TypeInv, RowsMove, CellsKeep, NEW c \in Clients, NEW p \in PCs, Goto(c, p), UNCHANGED req,
           pc[c] # "idle", p \notin {"check", "set", "row"},
           p \in {"workload", "service"} => pc[c] \in {"workload", "service"}
    PROVE  ProcInv'
<1>1. PICK q \in Request : q = req[c] /\ Shape(pc[c], q)
    BY DEF TypeInv, ProcInv
<1>2. q.given.checked \in Check
    BY DEF Request, ConfigServiceStep
<1>3. Valid(q.given.checked)'
    BY <1>1, <1>2, ValidKept DEF Shape
<1>4. q.row \in Nat /\ lastRow \in Nat /\ lastRow' \in Nat /\ lastRow <= lastRow'
    BY Bounds DEF Request, RowsMove, TypeInv, TableInv
<1>5. Shape(p, q)'
    BY <1>1, <1>3, <1>4 DEF Shape, CellsKeep
<1>6. req' = [req EXCEPT ![c] = q]
    BY <1>1 DEF TypeInv, ProcInv
<1>. QED  BY <1>5, <1>6, ProcStep DEF Goto

\* The steps in the cells, when at most one of them changes.
LEMMA StepStep ==
    ASSUME TypeInv, RowsMove, NEW i \in Cells, NEW step \in ConfigServiceStep,
           heap' = [heap EXCEPT ![i] = step], Fits(step)',
           heap[i].project \in Projects => step.project \in Projects,
           asks' \in 0..MaxAsks, asks <= asks', userOf' = userOf,
           cache' \in [Users -> 0..First], entered' \in [Users -> ConfigServiceStep],
           \A u \in Users : entered'[u].name.tests <= asks'
    PROVE  StepInv' /\ CellsKeep
<1>1. heap' \in [Cells -> ConfigServiceStep]
    BY DEF TypeInv, StepInv
<1>2. ASSUME NEW j \in Cells PROVE Fits(heap[j])'
    <2>1. CASE j = i
        BY <2>1 DEF TypeInv, StepInv
    <2>2. CASE j # i
        <3>1. PICK s \in ConfigServiceStep : s = heap[j] /\ Fits(s)
            BY DEF TypeInv, StepInv
        <3>2. s.checked \in Check /\ s.name.tests \in Nat /\ asks \in Nat /\ asks' \in Nat
            BY Bounds DEF ConfigServiceStep, Name, TypeInv, StepInv
        <3>3. Fits(s)'
            BY <3>1, <3>2, ValidKept DEF Fits
        <3>. QED  BY <2>2, <3>1, <3>3 DEF TypeInv, StepInv
    <2>. QED  BY <2>1, <2>2
<1>3. CellsKeep
    BY DEF CellsKeep, TypeInv, StepInv
<1>. QED  BY <1>1, <1>2, <1>3 DEF StepInv, TypeInv

LEMMA StepsStay ==
    ASSUME TypeInv, RowsMove, UNCHANGED <<userOf, heap>>,
           asks' \in 0..MaxAsks, asks <= asks',
           cache' \in [Users -> 0..First], entered' \in [Users -> ConfigServiceStep],
           \A u \in Users : entered'[u].name.tests <= asks'
    PROVE  StepInv' /\ CellsKeep
<1>1. PICK s \in ConfigServiceStep : s = heap[First] /\ Fits(s)
    BY Bounds DEF TypeInv, StepInv
<1>2. s.checked \in Check /\ s.name.tests \in Nat /\ asks \in Nat /\ asks' \in Nat
    BY Bounds DEF ConfigServiceStep, Name, TypeInv, StepInv
<1>3. Fits(s)'
    BY <1>1, <1>2, ValidKept DEF Fits
<1>4. heap' = [heap EXCEPT ![First] = s]
    BY <1>1, Bounds DEF TypeInv, StepInv
<1>. QED  BY <1>1, <1>3, <1>4, Bounds, StepStep
LEMMA TableStays == ASSUME TypeInv, UNCHANGED <<rows, lastRow>> PROVE TableInv'
BY DEF TypeInv, TableInv, Valid

LEMMA ObjectsStay == ASSUME TypeInv, RowsMove, objects' \subseteq objects PROVE ObjectInv'
<1>1. \A o \in objects : o.row \in Nat
    BY Bounds DEF TypeInv, ObjectInv, Object
<1>2. lastRow \in Nat /\ lastRow' \in Nat /\ lastRow <= lastRow'
    BY Bounds DEF RowsMove, TypeInv, TableInv
<1>3. \A o \in objects' : o.row <= lastRow'
    BY <1>1, <1>2 DEF TypeInv, ObjectInv
<1>. QED  BY <1>3 DEF TypeInv, ObjectInv

LEMMA UserTyped == ASSUME TypeInv, NEW c \in Clients PROVE userOf[c] \in Users
BY WizardAssumption DEF TypeInv, StepInv

\* What was entered is forgotten, or stays.
LEMMA EnteredTyped ==
    ASSUME TypeInv, NEW u \in Users, asks' \in 0..MaxAsks, asks <= asks',
           entered' = entered \/ entered' = [entered EXCEPT ![u] = Blank]
    PROVE  /\ entered' \in [Users -> ConfigServiceStep]
           /\ \A v \in Users : entered'[v].name.tests <= asks'
<1>1. asks \in Nat /\ asks' \in Nat /\ \A v \in Users : entered[v].name.tests \in Nat
    BY Bounds DEF TypeInv, StepInv, ConfigServiceStep, Name
<1>. QED  BY <1>1, BlankTyped DEF TypeInv, StepInv

\* The cell a request gets.
LEMMA NewCell ==
    ASSUME TypeInv, asks < MaxAsks, NEW u \in Users, NEW op
    PROVE  /\ NewConfigServiceStep(u, op) \in Cells /\ NewConfigServiceStep(u, op) \in 0..First
           /\ asks + 1 \in 1..MaxAsks
BY Bounds DEF NewConfigServiceStep, TypeInv, StepInv

\* A request that begins.
LEMMA BeginStep ==
    ASSUME TypeInv, UNCHANGED <<rows, lastRow, objects>>, CellsKeep, StepInv',
           NEW c \in Clients, NEW p \in PCs, NEW q \in Request,
           Goto(c, p), req' = [req EXCEPT ![c] = q], Shape(p, q)'
    PROVE  TypeInv'
BY RowsStay, TableStays, ObjectsStay, ProcStep DEF TypeInv, Goto

LEMMA SetAskTyped ==
    ASSUME TypeInv, NEW c \in Clients, NEW phase \in Phases, NEW given \in Given(phase),
           SetConfigServiceStepAction(c, phase, given)
    PROVE  TypeInv'
<1> DEFINE cell == NewConfigServiceStep(userOf[c], phase)
           g == [NullRequest EXCEPT !.op = phase, !.given = given, !.cell = cell]
           p == IF phase \in {"external", "entire"} THEN "check" ELSE "set"
<1>1. asks < MaxAsks /\ asks' = asks + 1 /\ userOf[c] \in Users
    BY UserTyped DEF SetConfigServiceStepAction, Ask
<1>2. cell \in Cells /\ cell \in 0..First /\ asks + 1 \in 1..MaxAsks
    BY <1>1, NewCell
<1>3. PICK q \in Request : q = g
    BY <1>2, NullTyped, GivenTyped DEF Request, Ops
<1>4. q.cell = cell /\ q.op = phase /\ q.given = given
    BY <1>3, NullTyped DEF Request
<1>5. /\ Goto(c, p) /\ req' = [req EXCEPT ![c] = q]
      /\ UNCHANGED <<userOf, heap, cache, rows, lastRow, objects>>
      /\ entered' = entered \/ entered' = [entered EXCEPT ![userOf[c]] = Blank]
    BY <1>3 DEF SetConfigServiceStepAction, Ask
<1>6. asks' \in 0..MaxAsks /\ asks <= asks'
    BY <1>1, <1>2, Bounds DEF TypeInv, StepInv
<1>7. StepInv' /\ CellsKeep
    BY <1>1, <1>5, <1>6, EnteredTyped, StepsStay, RowsStay DEF TypeInv, StepInv
<1>8. Valid(given.checked)'
    BY <1>5, GivenTyped, ValidBlank DEF Valid
<1>9. Shape(p, q)'
    BY <1>2, <1>4, <1>8, GivenTyped DEF Shape
<1>10. p \in PCs
    BY DEF PCs
<1> HIDE DEF p, g, cell
<1>. QED  BY <1>5, <1>7, <1>9, <1>10, BeginStep

LEMMA DeployAskTyped ==
    ASSUME TypeInv, NEW c \in Clients, NEW op \in {"deploy", "stateful"}, DeployServiceAction(c, op)
    PROVE  TypeInv'
<1> DEFINE cell == NewConfigServiceStep(userOf[c], op)
           g == [NullRequest EXCEPT !.op = op, !.cell = cell, !.project = heap[cell].project]
<1>1. asks < MaxAsks /\ asks' = asks + 1 /\ userOf[c] \in Users
    BY UserTyped DEF DeployServiceAction
<1>2. cell \in Cells /\ cell \in 0..First /\ asks + 1 \in 1..MaxAsks
    BY <1>1, NewCell
<1>3. heap[cell].project \in Projects
    BY <1>2 DEF DeployServiceAction, TypeInv, StepInv, ConfigServiceStep
<1>4. PICK q \in Request : q = g
    BY <1>2, <1>3, NullTyped DEF Request, Ops
<1>5. q.cell = cell /\ q.op = op /\ q.given = Blank /\ q.project = heap[cell].project
    BY <1>4, NullTyped DEF Request
<1>6. /\ Goto(c, "row") /\ req' = [req EXCEPT ![c] = q]
      /\ UNCHANGED <<userOf, heap, cache, rows, lastRow, objects, entered>>
    BY <1>4 DEF DeployServiceAction
<1>7. asks' \in 0..MaxAsks /\ asks <= asks'
    BY <1>1, <1>2, Bounds DEF TypeInv, StepInv
<1>8. StepInv' /\ CellsKeep
    BY <1>1, <1>6, <1>7, EnteredTyped, StepsStay, RowsStay DEF TypeInv, StepInv
<1>9. Valid(Blank.checked)'
    BY <1>6, ValidBlank DEF Valid
<1>10. Shape("row", q)'
    BY <1>2, <1>3, <1>5, <1>6, <1>9, BlankTyped DEF Shape
<1> HIDE DEF g, cell
<1>. QED  BY <1>6, <1>8, <1>10, BeginStep DEF PCs

LEMMA UndoAskTyped ==
    ASSUME TypeInv, NEW c \in Clients, DeleteDeployAction(c)
    PROVE  TypeInv'
<1> DEFINE cell == NewConfigServiceStep(userOf[c], "undo")
           g == [NullRequest EXCEPT !.op = "undo", !.cell = cell, !.project = heap[cell].project,
                                    !.name = heap[cell].name, !.given.checked = heap[cell].checked]
<1>1. asks < MaxAsks /\ asks' = asks + 1 /\ userOf[c] \in Users
    BY UserTyped DEF DeleteDeployAction
<1>2. cell \in Cells /\ cell \in 0..First /\ asks + 1 \in 1..MaxAsks
    BY <1>1, NewCell
<1>3. heap[cell] \in ConfigServiceStep /\ Valid(heap[cell].checked)
    BY <1>2 DEF TypeInv, StepInv, Fits
<1>4. g.given = [Blank EXCEPT !.checked = heap[cell].checked]
    BY NullTyped DEF Request
<1>5. [Blank EXCEPT !.checked = heap[cell].checked] \in ConfigServiceStep
    BY <1>3, BlankTyped DEF ConfigServiceStep
<1>5a. heap[cell].project \in Projects \cup {None} /\ heap[cell].name \in Name /\ cell \in 0..First
    BY <1>2, <1>3 DEF ConfigServiceStep
<1>5b. g = [NullRequest EXCEPT !.op = "undo", !.cell = cell, !.project = heap[cell].project,
                               !.name = heap[cell].name, !.given = g.given]
    BY NullTyped DEF Request
<1>5c. g.given \in ConfigServiceStep
    BY <1>4, <1>5
<1>5d. "undo" \in Ops
    BY DEF Ops
<1>6. PICK q \in Request : q = g
    <2> HIDE DEF g
    <2>. QED  BY <1>5a, <1>5b, <1>5c, <1>5d, NullTyped DEF Request
<1>7. q.cell = cell /\ q.op = "undo" /\ q.given.name.tests = 0 /\ q.given.checked = heap[cell].checked
    BY <1>3, <1>4, <1>5, <1>6, NullTyped, BlankTyped DEF Request, ConfigServiceStep
<1>8. /\ Goto(c, "undo") /\ req' = [req EXCEPT ![c] = q]
      /\ UNCHANGED <<userOf, heap, cache, rows, lastRow, objects, entered>>
    BY <1>6 DEF DeleteDeployAction
<1>9. asks' \in 0..MaxAsks /\ asks <= asks'
    BY <1>1, <1>2, Bounds DEF TypeInv, StepInv
<1>10. StepInv' /\ CellsKeep
    BY <1>1, <1>8, <1>9, EnteredTyped, StepsStay, RowsStay DEF TypeInv, StepInv
<1>11. Valid(q.given.checked)'
    <2>1. PICK k : k = heap[cell].checked
        OBVIOUS
    <2>2. Valid(k)'
        BY <1>3, <1>8, <2>1 DEF Valid
    <2>. QED  BY <1>7, <2>1, <2>2 DEF Valid
<1>12. Shape("undo", q)'
    BY <1>2, <1>7, <1>11 DEF Shape
<1> HIDE DEF g, cell
<1>. QED  BY <1>8, <1>10, <1>12, BeginStep DEF PCs

\* "test" is put before a name.
LEMMA TestedTyped ==
    ASSUME TypeInv, asks < MaxAsks, NEW s \in ConfigServiceStep, s.name.tests <= asks,
           NEW t, t = [s EXCEPT !.name.tests = @ + 1]
    PROVE  /\ t \in ConfigServiceStep /\ t.name.tests <= asks + 1 /\ t.checked = s.checked
           /\ t.name = [s.name EXCEPT !.tests = s.name.tests + 1]
           /\ t.project = s.project /\ t.containers = s.containers /\ t.inits = s.inits
           /\ t.externals = s.externals
<1>1. PICK n \in Name : n = s.name
    BY DEF ConfigServiceStep
<1>2. n.tests \in Nat /\ asks \in Nat /\ n.tests <= asks /\ n.tests + 1 \in 0..MaxAsks
    BY <1>1, Bounds DEF Name, TypeInv, StepInv
<1>3. [n EXCEPT !.tests = n.tests + 1] \in Name /\ [n EXCEPT !.tests = n.tests + 1].tests = n.tests + 1
    BY <1>2 DEF Name
<1>4. t = [s EXCEPT !.name = [n EXCEPT !.tests = n.tests + 1]]
    BY <1>1 DEF ConfigServiceStep
<1>5. PICK m \in Name : m = [n EXCEPT !.tests = n.tests + 1]
    BY <1>3
<1>6. t = [s EXCEPT !.name = m]
    BY <1>4, <1>5
<1>7. m.tests <= asks + 1
    BY <1>2, <1>3, <1>5
<1>. QED  BY <1>1, <1>5, <1>6, <1>7 DEF ConfigServiceStep

LEMMA TestAskTyped ==
    ASSUME TypeInv, NEW c \in Clients, DeployServiceTestAction(c)
    PROVE  TypeInv'
<1> DEFINE u == userOf[c]
           cell == NewConfigServiceStep(u, "test")
           g == [NullRequest EXCEPT !.op = "test", !.cell = cell, !.project = heap[cell].project]
           t == [heap[cell] EXCEPT !.name.tests = @ + 1]
           b == IF cache[u] = 0 THEN Blank ELSE entered[u]
           e == [b EXCEPT !.name.tests = @ + 1]
<1>1. asks < MaxAsks /\ asks' = asks + 1 /\ u \in Users
    BY UserTyped DEF DeployServiceTestAction
<1>2. cell \in Cells /\ cell \in 0..First /\ asks + 1 \in 1..MaxAsks
    BY <1>1, NewCell
<1>3. heap[cell] \in ConfigServiceStep /\ heap[cell].name.tests <= asks /\ Valid(heap[cell].checked)
    BY <1>2 DEF TypeInv, StepInv, Fits
<1>4. b \in ConfigServiceStep /\ b.name.tests <= asks
    <2>1. Blank \in ConfigServiceStep /\ Blank.name.tests = 0 /\ asks \in Nat
        BY BlankTyped, Bounds DEF TypeInv, StepInv
    <2>2. entered[u] \in ConfigServiceStep /\ entered[u].name.tests <= asks
        BY <1>1 DEF TypeInv, StepInv
    <2>. QED  BY <2>1, <2>2
<1>8. PICK s \in ConfigServiceStep : s = t
    BY <1>1, <1>3, TestedTyped
<1>9. s.name.tests <= asks + 1 /\ s.checked = heap[cell].checked /\ s.project = heap[cell].project
    BY <1>1, <1>3, <1>8, TestedTyped
<1>10. e \in ConfigServiceStep /\ e.name.tests <= asks + 1
    <2>1. PICK d \in ConfigServiceStep : d = b /\ d.name.tests <= asks
        BY <1>4
    <2>. QED  BY <1>1, <2>1, TestedTyped
<1>11. /\ heap' = [heap EXCEPT ![cell] = s] /\ entered' = [entered EXCEPT ![u] = e]
       /\ cache' = [cache EXCEPT ![u] = cell]
       /\ UNCHANGED <<userOf, rows, lastRow, objects>>
    BY <1>8 DEF DeployServiceTestAction, TypeInv, StepInv
<1>12. asks' \in 0..MaxAsks /\ asks <= asks'
    BY <1>1, <1>2, Bounds DEF TypeInv, StepInv
<1>13. Fits(s)'
    <2>1. PICK k : k = heap[cell].checked
        OBVIOUS
    <2>2. Valid(k)'
        BY <1>3, <1>11, <2>1 DEF Valid
    <2>. QED  BY <1>1, <1>9, <2>1, <2>2 DEF Fits
<1>14. cache' \in [Users -> 0..First] /\ entered' \in [Users -> ConfigServiceStep]
    BY <1>1, <1>2, <1>10, <1>11 DEF TypeInv, StepInv
<1>15. \A v \in Users : entered'[v].name.tests <= asks'
    <2>1. asks \in Nat /\ \A v \in Users : entered[v].name.tests \in Nat
        BY Bounds DEF TypeInv, StepInv, ConfigServiceStep, Name
    <2> HIDE DEF e
    <2>. QED  BY <1>1, <1>10, <1>11, <2>1 DEF TypeInv, StepInv
<1> HIDE DEF g, t, b, e
<1>16. RowsMove
    BY <1>11, RowsStay
<1>17. StepInv' /\ CellsKeep
    BY <1>2, <1>9, <1>11, <1>12, <1>13, <1>14, <1>15, <1>16, StepStep
<1>18. CASE UNCHANGED procVars
    <2>1. UNCHANGED <<rows, lastRow, objects>>
        BY <1>11
    <2>. QED  BY <1>16, <1>17, <1>18, <2>1, TableStays, ObjectsStay, ProcStays DEF TypeInv
<1>19. CASE heap[cell].project # None /\ Goto(c, "row") /\ req' = [req EXCEPT ![c] = g]
    <2>1. heap[cell].project \in Projects
        BY <1>3, <1>19 DEF ConfigServiceStep
    <2>2. PICK q \in Request : q = g
        BY <1>2, <2>1, NullTyped DEF Request, Ops, g
    <2>3. q.cell = cell /\ q.op = "test" /\ q.given = Blank /\ q.project = heap[cell].project
        BY <2>2, NullTyped DEF Request, g
    <2>4. Valid(Blank.checked)'
        BY <1>11, ValidBlank DEF Valid
    <2>5. Shape("row", q)'
        BY <1>2, <2>1, <2>3, <1>17, <2>4, BlankTyped DEF Shape, CellsKeep
    <2>6. Goto(c, "row") /\ req' = [req EXCEPT ![c] = q]
        BY <1>19, <2>2
    <2>. QED  BY <1>11, <1>17, <2>5, <2>6, BeginStep DEF PCs
<1>20. \/ UNCHANGED procVars
       \/ heap[cell].project # None /\ Goto(c, "row") /\ req' = [req EXCEPT ![c] = g]
    BY DEF DeployServiceTestAction, g
<1>. QED  BY <1>18, <1>19, <1>20

\* A step is set.
LEMMA SetTyped ==
    ASSUME TypeInv, NEW c \in Clients, pc[c] # "idle",
           NEW step \in ConfigServiceStep, NEW asked \in ConfigServiceStep,
           step.name.tests <= asks, asked.name.tests <= asks, Valid(step.checked),
           Step(c).project \in Projects => step.project \in Projects,
           SetConfigServiceStep(c, step, asked)
    PROVE  TypeInv'
<1>1. req[c].cell \in Cells /\ userOf[c] \in Users
    BY UserTyped DEF TypeInv, ProcInv, Shape
<1>2. req[c].cell \in 0..First /\ asks \in Nat
    BY <1>1, Bounds DEF TypeInv, StepInv
<1>3. cache' \in [Users -> 0..First] /\ entered' \in [Users -> ConfigServiceStep]
    BY <1>1, <1>2 DEF TypeInv, StepInv, SetConfigServiceStep
<1>4. \A v \in Users : entered'[v].name.tests <= asks'
    BY <1>1 DEF TypeInv, StepInv, SetConfigServiceStep
<1>5. Fits(step)'
    BY DEF SetConfigServiceStep, Fits, Valid
<1>6. StepInv' /\ CellsKeep
    <2>1. RowsMove
        BY RowsStay DEF SetConfigServiceStep
    <2>2. asks' \in 0..MaxAsks /\ asks <= asks' /\ userOf' = userOf
        BY <1>2 DEF SetConfigServiceStep, TypeInv, StepInv
    <2>3. PICK i \in Cells : i = req[c].cell
        BY <1>1
    <2>4. heap' = [heap EXCEPT ![i] = step]
        BY <2>3 DEF SetConfigServiceStep
    <2>5. heap[i].project \in Projects => step.project \in Projects
        BY <2>3 DEF Step
    <2>. QED  BY <1>3, <1>4, <1>5, <2>1, <2>2, <2>4, <2>5, StepStep
<1>7. RowsMove /\ TableInv' /\ ObjectInv'
    BY RowsStay, TableStays, ObjectsStay DEF SetConfigServiceStep
<1>8. ProcInv'
    BY <1>6, <1>7, ReturnStep DEF SetConfigServiceStep
<1>. QED  BY <1>6, <1>7, <1>8 DEF TypeInv

\* What a request that goes on may rely on.
LEMMA UnderwayTyped ==
    ASSUME TypeInv, NEW c \in Clients, pc[c] # "idle"
    PROVE  /\ userOf[c] \in Users /\ req[c] \in Request /\ req[c].cell \in Cells
           /\ req[c].given \in ConfigServiceStep /\ req[c].given.name.tests = 0
           /\ req[c].given.checked \in Check /\ Valid(req[c].given.checked)
           /\ Step(c) \in ConfigServiceStep /\ Step(c).name.tests <= asks /\ Valid(Step(c).checked)
           /\ entered[userOf[c]] \in ConfigServiceStep /\ entered[userOf[c]].name.tests <= asks
           /\ asks \in Nat
<1>1. PICK q \in Request : q = req[c] /\ Shape(pc[c], q)
    BY DEF TypeInv, ProcInv
<1>2. q.cell \in Cells /\ q.given \in ConfigServiceStep /\ q.given.checked \in Check
    BY <1>1 DEF Shape, Request, ConfigServiceStep
<1>3. userOf[c] \in Users
    BY UserTyped
<1>. QED  BY <1>1, <1>2, <1>3, Bounds DEF Shape, Step, Fits, TypeInv, StepInv

LEMMA SetPhaseTyped ==
    ASSUME TypeInv, NEW c \in Clients,
           selectProject(c) \/ configContainerList(c) \/ configInitContainerList(c)
    PROVE  TypeInv'
<1>1. pc[c] = "set" /\ pc[c] # "idle"
    BY DEF selectProject, configContainerList, configInitContainerList
<1>2. PICK s, e, g \in ConfigServiceStep :
          /\ s = Step(c) /\ e = entered[userOf[c]] /\ g = req[c].given
          /\ s.name.tests <= asks /\ Valid(s.checked) /\ e.name.tests <= asks
    BY <1>1, UnderwayTyped
<1>3. CASE selectProject(c)
    <2>1. g.project \in Projects
        BY <1>1, <1>2, <1>3 DEF selectProject, TypeInv, ProcInv, Shape
    <2>2. PICK t, k \in ConfigServiceStep : t = [s EXCEPT !.project = g.project] /\ k = [e EXCEPT !.project = g.project]
        BY <2>1 DEF ConfigServiceStep
    <2>3. /\ t.name = s.name /\ t.checked = s.checked /\ t.project = g.project /\ k.name = e.name
        BY <2>2 DEF ConfigServiceStep
    <2>4. SetConfigServiceStep(c, t, k)
        BY <1>2, <1>3, <2>2 DEF selectProject
    <2>. QED  BY <1>1, <1>2, <2>1, <2>3, <2>4, SetTyped
<1>4. CASE configContainerList(c)
    <2>1. PICK t, k \in ConfigServiceStep :
              /\ t = [s EXCEPT !.containers = g.containers,
                               !.externals = CheckServiceConfigPortMap(s.externals, g.containers)]
              /\ k = [e EXCEPT !.containers = g.containers, !.externals = e.externals \cap g.containers]
        BY DEF ConfigServiceStep, CheckServiceConfigPortMap
    <2>2. /\ t.name = s.name /\ t.checked = s.checked /\ t.project = s.project /\ k.name = e.name
        BY <2>1 DEF ConfigServiceStep
    <2>3. SetConfigServiceStep(c, t, k)
        BY <1>2, <1>4, <2>1 DEF configContainerList, ConfigServiceStep
    <2>. QED  BY <1>1, <1>2, <2>2, <2>3, SetTyped
<1>5. CASE configInitContainerList(c)
    <2>1. PICK t, k \in ConfigServiceStep :
              /\ t = [s EXCEPT !.inits = g.inits,
                               !.externals = CheckServiceConfigPortMap(s.externals, g.inits)]
              /\ k = [e EXCEPT !.inits = g.inits, !.externals = e.externals \cap g.inits]
        BY DEF ConfigServiceStep, CheckServiceConfigPortMap
    <2>2. /\ t.name = s.name /\ t.checked = s.checked /\ t.project = s.project /\ k.name = e.name
        BY <2>1 DEF ConfigServiceStep
    <2>3. SetConfigServiceStep(c, t, k)
        BY <1>2, <1>5, <2>1 DEF configInitContainerList, ConfigServiceStep
    <2>. QED  BY <1>1, <1>2, <2>2, <2>3, SetTyped
<1>. QED  BY <1>3, <1>4, <1>5

LEMMA SetServiceTyped ==
    ASSUME TypeInv, NEW c \in Clients, configExternalService(c) \/ configEntireService(c)
    PROVE  TypeInv'
<1>1. pc[c] = "set" /\ pc[c] # "idle"
    BY DEF configExternalService, configEntireService
<1>2. PICK s, e, g \in ConfigServiceStep :
          /\ s = Step(c) /\ e = entered[userOf[c]] /\ g = req[c].given
          /\ s.name.tests <= asks /\ e.name.tests <= asks /\ g.name.tests = 0 /\ Valid(g.checked)
    BY <1>1, UnderwayTyped
<1>3. 0 <= asks
    BY <1>1, UnderwayTyped
<1>4. CASE configExternalService(c)
    <2>1. PICK t, k \in ConfigServiceStep :
              /\ t = [s EXCEPT !.name = g.name, !.type = g.type, !.externals = g.externals,
                               !.checked = g.checked]
              /\ k = [e EXCEPT !.name = g.name, !.type = g.type, !.externals = g.externals]
        BY DEF ConfigServiceStep
    <2>2. /\ t.name = g.name /\ t.checked = g.checked /\ t.project = s.project /\ k.name = g.name
        BY <2>1 DEF ConfigServiceStep
    <2>3. SetConfigServiceStep(c, t, k)
        BY <1>2, <1>4, <2>1 DEF configExternalService
    <2>. QED  BY <1>1, <1>2, <1>3, <2>2, <2>3, SetTyped
<1>5. CASE configEntireService(c)
    <2>1. g.project \in Projects
        BY <1>1, <1>2, <1>5 DEF configEntireService, TypeInv, ProcInv, Shape
    <2>2. SetConfigServiceStep(c, g, g)
        BY <1>2, <1>5 DEF configEntireService
    <2>. QED  BY <1>1, <1>2, <1>3, <2>1, <2>2, SetTyped
<1>. QED  BY <1>4, <1>5

\* A step of a request that writes no step.
LEMMA StepsUntouched ==
    ASSUME TypeInv, RowsMove, UNCHANGED <<userOf, heap, asks>>, NEW u \in Users,
           cache' = cache \/ cache' = [cache EXCEPT ![u] = 0],
           entered' = entered \/ entered' = [entered EXCEPT ![u] = Blank]
    PROVE  StepInv' /\ CellsKeep
<1>1. asks' \in 0..MaxAsks /\ asks <= asks' /\ asks \in Nat
    BY Bounds DEF TypeInv, StepInv
<1>2. cache' \in [Users -> 0..First]
    BY Bounds DEF TypeInv, StepInv
<1>. QED  BY <1>1, <1>2, EnteredTyped, StepsStay

\* Rows change their status, or are removed.
LEMMA RowsKept ==
    ASSUME TypeInv, lastRow' = lastRow, \A s, t \in rows' : s.id = t.id => s = t,
           \A s \in rows' : s \in Row /\ \E r \in rows : SameRow(r, s)
    PROVE  RowsMove /\ TableInv'
<1>1. RowsMove
    BY Bounds DEF RowsMove, TypeInv, TableInv
<1>2. ASSUME NEW s \in rows' PROVE s.id <= lastRow' /\ Valid(s.checked)'
    <2>1. PICK r \in rows : r.id = s.id /\ r.checked = s.checked
        BY DEF SameRow
    <2>2. r.id <= lastRow /\ Valid(r.checked) /\ r.checked \in Check
        BY DEF TypeInv, TableInv, Row
    <2>3. PICK k \in Check : k = s.checked /\ Valid(k)
        BY <2>1, <2>2
    <2>4. Valid(k)'
        BY <1>1, <2>3, ValidKept
    <2>. QED  BY <2>1, <2>2, <2>3, <2>4
<1>3. rows' \subseteq Row /\ lastRow' \in 0..MaxRows
    BY DEF TypeInv, TableInv
<1>. QED  BY <1>1, <1>2, <1>3 DEF TableInv

\* A row that gets another status.
LEMMA StatusKept ==
    ASSUME NEW r \in Row, NEW x \in {"preparing", "uncompleted", "stopped"},
           NEW s, s = [r EXCEPT !.status = x]
    PROVE  s \in Row /\ s.id = r.id /\ SameRow(r, s)
BY DEF Row, SameRow

LEMMA CheckTyped ==
    ASSUME TypeInv, NEW c \in Clients, checkServiceDuplicateName(c)
    PROVE  TypeInv'
<1>1. pc[c] = "check" /\ UNCHANGED <<userOf, heap, cache, rows, lastRow, objects, asks, entered>>
    BY DEF checkServiceDuplicateName
<1>2. PICK q \in Request : q = req[c] /\ Shape("check", q)
    BY <1>1 DEF TypeInv, ProcInv
<1>3. q.given \in ConfigServiceStep /\ q.given.name \in Name
    BY DEF Request, ConfigServiceStep
<1> DEFINE own == cache[userOf[c]]
           project == IF q.op = "entire" THEN q.given.project
                      ELSE IF own = 0 THEN None ELSE heap[own].project
<1>4. project \in Projects \cup {None}
    <2>1. userOf[c] \in Users
        BY UserTyped
    <2>2. own # 0 => own \in Cells
        BY <2>1, Bounds DEF TypeInv, StepInv
    <2>. QED  BY <1>3, <2>2 DEF ConfigServiceStep, TypeInv, StepInv
<1>5. PICK k \in Check : k = [project |-> project, name |-> q.given.name, rows |-> lastRow]
    BY <1>3, <1>4 DEF Check, TypeInv, TableInv
<1>6. ~ServiceExists(q.given.name, project)
    BY <1>2 DEF checkServiceDuplicateName
<1>7. k.project = project /\ k.name = q.given.name /\ k.rows = lastRow
    BY <1>5
<1>8. Valid(k)
    BY <1>6, <1>7, Bounds DEF Valid, ServiceExists, TypeInv, TableInv
<1>9. PICK g \in ConfigServiceStep : g = [q.given EXCEPT !.checked = k]
    BY <1>3 DEF ConfigServiceStep
<1>10. g.name = q.given.name /\ g.checked = k /\ g.project = q.given.project
    BY <1>3, <1>9 DEF ConfigServiceStep
<1>11. PICK r \in Request : r = [q EXCEPT !.given = g]
    BY DEF Request
<1>12. r.given = g /\ r.cell = q.cell /\ r.op = q.op
    BY <1>11 DEF Request
<1>13. req' = [req EXCEPT ![c] = r]
    <2>1. req' = [req EXCEPT ![c].given.checked = k]
        BY <1>2, <1>5 DEF checkServiceDuplicateName
    <2>. QED  BY <1>2, <1>9, <1>11, <2>1
<1>14. Goto(c, "set")
    BY DEF checkServiceDuplicateName
<1> HIDE DEF project, own
<1>15. Valid(k)'
    BY <1>1, <1>8 DEF Valid
<1>16. Shape("set", r)'
    BY <1>2, <1>10, <1>12, <1>15 DEF Shape
<1>17. RowsMove /\ TableInv' /\ ObjectInv'
    BY <1>1, RowsStay, TableStays, ObjectsStay
<1>18. StepInv' /\ CellsKeep
    BY <1>1, <1>17, UserTyped, StepsUntouched
<1>. QED  BY <1>13, <1>14, <1>16, <1>17, <1>18, BeginStep, <1>1 DEF PCs

LEMMA RowTyped ==
    ASSUME TypeInv, NEW c \in Clients, CreateServiceConfig(c)
    PROVE  TypeInv' /\ RowsMove
<1>1. /\ pc[c] = "row" /\ lastRow < MaxRows /\ lastRow' = lastRow + 1
      /\ UNCHANGED <<userOf, heap, cache, objects, asks, entered>>
    BY DEF CreateServiceConfig
<1>2. PICK q \in Request : q = req[c] /\ Shape("row", q)
    BY <1>1 DEF TypeInv, ProcInv
<1>3. PICK s \in ConfigServiceStep : s = Step(c) /\ Valid(s.checked)
    BY <1>1, UnderwayTyped
<1>4. userOf[c] \in Users /\ q.cell \in 0..First /\ q.project \in Projects /\ s.name \in Name /\ s.checked \in Check
    BY <1>2, UserTyped DEF Shape, Request, ConfigServiceStep
<1>5. lastRow \in Nat /\ lastRow' \in 1..MaxRows /\ lastRow' \in 0..MaxRows
    BY <1>1, Bounds DEF TypeInv, TableInv
<1>6. PICK r \in Row : r = [id |-> lastRow + 1, project |-> q.project, name |-> s.name,
                            owner |-> userOf[c], status |-> "preparing", cell |-> q.cell, checked |-> s.checked]
    BY <1>1, <1>4, <1>5 DEF Row
<1>7. r.id = lastRow + 1 /\ r.checked = s.checked
    BY <1>6
<1>8. rows' = rows \cup {r}
    BY <1>2, <1>3, <1>6 DEF CreateServiceConfig
<1>9. RowsMove
    BY <1>1, <1>5, <1>7, <1>8, SameSelf DEF RowsMove
<1>10. Valid(s.checked)'
    BY <1>3, <1>4, <1>9, ValidKept
<1>11. TableInv'
    <2>1. rows' \subseteq Row /\ lastRow' \in 0..MaxRows
        BY <1>5, <1>8 DEF TypeInv, TableInv
    <2>2. \A t \in rows : t.id \in Nat /\ t.id <= lastRow
        BY Bounds DEF TypeInv, TableInv, Row
    <2>3. \A t, w \in rows' : t.id = w.id => t = w
        BY <1>5, <1>7, <1>8, <2>2 DEF TypeInv, TableInv
    <2>4. ASSUME NEW t \in rows' PROVE t.id <= lastRow' /\ Valid(t.checked)'
        <3>1. CASE t = r
            BY <1>1, <1>5, <1>7, <1>10, <3>1
        <3>2. CASE t \in rows
            <4>1. PICK k \in Check : k = t.checked /\ Valid(k)
                BY <3>2 DEF TypeInv, TableInv, Row
            <4>2. Valid(k)'
                BY <1>9, <4>1, ValidKept
            <4>. QED  BY <1>1, <1>5, <2>2, <3>2, <4>1, <4>2
        <3>. QED  BY <1>8, <3>1, <3>2
    <2>. QED  BY <2>1, <2>3, <2>4 DEF TableInv
<1>12. StepInv' /\ CellsKeep
    BY <1>1, <1>4, <1>9, StepsUntouched
<1>13. ObjectInv'
    BY <1>1, <1>9, ObjectsStay
<1>14. PICK p \in Request : p = [q EXCEPT !.row = lastRow + 1, !.name = s.name]
    BY <1>1, <1>4, <1>5 DEF Request
<1>15. p.cell = q.cell /\ p.given = q.given /\ p.op = q.op /\ p.project = q.project
       /\ p.row = lastRow + 1
    BY <1>14 DEF Request
<1>16. req' = [req EXCEPT ![c] = p] /\ Goto(c, "workload")
    BY <1>2, <1>3, <1>14 DEF CreateServiceConfig, TypeInv, ProcInv
<1>17. PICK k \in Check : k = q.given.checked /\ Valid(k)
    BY <1>2 DEF Shape, Request, ConfigServiceStep
<1>18. Valid(k)'
    BY <1>9, <1>17, ValidKept
<1>19. Shape("workload", p)'
    BY <1>1, <1>2, <1>5, <1>15, <1>17, <1>18 DEF Shape
<1>. QED  BY <1>9, <1>11, <1>12, <1>13, <1>16, <1>19, ProcStep DEF TypeInv, PCs, Goto

LEMMA WorkloadTyped ==
    ASSUME TypeInv, NEW c \in Clients, CreateWorkload(c) \/ CreateService(c)
    PROVE  TypeInv'
<1>1. /\ pc[c] \in {"workload", "service"} /\ pc[c] # "idle"
      /\ UNCHANGED <<userOf, heap, cache, rows, lastRow, asks, entered>>
    BY DEF CreateWorkload, CreateService
<1>2. RowsMove /\ TableInv'
    BY <1>1, RowsStay, TableStays
<1>3. StepInv' /\ CellsKeep
    BY <1>1, <1>2, UserTyped, StepsUntouched
<1>4. ProcInv'
    <2>1. CASE Return(c)
        BY <1>2, <1>3, <2>1, ReturnStep
    <2>2. CASE UNCHANGED req /\ Goto(c, "status")
        BY <1>1, <1>2, <1>3, <2>2, GotoStep DEF PCs
    <2>3. CASE UNCHANGED req /\ Goto(c, "service")
        BY <1>1, <1>2, <1>3, <2>3, GotoStep DEF PCs
    <2>. QED  BY <2>1, <2>2, <2>3 DEF CreateWorkload, CreateService
<1>5. ASSUME NEW kind \in {"Deployment", "StatefulSet", "Service"},
             ~There(kind, Step(c).project, Step(c).name), objects' = objects \cup {Made(c, kind)}
      PROVE  ObjectInv'
    <2>1. PICK s \in ConfigServiceStep : s = Step(c)
        BY <1>1, UnderwayTyped
    <2>2. s.project \in Projects /\ s.name \in Name
        <3>1. req[c].op \in {"deploy", "test", "stateful"} /\ heap[req[c].cell].project \in Projects
            BY <1>1 DEF TypeInv, ProcInv, Shape
        <3>. QED  BY <2>1, <3>1 DEF Step, ConfigServiceStep
    <2>3. req[c].row \in 0..MaxRows /\ req[c].row <= lastRow /\ entered[userOf[c]] \in ConfigServiceStep
        BY <1>1, UnderwayTyped DEF Request, TypeInv, ProcInv, Shape
    <2>4. PICK o \in Object : o = [kind |-> kind, project |-> s.project, name |-> s.name, row |-> req[c].row,
                                   step |-> s, asked |-> entered[userOf[c]]]
        BY <2>2, <2>3 DEF Object
    <2>5. o = Made(c, kind)
        BY <2>1, <2>4 DEF Made
    <2>6. o.kind = kind /\ o.project = s.project /\ o.name = s.name /\ o.row = req[c].row
        BY <2>4
    <2>7. \A p \in objects : ~(p.kind = o.kind /\ p.project = o.project /\ p.name = o.name)
        BY <1>5, <2>1, <2>6 DEF There
    <2>8. \A p, w \in objects' : p.kind = w.kind /\ p.project = w.project /\ p.name = w.name => p = w
        BY <1>5, <2>5, <2>7 DEF TypeInv, ObjectInv
    <2>9. \A p \in objects' : p.row <= lastRow'
        BY <1>1, <1>5, <2>3, <2>5, <2>6 DEF TypeInv, ObjectInv
    <2>. QED  BY <1>5, <2>5, <2>8, <2>9 DEF TypeInv, ObjectInv
<1>6. ObjectInv'
    <2>1. CASE objects' \subseteq objects
        BY <1>2, <2>1, ObjectsStay
    <2>2. CASE CreateWorkload(c)
        <3>1. PICK kind \in {"Deployment", "StatefulSet"} : kind = KindOf(req[c].op)
            BY DEF KindOf
        <3>2. CASE ~There(kind, Step(c).project, Step(c).name) /\ objects' = objects \cup {Made(c, kind)}
            BY <1>5, <3>2
        <3>3. CASE objects' = objects
            BY <2>1, <3>3
        <3>. QED  BY <2>2, <3>1, <3>2, <3>3 DEF CreateWorkload, Made
    <2>3. CASE CreateService(c)
        <3>1. CASE ~There("Service", Step(c).project, Step(c).name) /\ objects' = objects \cup {Made(c, "Service")}
            BY <1>5, <3>1
        <3>. QED  BY <2>1, <2>3, <3>1 DEF CreateService, Made
    <2>. QED  BY <2>2, <2>3
<1>. QED  BY <1>2, <1>3, <1>4, <1>6 DEF TypeInv

\* The rows after the step of a request that changes the status of one.
LEMMA UpdateTyped ==
    ASSUME TypeInv, NEW c \in Clients, UpdateService(c)
    PROVE  TypeInv' /\ RowsMove
<1> DEFINE up(r) == IF r.id = req[c].row THEN [r EXCEPT !.status = "uncompleted"] ELSE r
<1>1. /\ pc[c] = "status" /\ rows' = {up(r) : r \in rows} /\ Goto(c, "clean")
      /\ UNCHANGED <<userOf, heap, cache, lastRow, objects, req, asks, entered>>
    BY DEF UpdateService
<1>2. \A r \in rows : up(r) \in Row /\ up(r).id = r.id /\ SameRow(r, up(r))
    BY StatusKept DEF TypeInv, TableInv, SameRow
<1> HIDE DEF up
<1>3. \A s \in rows' : \E r \in rows : s = up(r)
    BY <1>1
<1>4. \A s, t \in rows' : s.id = t.id => s = t
    BY <1>2, <1>3 DEF TypeInv, TableInv
<1>5. RowsMove /\ TableInv'
    BY <1>1, <1>2, <1>3, <1>4, RowsKept
<1>6. StepInv' /\ CellsKeep
    BY <1>1, <1>5, UserTyped, StepsUntouched
<1>. QED  BY <1>1, <1>5, <1>6, ObjectsStay, GotoStep DEF TypeInv, PCs

LEMMA StopTyped ==
    ASSUME TypeInv, NEW id \in 1..MaxRows, StopService(id)
    PROVE  TypeInv' /\ RowsMove
<1>1. PICK r \in rows : r.id = id /\ rows' = (rows \ {r}) \cup {[r EXCEPT !.status = "stopped"]}
                        /\ objects' \subseteq objects
                        /\ UNCHANGED <<userOf, heap, cache, lastRow, procVars, asks, entered>>
    BY DEF StopService
<1>2. PICK s \in Row : s = [r EXCEPT !.status = "stopped"] /\ s.id = r.id /\ SameRow(r, s)
    BY StatusKept DEF TypeInv, TableInv
<1>3. rows' = (rows \ {r}) \cup {s}
    BY <1>1, <1>2
<1>4. RowsMove /\ TableInv'
    <2>1. \A x \in rows' : x = s \/ (x \in rows /\ x # r)
        BY <1>3
    <2>2. \A x, y \in rows' : x.id = y.id => x = y
        BY <1>2, <2>1 DEF TypeInv, TableInv
    <2>3. \A x \in rows' : x \in Row /\ \E y \in rows : SameRow(y, x)
        BY <1>2, <2>1, SameSelf DEF TypeInv, TableInv
    <2>. QED  BY <1>1, <2>2, <2>3, RowsKept
<1>5. StepInv' /\ CellsKeep
    <2>1. cache' \in [Users -> 0..First] /\ entered' \in [Users -> ConfigServiceStep]
          /\ asks' \in 0..MaxAsks /\ asks <= asks'
          /\ \A u \in Users : entered'[u].name.tests <= asks'
        BY <1>1, Bounds DEF TypeInv, StepInv
    <2>. QED  BY <1>1, <1>4, <2>1, StepsStay
<1>. QED  BY <1>1, <1>4, <1>5, ObjectsStay, ProcStays DEF TypeInv

LEMMA UndoTyped ==
    ASSUME TypeInv, NEW c \in Clients,
           StopServiceK8s(c) \/ DeleteRow(c) \/ CleanStep(c) \/ Fails(c)
    PROVE  TypeInv' /\ RowsMove
<1>1. /\ pc[c] # "idle" /\ UNCHANGED <<userOf, heap, lastRow, asks>>
      /\ rows' \subseteq rows /\ objects' \subseteq objects
      /\ cache' = cache \/ cache' = [cache EXCEPT ![userOf[c]] = 0]
      /\ entered' = entered \/ entered' = [entered EXCEPT ![userOf[c]] = Blank]
    BY DEF StopServiceK8s, DeleteRow, CleanStep, Fails, DeleteConfigServiceStep
<1>2. RowsMove /\ TableInv'
    BY <1>1, RowsKept DEF TypeInv, TableInv, SameRow
<1>3. StepInv' /\ CellsKeep
    BY <1>1, <1>2, UserTyped, StepsUntouched
<1>4. ProcInv'
    <2>1. CASE Return(c)
        BY <1>2, <1>3, <2>1, ReturnStep
    <2>2. CASE UNCHANGED req /\ Goto(c, "undoRow")
        BY <1>1, <1>2, <1>3, <2>2, GotoStep DEF PCs
    <2>3. CASE UNCHANGED req /\ Goto(c, "clean")
        BY <1>1, <1>2, <1>3, <2>3, GotoStep DEF PCs
    <2>. QED  BY <2>1, <2>2, <2>3 DEF StopServiceK8s, DeleteRow, CleanStep, Fails
<1>. QED  BY <1>1, <1>2, <1>3, <1>4, ObjectsStay DEF TypeInv

LEMMA DropTyped ==
    ASSUME TypeInv, \/ \E c \in Clients : DeleteServiceStepAction(c)
                    \/ \E u \in Users : Expire(u)
    PROVE  TypeInv'
<1>1. PICK u \in Users : cache' = [cache EXCEPT ![u] = 0]
                         /\ UNCHANGED <<userOf, heap, rows, lastRow, objects, procVars, asks, entered>>
    BY UserTyped DEF DeleteServiceStepAction, Expire, DeleteConfigServiceStep
<1>2. RowsMove /\ TableInv' /\ ObjectInv'
    BY <1>1, RowsStay, TableStays, ObjectsStay
<1>3. StepInv' /\ CellsKeep
    BY <1>1, <1>2, StepsUntouched
<1>. QED  BY <1>1, <1>2, <1>3, ProcStays DEF TypeInv

-----------------------------------------------------------------------------
LEMMA TypeNext == TypeInv /\ [Next]_vars => TypeInv'
<1> SUFFICES ASSUME TypeInv, [Next]_vars PROVE TypeInv'
    OBVIOUS
<1>1. CASE UNCHANGED vars
    <2>1. RowsMove /\ TableInv' /\ ObjectInv'
        BY <1>1, RowsStay, TableStays, ObjectsStay DEF vars
    <2>2. StepInv' /\ CellsKeep
        <3>1. cache' \in [Users -> 0..First] /\ entered' \in [Users -> ConfigServiceStep]
              /\ asks' \in 0..MaxAsks /\ asks <= asks'
              /\ \A u \in Users : entered'[u].name.tests <= asks'
            BY <1>1, Bounds DEF TypeInv, StepInv, vars
        <3>. QED  BY <1>1, <2>1, <3>1, StepsStay DEF vars
    <2>. QED  BY <1>1, <2>1, <2>2, ProcStays DEF TypeInv, vars
<1>2. CASE \E c \in Clients : Asks(c)
    BY <1>2, SetAskTyped, DeployAskTyped, TestAskTyped, UndoAskTyped, DropTyped DEF Asks
<1>3. CASE \E c \in Clients : Continues(c)
    BY <1>3, SetPhaseTyped, SetServiceTyped, CheckTyped, RowTyped, WorkloadTyped, UpdateTyped, UndoTyped
       DEF Continues
<1>4. CASE \E u \in Users : Expire(u)
    BY <1>4, DropTyped
<1>5. CASE \E id \in 1..MaxRows : StopService(id)
    BY <1>5, StopTyped
<1>. QED  BY <1>1, <1>2, <1>3, <1>4, <1>5 DEF Next

\* A step that is there from the beginning.
LEMMA EnteredStepTyped ==
    ASSUME NEW id \in 0..MaxRows, NEW step \in Entered(id)
    PROVE  /\ step \in ConfigServiceStep /\ step.name.tests = 0 /\ step.checked.rows = id
           /\ step.project \in Projects /\ step.checked.project = step.project
<1>1. PICK p \in Projects, n \in Names, l \in ContainerLists : step = EnteredStep(p, n, l, id)
    BY DEF Entered
<1>2. PICK m \in Name : m = [base |-> n, tests |-> 0]
    <2>1. 0 \in 0..MaxAsks
        BY Bounds
    <2>. QED  BY <2>1 DEF Name
<1>3. PICK k \in Check : k = [project |-> p, name |-> m, rows |-> id]
    BY DEF Check
<1>4. [Blank.name EXCEPT !.base = n] = m
    BY <1>2, BlankTyped DEF NoName
<1>5. step = [Blank EXCEPT !.project = p, !.name = m, !.containers = l, !.externals = l, !.checked = k]
    BY <1>1, <1>2, <1>3, <1>4, BlankTyped DEF EnteredStep, ConfigServiceStep
<1>6. l \in SUBSET Containers
    BY DEF Containers
<1>7. step \in ConfigServiceStep /\ step.project = p /\ step.name = m /\ step.checked = k
    BY <1>5, <1>6, BlankTyped DEF ConfigServiceStep
<1>. QED  BY <1>2, <1>3, <1>7

LEMMA EarlierTyped ==
    ASSUME NEW u \in Users, NEW r \in Earlier
    PROVE  r \in Row /\ r.id = 1 /\ r.checked = Blank.checked /\ r.cell = 0
<1>1. 0 \in 0..MaxAsks /\ 0 \in 0..First /\ 1 \in 1..MaxRows
    BY Bounds
<1>2. PICK w \in Users : w = CHOOSE v \in Users : TRUE
    OBVIOUS
<1>3. [base : Names, tests : {0}] \subseteq Name
    BY <1>1 DEF Name
<1>4. r \in [id : {1}, project : Projects, name : [base : Names, tests : {0}], owner : {w},
             status : {"uncompleted", "stopped"}, cell : {0}, checked : {Blank.checked}]
    BY <1>2 DEF Earlier
<1>. QED  BY <1>1, <1>3, <1>4, BlankTyped DEF Row

LEMMA TypeInit == Init => TypeInv
<1> SUFFICES ASSUME Init PROVE TypeInv
    OBVIOUS
<1>1. PICK u \in Users, step \in Entered(lastRow) \cup {Blank} :
          /\ \A r \in rows : r.project # step.project
          /\ heap = [i \in Cells |-> IF i = First THEN step ELSE Blank]
          /\ cache = [v \in Users |-> IF v = u /\ step # Blank THEN First ELSE 0]
          /\ entered = [v \in Users |-> IF v = u THEN step ELSE Blank]
    BY DEF Init
<1>2. /\ lastRow \in 0..MaxRows /\ lastRow \in Nat
      /\ \/ rows = {}
         \/ lastRow = 1 /\ \E r \in Earlier : rows = {r}
    <2>1. 0 \in 0..MaxRows /\ 1 \in 0..MaxRows
        BY Bounds
    <2>2. (lastRow = 0 /\ rows = {}) \/ (lastRow = 1 /\ \E r \in Earlier : rows = {r})
        BY DEF Init
    <2>. QED  BY <2>1, <2>2
<1>3. \A r \in rows : r \in Earlier /\ lastRow = 1
    BY <1>2
<1>4. \A r \in rows : r \in Row /\ r.id = 1 /\ r.checked = Blank.checked
    BY <1>3, EarlierTyped
<1>5. Valid(Blank.checked)
    BY <1>2, <1>4, BlankTyped DEF Valid
<1>6. step \in ConfigServiceStep /\ step.name.tests = 0 /\ Valid(step.checked)
    <2>1. CASE step = Blank
        BY <1>5, <2>1, BlankTyped
    <2>2. CASE step \in Entered(lastRow)
        BY <1>1, <1>2, <2>2, EnteredStepTyped DEF Valid
    <2>. QED  BY <2>1, <2>2
<1>7. StepInv
    <2>1. userOf \in Tabs /\ asks = 0 /\ 0 \in 0..MaxAsks
        BY Bounds DEF Init
    <2>2. cache \in [Users -> 0..First]
        BY <1>1, Bounds
    <2>3. \A i \in Cells : Fits(heap[i])
        BY <1>1, <1>5, <1>6, <2>1, BlankTyped DEF Fits
    <2>. QED  BY <1>1, <1>6, <2>1, <2>2, <2>3, BlankTyped DEF StepInv
<1>8. TableInv
    BY <1>2, <1>4, <1>5 DEF TableInv
<1>9. ObjectInv
    <2>1. CASE objects = {}
        BY <2>1 DEF ObjectInv
    <2>2. CASE objects # {}
        <3>1. PICK r \in rows : /\ lastRow = 1
                  /\ objects = {[kind |-> k, project |-> r.project, name |-> r.name, row |-> 1,
                                 step |-> Blank, asked |-> Blank] : k \in {"Deployment", "Service"}}
            BY <2>2 DEF Init
        <3>2. r.project \in Projects /\ r.name \in Name
            BY <1>4 DEF Row
        <3>3. 1 \in 0..MaxRows
            BY Bounds
        <3>4. \A o \in objects : o \in Object /\ o.row = 1
            BY <3>1, <3>2, <3>3, BlankTyped DEF Object
        <3>5. \A o, p \in objects : o.kind = p.kind => o = p
            BY <3>1
        <3>. QED  BY <3>1, <3>4, <3>5 DEF ObjectInv
    <2>. QED  BY <2>1, <2>2
<1>10. ProcInv
    BY <1>5, NullTyped, BlankTyped DEF Init, ProcInv, PCs, Shape
<1>. QED  BY <1>7, <1>8, <1>9, <1>10 DEF TypeInv

\* What a request, the cells, the rows and the objects are, after any steps (every action).
THEOREM WizardTypeCorrect == Spec => []TypeOK
<1>1. TypeInv /\ [Next]_vars => TypeInv'
    BY TypeNext
<1>. QED  BY <1>1, TypeInit, TypeInvTyped, PTL DEF Spec

-----------------------------------------------------------------------------
\* The check a row was inserted after saw every row of that name and project, also of services
\* that are stopped, that had a number by then (checkServiceDuplicateName, CreateServiceConfig).
THEOREM CheckedNamesUnique == Spec => []NamesAreUnique
<1>1. TypeInv => NamesAreUnique
    <2> SUFFICES ASSUME TypeInv, NEW r \in rows, NEW s \in rows, r.name = s.name, r.project = s.project,
                        CheckedAgainst(s.checked, s.project, s.name, r.id)
                 PROVE  FALSE
        BY DEF NamesAreUnique
    <2>1. s.checked.rows < r.id /\ s.checked.rows >= r.id
        BY DEF CheckedAgainst, TypeInv, TableInv, Valid
    <2>2. s.checked.rows \in Nat /\ r.id \in Nat
        BY Bounds DEF TypeInv, TableInv, Row, Check
    <2>. QED  BY <2>1, <2>2
<1>2. TypeInv /\ [Next]_vars => TypeInv'
    BY TypeNext
<1>. QED  BY <1>1, <1>2, TypeInit, PTL DEF Spec

\* DeleteRow is the only step that removes a row, and the check of the step it was asked for had
\* not seen a row of that name.
THEOREM UndoKeepsSeen == Spec => UndoRemovesOwn
<1> DEFINE Removes(r) == \A s \in rows' : s.id # r.id
           Own(r) == \E c \in Clients :
                        /\ pc[c] = "undoRow" /\ r.name = req[c].name /\ r.project = req[c].project
                        /\ \/ r.cell = req[c].cell
                           \/ ~CheckedAgainst(req[c].given.checked, r.project, r.name, r.id)
<1>1. ASSUME TypeInv, [Next]_vars, NEW r \in rows, Removes(r) PROVE Own(r)
    <2>1. CASE \E c \in Clients : DeleteRow(c)
        <3>1. PICK c \in Clients : DeleteRow(c)
            BY <2>1
        <3>2. pc[c] = "undoRow" /\ r.name = req[c].name /\ r.project = req[c].project
            BY <1>1, <3>1 DEF DeleteRow
        <3>3. Valid(req[c].given.checked)
            BY <1>1, <3>2, UnderwayTyped
        <3>4. req[c].given.checked.rows \in Nat /\ r.id \in Nat
            BY <1>1, <3>2, UnderwayTyped, Bounds DEF TypeInv, TableInv, Row, Check
        <3>5. ~CheckedAgainst(req[c].given.checked, r.project, r.name, r.id)
            BY <3>3, <3>4 DEF Valid, CheckedAgainst
        <3>. QED  BY <3>2, <3>5
    <2>2. CASE \E c \in Clients : UpdateService(c)
        <3>1. PICK c \in Clients : UpdateService(c)
            BY <2>2
        <3>2. PICK s \in rows' : s = IF r.id = req[c].row THEN [r EXCEPT !.status = "uncompleted"] ELSE r
            BY <3>1 DEF UpdateService
        <3>3. s.id = r.id
            BY <1>1, <3>2, StatusKept DEF TypeInv, TableInv
        <3>. QED  BY <1>1, <3>3
    <2>3. CASE \E id \in 1..MaxRows : StopService(id)
        <3>1. PICK t \in rows : rows' = (rows \ {t}) \cup {[t EXCEPT !.status = "stopped"]}
            BY <2>3 DEF StopService
        <3>2. [t EXCEPT !.status = "stopped"].id = t.id
            BY <1>1, StatusKept DEF TypeInv, TableInv
        <3>. QED  BY <1>1, <3>1, <3>2
    <2>4. CASE rows \subseteq rows'
        BY <1>1, <2>4
    <2>5. ASSUME NEW c \in Clients, Asks(c) PROVE rows' = rows
        BY <2>5 DEF Asks, SetConfigServiceStepAction, DeployServiceAction, DeployServiceTestAction,
            DeleteDeployAction, DeleteServiceStepAction
    <2>6. ASSUME NEW c \in Clients, Continues(c), ~DeleteRow(c), ~UpdateService(c)
          PROVE  rows \subseteq rows'
        <3>1. CASE \/ selectProject(c) \/ configContainerList(c) \/ configInitContainerList(c)
                   \/ checkServiceDuplicateName(c) \/ configExternalService(c) \/ configEntireService(c)
            BY <3>1 DEF selectProject, configContainerList, configInitContainerList, SetConfigServiceStep,
                checkServiceDuplicateName, configExternalService, configEntireService
        <3>2. CASE CreateServiceConfig(c) \/ CreateWorkload(c) \/ CreateService(c) \/ CleanStep(c)
            BY <3>2 DEF CreateServiceConfig, CreateWorkload, CreateService, CleanStep
        <3>3. CASE StopServiceK8s(c) \/ Fails(c)
            BY <3>3 DEF StopServiceK8s, Fails
        <3>. QED  BY <2>6, <3>1, <3>2, <3>3 DEF Continues
    <2>7. ASSUME NEW u \in Users, Expire(u) PROVE rows' = rows
        BY <2>7 DEF Expire
    <2>. QED
        BY <1>1, <2>1, <2>2, <2>3, <2>4, <2>5, <2>6, <2>7 DEF Next, vars
<1>2. TypeInv /\ [Next]_vars => [\A r \in rows : Removes(r) => Own(r)]_vars
    BY <1>1
<1>3. TypeInv /\ [Next]_vars => TypeInv'
    BY TypeNext
<1>. QED  BY <1>2, <1>3, TypeInit, PTL DEF Spec, UndoRemovesOwn

-----------------------------------------------------------------------------
LEMMA OneClient ==
    ASSUME TypeInv, NEW u \in Users, Patient(u), NEW c \in Clients, NEW d \in Clients,
           userOf[c] = u, userOf[d] = u
    PROVE  c = d
<1> DEFINE S == {b \in Clients : userOf[b] = u}
<1>1. IsFiniteSet(S)
    BY WizardAssumption, FS_Subset
<1>2. PICK x : S = {x}
    BY <1>1, FS_Singleton DEF Patient
<1>. QED  BY <1>2

\* The cells in use after a step of a request that keeps its cell or gets the cell i.
LEMMA UseStep ==
    ASSUME TypeInv, UNCHANGED userOf, NEW c \in Clients, NEW i \in Cells,
           \A d \in Clients \ {c} : pc'[d] = pc[d] /\ req'[d] = req[d],
           pc'[c] = "idle" \/ req'[c].cell = i,
           \A v \in Users : cache'[v] \in {cache[v], 0} \/ (v = userOf[c] /\ cache'[v] = i)
    PROVE  \A v \in Users, j \in Cells : InUse(v, j)' => InUse(v, j) \/ (v = userOf[c] /\ j = i)
<1> SUFFICES ASSUME NEW v \in Users, NEW j \in Cells, InUse(v, j)', ~InUse(v, j)
             PROVE  v = userOf[c] /\ j = i
    OBVIOUS
<1>1. CASE cache'[v] = j
    BY <1>1, Bounds DEF InUse
<1>2. CASE \E d \in Clients : userOf'[d] = v /\ pc'[d] # "idle" /\ req'[d].cell = j
    <2>1. PICK d \in Clients : userOf'[d] = v /\ pc'[d] # "idle" /\ req'[d].cell = j
        BY <1>2
    <2>2. d = c
        BY <2>1 DEF InUse
    <2>. QED  BY <2>1, <2>2
<1>. QED  BY <1>1, <1>2 DEF InUse

\* The cell i of u, or one nobody used yet, is written.
Mine(u, i) == InUse(u, i) \/ (asks < MaxAsks /\ i = asks + 1 /\ asks' = asks + 1)

LEMMA CellsStep ==
    ASSUME TypeInv, CellsInv, TypeInv', asks <= asks', NEW u \in Users, NEW i \in Cells, Mine(u, i),
           \A v \in Users, j \in Cells : InUse(v, j)' => InUse(v, j) \/ (v = u /\ j = i),
           \A j \in Cells \ {i} : heap'[j] = heap[j]
    PROVE  CellsInv'
<1>1. asks \in Nat /\ asks' \in Nat /\ First \in Nat /\ MaxAsks \in Nat /\ First = MaxAsks + 1
    BY Bounds DEF TypeInv, StepInv
<1>2. \A j \in Cells : j \in Nat
    BY Bounds
<1>3. \A v \in Users : InUse(v, i) => v = u
    BY <1>1 DEF CellsInv, Mine
<1>4. i <= asks' \/ i = First
    BY <1>1, <1>2 DEF CellsInv, Mine
<1>5. \A v, w \in Users, j \in Cells : InUse(v, j)' /\ InUse(w, j)' => v = w
    BY <1>3 DEF CellsInv
<1>6. \A v \in Users, j \in Cells : InUse(v, j)' => j <= asks' \/ j = First
    BY <1>1, <1>2, <1>4 DEF CellsInv
<1>7. \A j \in Cells : asks' < j /\ j # First => heap'[j] = Blank
    BY <1>1, <1>2, <1>4 DEF CellsInv
<1>. QED  BY <1>5, <1>6, <1>7 DEF CellsInv

LEMMA CellInUse ==
    ASSUME TypeInv, NEW c \in Clients, pc[c] # "idle"
    PROVE  req[c].cell \in Cells /\ InUse(userOf[c], req[c].cell)
BY UnderwayTyped DEF InUse

\* What one user's request does to its cell, the other users notice nothing of.
LEMMA OthersEntered ==
    ASSUME TypeInv, CellsInv, UNCHANGED userOf, NEW u \in Users, NEW i \in Cells, Mine(u, i),
           \A j \in Cells \ {i} : heap'[j] = heap[j],
           NEW v \in Users \ {u}, EnteredOf(v), UNCHANGED <<cache[v], entered[v]>>,
           \A d \in Clients : userOf[d] = v => pc'[d] = pc[d] /\ req'[d] = req[d]
    PROVE  EnteredOf(v)'
<1>1. asks \in Nat /\ First = MaxAsks + 1 /\ MaxAsks \in Nat
    BY Bounds DEF TypeInv, StepInv
<1>2. ~InUse(v, i)
    BY <1>1 DEF CellsInv, Mine
<1>3. cache[v] # 0 => cache[v] \in Cells /\ heap'[cache[v]] = heap[cache[v]]
    BY <1>2, Bounds DEF InUse, TypeInv, StepInv
<1>4. ASSUME NEW d \in Clients, userOf[d] = v PROVE EnteredBy(d)'
    <2>1. EnteredBy(d)
        BY <1>4 DEF EnteredOf
    <2>2. CASE pc[d] = "idle"
        BY <1>4, <2>2 DEF EnteredBy
    <2>3. CASE pc[d] # "idle"
        <3>1. req[d].cell \in Cells /\ req[d].cell # i
            BY <1>2, <1>4, <2>3, CellInUse
        <3>2. heap'[req[d].cell] = heap[req[d].cell]
            BY <3>1
        <3>. QED  BY <1>4, <2>1, <3>2 DEF EnteredBy, Step
    <2>. QED  BY <2>2, <2>3
<1>5. cache'[v] # 0 => Agree(heap'[cache'[v]], entered'[v])
    BY <1>3 DEF EnteredOf
<1>. QED  BY <1>4, <1>5 DEF EnteredOf, Agree

\* A step of a request that writes at most its cell; the user's other steps are none when the user is patient.
LEMMA ActingStep ==
    ASSUME TypeInv, TypeInv', CellsInv, EnteredInv, asks <= asks', UNCHANGED userOf,
           NEW c \in Clients, NEW u \in Users, u = userOf[c], NEW i \in Cells, Mine(u, i),
           \A j \in Cells \ {i} : heap'[j] = heap[j],
           \A d \in Clients \ {c} : pc'[d] = pc[d] /\ req'[d] = req[d],
           pc'[c] = "idle" \/ req'[c].cell = i,
           \A v \in Users \ {u} : cache'[v] = cache[v] /\ entered'[v] = entered[v],
           cache'[u] \in {cache[u], 0, i},
           Patient(u) => /\ cache'[u] # 0 => Agree(heap'[cache'[u]], entered'[u])
                         /\ EnteredBy(c)'
    PROVE  CellsInv' /\ EnteredInv'
<1>1. CellsInv'
    <2>1. \A v \in Users : cache'[v] \in {cache[v], 0} \/ (v = u /\ cache'[v] = i)
        OBVIOUS
    <2>2. \A v \in Users, j \in Cells : InUse(v, j)' => InUse(v, j) \/ (v = u /\ j = i)
        BY <2>1, UseStep
    <2>. QED  BY <2>2, CellsStep
<1>2. ASSUME NEW v \in Users, Patient(v)' PROVE EnteredOf(v)'
    <2>1. Patient(v)
        BY <1>2 DEF Patient
    <2>2. CASE v = u
        <3>1. \A d \in Clients : userOf[d] = u => d = c
            BY <2>1, <2>2, OneClient
        <3>2. EnteredBy(c)' /\ (cache'[u] # 0 => Agree(heap'[cache'[u]], entered'[u]))
            BY <2>1, <2>2
        <3>3. \A d \in Clients : userOf'[d] = u => EnteredBy(d)'
            BY <3>1, <3>2
        <3>. QED  BY <2>2, <3>2, <3>3 DEF EnteredOf, Agree
    <2>3. CASE v # u
        <3>1. EnteredOf(v) /\ UNCHANGED <<cache[v], entered[v]>>
            BY <2>1, <2>3 DEF EnteredInv
        <3>2. \A d \in Clients : userOf[d] = v => pc'[d] = pc[d] /\ req'[d] = req[d]
            BY <2>3
        <3>3. v \in Users \ {u}
            BY <2>3
        <3>. QED  BY <3>1, <3>2, <3>3, OthersEntered
    <2>. QED  BY <2>2, <2>3
<1>. QED  BY <1>1, <1>2 DEF EnteredInv

\* The rows of the requests that had inserted theirs.
LEMMA RowsSame ==
    ASSUME TypeInv, RowInv, RowsMove, UNCHANGED userOf, NEW d \in Clients,
           pc[d] \in {"workload", "service"}, req'[d] = req[d], NEW r \in rows', r.id = req'[d].row
    PROVE  r.owner = userOf'[d] /\ r.project = req'[d].project /\ r.name = req'[d].name
<1>1. req[d].row <= lastRow /\ req[d].row \in Nat /\ lastRow \in Nat
    BY Bounds DEF TypeInv, TableInv, ProcInv, Shape, Request
<1>2. PICK s \in rows : SameRow(s, r)
    BY <1>1 DEF RowsMove
<1>. QED  BY <1>2 DEF RowInv, SameRow

LEMMA RowInvKept ==
    ASSUME TypeInv, RowInv, RowsMove, UNCHANGED userOf,
           \A d \in Clients : pc'[d] \in {"workload", "service"} =>
               pc[d] \in {"workload", "service"} /\ req'[d] = req[d]
    PROVE  RowInv'
BY RowsSame DEF RowInv

\* Whom a row belongs to and what it is of does not change, and a new one has no objects yet.
LEMMA DeployedKept ==
    ASSUME TypeInv, EnteredIsDeployed, RowsMove, UNCHANGED userOf, NEW o \in objects, NEW r \in rows',
           o.row = r.id, r.cell # 0, Patient(r.owner)'
    PROVE  /\ o.project = r.project /\ o.name = r.name /\ Agree(o.step, o.asked)
<1>1. o.row <= lastRow /\ o.row \in Nat /\ lastRow \in Nat
    BY Bounds DEF TypeInv, TableInv, ObjectInv, Object
<1>2. PICK s \in rows : SameRow(s, r)
    BY <1>1 DEF RowsMove
<1>3. Patient(s.owner)
    BY <1>2 DEF SameRow, Patient
<1>4. o.row = s.id /\ s.cell # 0
    BY <1>2 DEF SameRow
<1>5. o.project = s.project /\ o.name = s.name /\ Agree(o.step, o.asked)
    BY <1>3, <1>4 DEF EnteredIsDeployed, Agree
<1>. QED  BY <1>2, <1>5 DEF SameRow

LEMMA DeployedSame ==
    ASSUME TypeInv, EnteredIsDeployed, RowsMove, UNCHANGED userOf, objects' \subseteq objects
    PROVE  EnteredIsDeployed'
BY DeployedKept DEF EnteredIsDeployed, Agree

\* A request's step that deploys nothing and inserts nothing.
LEMMA NothingDeployed ==
    ASSUME TypeInv, WizardInv, UNCHANGED <<userOf, rows, lastRow, objects>>, NEW c \in Clients,
           \A d \in Clients \ {c} : pc'[d] = pc[d] /\ req'[d] = req[d],
           pc'[c] \notin {"workload", "service"}
    PROVE  RowInv' /\ EnteredIsDeployed'
BY RowsStay, RowInvKept, DeployedSame DEF WizardInv

LEMMA ReturnFrame ==
    ASSUME TypeInv, NEW c \in Clients, Return(c)
    PROVE  pc'[c] = "idle" /\ \A d \in Clients \ {c} : pc'[d] = pc[d] /\ req'[d] = req[d]
BY DEF Return, Goto, TypeInv, ProcInv

LEMMA SetEntered ==
    ASSUME TypeInv, TypeInv', WizardInv, NEW c \in Clients, pc[c] # "idle",
           NEW step, NEW asked, SetConfigServiceStep(c, step, asked),
           Patient(userOf[c]) => Agree(step, asked)
    PROVE  WizardInv'
<1>1. PICK u \in Users, i \in Cells : u = userOf[c] /\ i = req[c].cell /\ Mine(u, i)
    BY UserTyped, CellInUse DEF Mine
<1>2. /\ heap' = [heap EXCEPT ![i] = step] /\ cache' = [cache EXCEPT ![u] = i]
      /\ entered' = [entered EXCEPT ![u] = asked] /\ Return(c)
      /\ UNCHANGED <<userOf, rows, lastRow, objects, asks>>
    BY <1>1 DEF SetConfigServiceStep
<1>3. heap'[i] = step /\ cache'[u] = i /\ entered'[u] = asked
    BY <1>2 DEF TypeInv, StepInv
<1>4. \A j \in Cells \ {i} : heap'[j] = heap[j]
    BY <1>2 DEF TypeInv, StepInv
<1>5. \A v \in Users \ {u} : cache'[v] = cache[v] /\ entered'[v] = entered[v]
    BY <1>2 DEF TypeInv, StepInv
<1>6. pc'[c] = "idle" /\ \A d \in Clients \ {c} : pc'[d] = pc[d] /\ req'[d] = req[d]
    BY <1>2, ReturnFrame
<1>7. Patient(u) => (cache'[u] # 0 => Agree(heap'[cache'[u]], entered'[u]))
    BY <1>1, <1>3
<1>8. EnteredBy(c)'
    BY <1>6 DEF EnteredBy
<1>9. asks <= asks'
    BY <1>2, Bounds DEF TypeInv, StepInv
<1>10. cache'[u] \in {cache[u], 0, i}
    BY <1>3
<1>11. CellsInv' /\ EnteredInv'
    BY <1>1, <1>2, <1>4, <1>5, <1>6, <1>7, <1>8, <1>9, <1>10, ActingStep DEF WizardInv
<1>12. RowInv' /\ EnteredIsDeployed'
    BY <1>2, <1>6, NothingDeployed
<1>. QED  BY <1>11, <1>12 DEF WizardInv

\* The step a patient user's request works on is what the user entered.
LEMMA EnteredStepOf ==
    ASSUME TypeInv, EnteredInv, NEW c \in Clients, pc[c] # "idle", Patient(userOf[c])
    PROVE  EnteredBy(c)
BY UserTyped DEF EnteredInv, EnteredOf

LEMMA SetPhaseEntered ==
    ASSUME TypeInv, TypeInv', WizardInv, NEW c \in Clients,
           selectProject(c) \/ configContainerList(c) \/ configInitContainerList(c)
    PROVE  WizardInv'
<1>1. pc[c] = "set" /\ pc[c] # "idle" /\ req[c].op # "entire"
    BY DEF selectProject, configContainerList, configInitContainerList
<1>2. PICK s, e, g \in ConfigServiceStep : s = Step(c) /\ e = entered[userOf[c]] /\ g = req[c].given
    BY <1>1, UnderwayTyped
<1>3. Patient(userOf[c]) => Agree(s, e)
    BY <1>1, <1>2, EnteredStepOf DEF EnteredBy, WizardInv
<1>4. CASE selectProject(c)
    <2>1. PICK t, k : t = [s EXCEPT !.project = g.project] /\ k = [e EXCEPT !.project = g.project]
        OBVIOUS
    <2>2. Agree(s, e) => Agree(t, k)
        BY <2>1 DEF Agree, ConfigServiceStep
    <2>3. SetConfigServiceStep(c, t, k)
        BY <1>2, <1>4, <2>1 DEF selectProject
    <2>. QED  BY <1>1, <1>3, <2>2, <2>3, SetEntered
<1>5. CASE configContainerList(c)
    <2>1. PICK t, k :
              /\ t = [s EXCEPT !.containers = g.containers, !.externals = s.externals \cap g.containers]
              /\ k = [e EXCEPT !.containers = g.containers, !.externals = e.externals \cap g.containers]
        OBVIOUS
    <2>2. Agree(s, e) => Agree(t, k)
        BY <2>1 DEF Agree, ConfigServiceStep
    <2>3. SetConfigServiceStep(c, t, k)
        BY <1>2, <1>5, <2>1 DEF configContainerList, CheckServiceConfigPortMap, ConfigServiceStep
    <2>. QED  BY <1>1, <1>3, <2>2, <2>3, SetEntered
<1>6. CASE configInitContainerList(c)
    <2>1. PICK t, k :
              /\ t = [s EXCEPT !.inits = g.inits, !.externals = s.externals \cap g.inits]
              /\ k = [e EXCEPT !.inits = g.inits, !.externals = e.externals \cap g.inits]
        OBVIOUS
    <2>2. Agree(s, e) => Agree(t, k)
        BY <2>1 DEF Agree, ConfigServiceStep
    <2>3. SetConfigServiceStep(c, t, k)
        BY <1>2, <1>6, <2>1 DEF configInitContainerList, CheckServiceConfigPortMap, ConfigServiceStep
    <2>. QED  BY <1>1, <1>3, <2>2, <2>3, SetEntered
<1>. QED  BY <1>4, <1>5, <1>6

LEMMA SetServiceEntered ==
    ASSUME TypeInv, TypeInv', WizardInv, NEW c \in Clients, configExternalService(c) \/ configEntireService(c)
    PROVE  WizardInv'
<1>1. pc[c] = "set" /\ pc[c] # "idle"
    BY DEF configExternalService, configEntireService
<1>2. PICK s, e, g \in ConfigServiceStep : s = Step(c) /\ e = entered[userOf[c]] /\ g = req[c].given
    BY <1>1, UnderwayTyped
<1>3. CASE configExternalService(c)
    <2>1. Patient(userOf[c]) => Agree(s, e)
        BY <1>1, <1>2, <1>3, EnteredStepOf DEF EnteredBy, WizardInv, configExternalService
    <2>2. PICK t, k :
              /\ t = [s EXCEPT !.name = g.name, !.type = g.type, !.externals = g.externals,
                               !.checked = g.checked]
              /\ k = [e EXCEPT !.name = g.name, !.type = g.type, !.externals = g.externals]
        OBVIOUS
    <2>3. Agree(s, e) => Agree(t, k)
        BY <2>2 DEF Agree, ConfigServiceStep
    <2>4. SetConfigServiceStep(c, t, k)
        BY <1>2, <1>3, <2>2 DEF configExternalService
    <2>. QED  BY <1>1, <2>1, <2>3, <2>4, SetEntered
<1>4. CASE configEntireService(c)
    <2>1. SetConfigServiceStep(c, g, g)
        BY <1>2, <1>4 DEF configEntireService
    <2>2. Agree(g, g)
        BY DEF Agree
    <2>. QED  BY <1>1, <2>1, <2>2, SetEntered
<1>. QED  BY <1>3, <1>4

LEMMA FreshBlank ==
    ASSUME TypeInv, CellsInv, asks < MaxAsks
    PROVE  asks + 1 \in Cells /\ heap[asks + 1] = Blank
BY Bounds DEF CellsInv, TypeInv, StepInv

LEMMA CachedEntered ==
    ASSUME TypeInv, EnteredInv, NEW u \in Users, Patient(u), cache[u] # 0
    PROVE  Agree(heap[cache[u]], entered[u])
BY DEF EnteredInv, EnteredOf

\* A request that begins takes the cached cell or a new one.
LEMMA BeginEntered ==
    ASSUME TypeInv, TypeInv', WizardInv, UNCHANGED <<userOf, rows, lastRow, objects>>,
           NEW c \in Clients, NEW u \in Users, u = userOf[c], asks < MaxAsks, asks' = asks + 1,
           NEW i \in Cells, i \in {cache[u], asks + 1},
           NEW p, p \notin {"workload", "service"}, NEW q, q.cell = i,
           Goto(c, p), req' = [req EXCEPT ![c] = q],
           \A j \in Cells \ {i} : heap'[j] = heap[j],
           \A v \in Users \ {u} : cache'[v] = cache[v] /\ entered'[v] = entered[v],
           cache'[u] \in {cache[u], i},
           p = "row" => q.project = heap'[i].project,
           Patient(u) /\ cache'[u] # 0 => Agree(heap'[cache'[u]], entered'[u]),
           Patient(u) /\ q.op # "entire" => Agree(heap'[i], entered'[u])
    PROVE  WizardInv'
<1>1. asks <= asks' /\ Mine(u, i)
    BY Bounds DEF TypeInv, StepInv, Mine, InUse
<1>2. pc'[c] = p /\ req'[c] = q /\ \A d \in Clients \ {c} : pc'[d] = pc[d] /\ req'[d] = req[d]
    BY DEF Goto, TypeInv, ProcInv
<1>3. Patient(u) => EnteredBy(c)'
    BY <1>2 DEF EnteredBy, Step, Agree
<1>4. cache'[u] \in {cache[u], 0, i}
    OBVIOUS
<1>5. CellsInv' /\ EnteredInv'
    BY <1>1, <1>2, <1>3, <1>4, ActingStep DEF WizardInv
<1>6. RowInv' /\ EnteredIsDeployed'
    BY <1>2, NothingDeployed
<1>. QED  BY <1>5, <1>6 DEF WizardInv

LEMMA SetAskEntered ==
    ASSUME TypeInv, TypeInv', WizardInv, NEW c \in Clients, NEW phase \in Phases, NEW given \in Given(phase),
           SetConfigServiceStepAction(c, phase, given)
    PROVE  WizardInv'
<1>0. PICK p : p = IF phase \in {"external", "entire"} THEN "check" ELSE "set"
    OBVIOUS
<1>1. PICK u \in Users : u = userOf[c]
    BY UserTyped
<1>2. asks < MaxAsks /\ asks' = asks + 1 /\ UNCHANGED <<userOf, heap, cache, rows, lastRow, objects>>
    BY DEF SetConfigServiceStepAction, Ask
<1>3. PICK i \in Cells : i = NewConfigServiceStep(u, phase) /\ i \in {cache[u], asks + 1}
    <2>1. NewConfigServiceStep(u, phase) \in Cells
        BY <1>2, NewCell
    <2>. QED  BY <2>1 DEF NewConfigServiceStep
<1>4. PICK q : q = [NullRequest EXCEPT !.op = phase, !.given = given, !.cell = i]
    OBVIOUS
<1>5. q.cell = i /\ q.op = phase
    BY <1>4, NullTyped DEF Request
<1>6. /\ Goto(c, p) /\ req' = [req EXCEPT ![c] = q]
      /\ entered' = IF cache[u] = 0 THEN [entered EXCEPT ![u] = Blank] ELSE entered
    BY <1>0, <1>1, <1>3, <1>4 DEF SetConfigServiceStepAction, Ask
<1>7. p \notin {"workload", "service"} /\ (p = "row" => q.project = heap'[i].project)
    BY <1>0
<1>8. \A v \in Users \ {u} : cache'[v] = cache[v] /\ entered'[v] = entered[v]
    BY <1>2, <1>6 DEF TypeInv, StepInv
<1>9. entered'[u] = IF cache[u] = 0 THEN Blank ELSE entered[u]
    BY <1>6 DEF TypeInv, StepInv
<1>10. Patient(u) => (cache'[u] # 0 => Agree(heap'[cache'[u]], entered'[u]))
    BY <1>2, <1>9, CachedEntered DEF WizardInv
<1>11. ASSUME Patient(u), q.op # "entire" PROVE Agree(heap'[i], entered'[u])
    <2>1. CASE cache[u] = 0
        <3>1. heap[i] = Blank /\ entered'[u] = Blank
            BY <1>2, <1>3, <1>5, <1>9, <1>11, <2>1, FreshBlank DEF NewConfigServiceStep, WizardInv
        <3>. QED  BY <1>2, <3>1 DEF Agree
    <2>2. CASE cache[u] # 0
        BY <1>2, <1>3, <1>5, <1>9, <1>11, <2>2, CachedEntered DEF NewConfigServiceStep, WizardInv
    <2>. QED  BY <2>1, <2>2
<1>12. cache'[u] \in {cache[u], i} /\ \A j \in Cells \ {i} : heap'[j] = heap[j]
    BY <1>2
<1>13. UNCHANGED <<userOf, rows, lastRow, objects>> /\ q.cell = i
    BY <1>2, <1>5
<1>14. i \in {cache[u], asks + 1}
    BY <1>3
<1>15. asks < MaxAsks /\ asks' = asks + 1
    BY <1>2
<1>16. /\ Goto(c, p) /\ req' = [req EXCEPT ![c] = q]
    BY <1>6
<1>17. /\ p \notin {"workload", "service"} /\ q.cell = i /\ cache'[u] \in {cache[u], i}
       /\ (p = "row" => q.project = heap'[i].project)
    BY <1>7, <1>12, <1>13
<1>18. /\ Patient(u) /\ cache'[u] # 0 => Agree(heap'[cache'[u]], entered'[u])
       /\ Patient(u) /\ q.op # "entire" => Agree(heap'[i], entered'[u])
    BY <1>10, <1>11
<1>. QED  BY <1>1, <1>8, <1>12, <1>13, <1>14, <1>15, <1>16, <1>17, <1>18, BeginEntered

\* A request that looks up a project finds the cached step.
LEMMA CachedStep ==
    ASSUME TypeInv, CellsInv, asks < MaxAsks, NEW u \in Users, NEW op, op # "entire",
           heap[NewConfigServiceStep(u, op)].project # None
    PROVE  cache[u] # 0 /\ NewConfigServiceStep(u, op) = cache[u]
<1>1. cache[u] = 0 => heap[NewConfigServiceStep(u, op)] = Blank
    BY FreshBlank DEF NewConfigServiceStep
<1>2. cache[u] # 0
    BY <1>1, BlankTyped
<1>. QED  BY <1>2 DEF NewConfigServiceStep

LEMMA DeployAskEntered ==
    ASSUME TypeInv, TypeInv', WizardInv, NEW c \in Clients,
           DeleteDeployAction(c) \/ \E op \in {"deploy", "stateful"} : DeployServiceAction(c, op)
    PROVE  WizardInv'
<1>1. PICK u \in Users : u = userOf[c]
    BY UserTyped
<1>2. PICK op \in {"deploy", "stateful", "undo"}, p \in {"row", "undo"} :
          /\ IF op = "undo" THEN DeleteDeployAction(c) ELSE DeployServiceAction(c, op)
          /\ p = IF op = "undo" THEN "undo" ELSE "row"
    OBVIOUS
<1>3. asks < MaxAsks /\ asks' = asks + 1 /\ UNCHANGED <<userOf, heap, cache, rows, lastRow, objects, entered>>
    BY <1>2 DEF DeleteDeployAction, DeployServiceAction
<1>4. PICK i \in Cells : i = NewConfigServiceStep(u, op) /\ i \in {cache[u], asks + 1}
    BY <1>3, NewCell DEF NewConfigServiceStep
<1>5. PICK q : /\ q = IF op = "undo"
                      THEN [NullRequest EXCEPT !.op = "undo", !.cell = i, !.project = heap[i].project,
                                               !.name = heap[i].name, !.given.checked = heap[i].checked]
                      ELSE [NullRequest EXCEPT !.op = op, !.cell = i, !.project = heap[i].project]
    OBVIOUS
<1>6. q.cell = i /\ q.project = heap[i].project
    BY <1>5, NullTyped DEF Request
<1>7. Goto(c, p) /\ req' = [req EXCEPT ![c] = q] /\ heap[i].project # None
    BY <1>1, <1>2, <1>4, <1>5 DEF DeleteDeployAction, DeployServiceAction
<1>8. cache[u] # 0 /\ i = cache[u]
    BY <1>3, <1>4, <1>7, CachedStep DEF WizardInv
<1>9. Patient(u) => Agree(heap'[i], entered'[u]) /\ Agree(heap'[cache'[u]], entered'[u])
    BY <1>3, <1>8, CachedEntered DEF WizardInv
<1>10. cache'[u] \in {cache[u], i} /\ \A j \in Cells \ {i} : heap'[j] = heap[j]
    BY <1>3
<1>11. \A v \in Users \ {u} : cache'[v] = cache[v] /\ entered'[v] = entered[v]
    BY <1>3
<1>12. p \notin {"workload", "service"} /\ (p = "row" => q.project = heap'[i].project)
    BY <1>3, <1>6
<1>. QED  BY <1>1, <1>3, <1>4, <1>6, <1>7, <1>9, <1>10, <1>11, <1>12, BeginEntered

LEMMA TestAskEntered ==
    ASSUME TypeInv, TypeInv', WizardInv, NEW c \in Clients, DeployServiceTestAction(c)
    PROVE  WizardInv'
<1>1. PICK u \in Users : u = userOf[c]
    BY UserTyped
<1>2. asks < MaxAsks /\ asks' = asks + 1 /\ UNCHANGED <<userOf, rows, lastRow, objects>>
    BY DEF DeployServiceTestAction
<1>3. PICK i \in Cells : i = NewConfigServiceStep(u, "test") /\ i \in {cache[u], asks + 1}
    BY <1>2, NewCell DEF NewConfigServiceStep
<1>4. PICK q : q = [NullRequest EXCEPT !.op = "test", !.cell = i, !.project = heap[i].project]
    OBVIOUS
<1>5. q.cell = i /\ q.project = heap[i].project /\ q.op = "test"
    BY <1>4, NullTyped DEF Request
<1>6. PICK s, e \in ConfigServiceStep : /\ s = heap[i] /\ e = IF cache[u] = 0 THEN Blank ELSE entered[u]
                                        /\ s.name.tests <= asks /\ e.name.tests <= asks
    <2>1. heap[i] \in ConfigServiceStep /\ heap[i].name.tests <= asks
        BY DEF TypeInv, StepInv, Fits
    <2>2. entered[u] \in ConfigServiceStep /\ entered[u].name.tests <= asks
        BY DEF TypeInv, StepInv
    <2>3. Blank \in ConfigServiceStep /\ Blank.name.tests = 0 /\ asks \in Nat
        BY BlankTyped, Bounds DEF TypeInv, StepInv
    <2>. QED  BY <2>1, <2>2, <2>3
<1>7. PICK t, k : t = [s EXCEPT !.name.tests = @ + 1] /\ k = [e EXCEPT !.name.tests = @ + 1]
    OBVIOUS
<1>8. /\ heap' = [heap EXCEPT ![i] = t] /\ cache' = [cache EXCEPT ![u] = i]
      /\ entered' = [entered EXCEPT ![u] = k]
    BY <1>1, <1>3, <1>6, <1>7 DEF DeployServiceTestAction, TypeInv, StepInv
\* The step is the cached one, or a blank one of which nothing was entered.
<1>10. Patient(u) => Agree(s, e)
    <2>1. CASE cache[u] = 0
        <3>1. s = Blank /\ e = Blank
            BY <1>2, <1>3, <1>6, <2>1, FreshBlank DEF NewConfigServiceStep, WizardInv
        <3>. QED  BY <3>1 DEF Agree
    <2>2. CASE cache[u] # 0
        BY <1>3, <1>6, <2>2, CachedEntered DEF NewConfigServiceStep, WizardInv
    <2>. QED  BY <2>1, <2>2
<1>11. t.project = s.project /\ (Agree(s, e) => Agree(t, k))
    <2>1. /\ t.project = s.project /\ t.containers = s.containers /\ t.inits = s.inits
          /\ t.externals = s.externals /\ t.name = [s.name EXCEPT !.tests = s.name.tests + 1]
        BY <1>2, <1>6, <1>7, TestedTyped
    <2>2. /\ k.project = e.project /\ k.containers = e.containers /\ k.inits = e.inits
          /\ k.externals = e.externals /\ k.name = [e.name EXCEPT !.tests = e.name.tests + 1]
        BY <1>2, <1>6, <1>7, TestedTyped
    <2>. QED  BY <2>1, <2>2 DEF Agree
<1>12. heap'[i] = t /\ cache'[u] = i /\ entered'[u] = k
    BY <1>8 DEF TypeInv, StepInv
<1>13. \A j \in Cells \ {i} : heap'[j] = heap[j]
    BY <1>8 DEF TypeInv, StepInv
<1>14. \A v \in Users \ {u} : cache'[v] = cache[v] /\ entered'[v] = entered[v]
    BY <1>8 DEF TypeInv, StepInv
<1>15. Patient(u) => Agree(heap'[i], entered'[u]) /\ Agree(heap'[cache'[u]], entered'[u])
    BY <1>10, <1>11, <1>12
<1>16. q.project = heap'[i].project /\ cache'[u] \in {cache[u], 0, i} /\ cache'[u] \in {cache[u], i}
    BY <1>5, <1>6, <1>11, <1>12
<1>17. CASE Goto(c, "row") /\ req' = [req EXCEPT ![c] = q]
    <2>1. PICK p : p = "row"
        OBVIOUS
    <2>2. Goto(c, p) /\ p \notin {"workload", "service"} /\ (p = "row" => q.project = heap'[i].project)
        BY <1>16, <1>17, <2>1
    <2>3. req' = [req EXCEPT ![c] = q] /\ q.cell = i
        BY <1>5, <1>17
    <2>. QED  BY <1>1, <1>2, <1>3, <1>13, <1>14, <1>15, <1>16, <2>2, <2>3, BeginEntered
\* The project was not found: the step has its new name all the same.
<1>18. CASE UNCHANGED procVars
    <2>1. pc'[c] = "idle" /\ \A d \in Clients \ {c} : pc'[d] = pc[d] /\ req'[d] = req[d]
        BY <1>18 DEF DeployServiceTestAction, procVars
    <2>2. asks <= asks' /\ Mine(u, i)
        BY <1>2, <1>3, Bounds DEF TypeInv, StepInv, Mine, InUse
    <2>3. EnteredBy(c)'
        BY <2>1 DEF EnteredBy
    <2>4. CellsInv' /\ EnteredInv'
        BY <1>1, <1>2, <1>13, <1>14, <1>15, <1>16, <2>1, <2>2, <2>3, ActingStep DEF WizardInv
    <2>5. RowInv' /\ EnteredIsDeployed'
        BY <1>2, <2>1, NothingDeployed
    <2>. QED  BY <2>4, <2>5 DEF WizardInv
<1>19. UNCHANGED procVars \/ (Goto(c, "row") /\ req' = [req EXCEPT ![c] = q])
    BY <1>1, <1>3, <1>4 DEF DeployServiceTestAction
<1>. QED  BY <1>17, <1>18, <1>19

\* A step of a request that writes no step of the wizard.
LEMMA OwnStep ==
    ASSUME TypeInv, TypeInv', WizardInv, UNCHANGED <<userOf, heap, cache, asks, entered>>,
           NEW c \in Clients, pc[c] # "idle",
           \A d \in Clients \ {c} : pc'[d] = pc[d] /\ req'[d] = req[d],
           pc'[c] # "idle" =>
               /\ req'[c].cell = req[c].cell /\ req'[c].op = req[c].op
               /\ pc'[c] \in {"row", "workload", "service"} =>
                     pc[c] \in {"row", "workload", "service"} /\ req'[c].project = req[c].project
               /\ pc'[c] \in {"workload", "service"} =>
                     \/ req'[c].name = Step(c).name
                     \/ pc[c] \in {"workload", "service"} /\ req'[c].name = req[c].name
    PROVE  CellsInv' /\ EnteredInv'
<1>1. PICK u \in Users, i \in Cells : u = userOf[c] /\ i = req[c].cell /\ Mine(u, i)
    BY UserTyped, CellInUse DEF Mine
<1>2. Step(c)' = heap'[req'[c].cell]
    BY DEF Step
<1>3. pc'[c] # "idle" => Step(c)' = Step(c)
    BY <1>2 DEF Step
<1>4. Patient(u) => EnteredBy(c)'
    <2>1. Patient(u) => EnteredBy(c)
        BY <1>1, EnteredStepOf DEF WizardInv
    <2>. QED  BY <1>3, <2>1 DEF EnteredBy, Agree
<1>5. Patient(u) /\ cache'[u] # 0 => Agree(heap'[cache'[u]], entered'[u])
    BY CachedEntered DEF WizardInv
<1>6. asks <= asks' /\ cache'[u] \in {cache[u], 0, i}
    BY Bounds DEF TypeInv, StepInv
<1>7. pc'[c] = "idle" \/ req'[c].cell = i
    BY <1>1
<1>8. \A j \in Cells \ {i} : heap'[j] = heap[j]
    OBVIOUS
<1>9. \A v \in Users \ {u} : cache'[v] = cache[v] /\ entered'[v] = entered[v]
    OBVIOUS
<1>. QED  BY <1>1, <1>4, <1>5, <1>6, <1>7, <1>8, <1>9, ActingStep DEF WizardInv

\* Steps are dropped from the cache, no request goes on.
LEMMA DropStep ==
    ASSUME TypeInv, WizardInv, UNCHANGED <<userOf, heap, procVars, asks, entered>>,
           \A v \in Users : cache'[v] \in {cache[v], 0}
    PROVE  CellsInv' /\ EnteredInv'
<1>1. \A v \in Users, j \in Cells : InUse(v, j)' => InUse(v, j)
    BY Bounds DEF InUse, procVars
<1>2. CellsInv'
    BY <1>1 DEF CellsInv, WizardInv
<1>3. ASSUME NEW v \in Users, Patient(v)' PROVE EnteredOf(v)'
    <2>1. EnteredOf(v)
        BY <1>3 DEF Patient, EnteredInv, WizardInv
    <2>2. \A d \in Clients : EnteredBy(d) => EnteredBy(d)'
        BY DEF EnteredBy, Step, Agree, procVars
    <2>3. cache'[v] # 0 => cache'[v] = cache[v]
        OBVIOUS
    <2>. QED  BY <2>1, <2>2, <2>3 DEF EnteredOf, Agree
<1>. QED  BY <1>2, <1>3 DEF EnteredInv

LEMMA GotoFrame ==
    ASSUME TypeInv, NEW c \in Clients, NEW p, Goto(c, p)
    PROVE  pc'[c] = p /\ \A d \in Clients \ {c} : pc'[d] = pc[d]
BY DEF Goto, TypeInv, ProcInv

LEMMA CheckEntered ==
    ASSUME TypeInv, TypeInv', WizardInv, NEW c \in Clients, checkServiceDuplicateName(c)
    PROVE  WizardInv'
<1>1. /\ pc[c] = "check" /\ Goto(c, "set")
      /\ UNCHANGED <<userOf, heap, cache, rows, lastRow, objects, asks, entered>>
    BY DEF checkServiceDuplicateName
<1>2. PICK q \in Request : q = req[c]
    BY DEF TypeInv, ProcInv
<1>3. PICK k : req' = [req EXCEPT ![c].given.checked = k]
    BY DEF checkServiceDuplicateName
<1>4. PICK g : g = [q.given EXCEPT !.checked = k]
    OBVIOUS
<1>5. req' = [req EXCEPT ![c] = [q EXCEPT !.given = g]]
    BY <1>2, <1>3, <1>4
<1>6. req'[c].cell = req[c].cell /\ req'[c].op = req[c].op /\ \A d \in Clients \ {c} : req'[d] = req[d]
    BY <1>2, <1>5 DEF TypeInv, ProcInv, Request
<1>7. pc'[c] = "set" /\ \A d \in Clients \ {c} : pc'[d] = pc[d]
    BY <1>1, GotoFrame
<1>8. CellsInv' /\ EnteredInv'
    BY <1>1, <1>6, <1>7, OwnStep
<1>9. RowInv' /\ EnteredIsDeployed'
    BY <1>1, <1>6, <1>7, NothingDeployed
<1>. QED  BY <1>8, <1>9 DEF WizardInv

LEMMA RowEntered ==
    ASSUME TypeInv, TypeInv', WizardInv, NEW c \in Clients, CreateServiceConfig(c)
    PROVE  WizardInv'
<1>1. /\ pc[c] = "row" /\ lastRow' = lastRow + 1 /\ Goto(c, "workload")
      /\ UNCHANGED <<userOf, heap, cache, objects, asks, entered>>
    BY DEF CreateServiceConfig
<1>2. PICK q \in Request : q = req[c]
    BY DEF TypeInv, ProcInv
<1>3. PICK p : p = [q EXCEPT !.row = lastRow + 1, !.name = Step(c).name]
    OBVIOUS
<1>4. req' = [req EXCEPT ![c] = p]
    BY <1>2, <1>3 DEF CreateServiceConfig, TypeInv, ProcInv
<1>5. /\ req'[c] = p /\ p.cell = req[c].cell /\ p.op = req[c].op /\ p.project = req[c].project
      /\ p.row = lastRow + 1 /\ p.name = Step(c).name
    BY <1>2, <1>3, <1>4 DEF TypeInv, ProcInv, Request
<1>6. \A d \in Clients \ {c} : pc'[d] = pc[d] /\ req'[d] = req[d]
    BY <1>1, <1>4, GotoFrame DEF TypeInv, ProcInv
<1>7. pc'[c] = "workload"
    BY <1>1, GotoFrame
<1>8. CellsInv' /\ EnteredInv'
    BY <1>1, <1>5, <1>6, <1>7, OwnStep
<1>9. RowsMove
    BY RowTyped
<1>10. RowInv'
    <2>1. ASSUME NEW r \in rows', r.id = req'[c].row
          PROVE  r.owner = userOf'[c] /\ r.project = req'[c].project /\ r.name = req'[c].name
        <3>1. r \notin rows
            BY <1>5, <2>1, Bounds DEF TypeInv, TableInv, Row
        <3>. QED  BY <1>1, <1>5, <3>1 DEF CreateServiceConfig
    <2>2. ASSUME NEW d \in Clients \ {c}, pc'[d] \in {"workload", "service"}, NEW r \in rows', r.id = req'[d].row
          PROVE  r.owner = userOf'[d] /\ r.project = req'[d].project /\ r.name = req'[d].name
        BY <1>1, <1>6, <1>9, <2>2, RowsSame DEF WizardInv
    <2>. QED  BY <2>1, <2>2 DEF RowInv
<1>11. EnteredIsDeployed'
    BY <1>1, <1>9, DeployedSame DEF WizardInv
<1>. QED  BY <1>8, <1>10, <1>11 DEF WizardInv

LEMMA WorkloadEntered ==
    ASSUME TypeInv, TypeInv', WizardInv, NEW c \in Clients, CreateWorkload(c) \/ CreateService(c)
    PROVE  WizardInv'
<1>1. /\ pc[c] \in {"workload", "service"} /\ pc[c] # "idle"
      /\ UNCHANGED <<userOf, heap, cache, rows, lastRow, asks, entered>>
    BY DEF CreateWorkload, CreateService
<1>2. \/ pc'[c] = "idle"
      \/ pc'[c] \in {"service", "status"} /\ req' = req
    BY ReturnFrame, GotoFrame DEF CreateWorkload, CreateService
<1>3. \A d \in Clients \ {c} : pc'[d] = pc[d] /\ req'[d] = req[d]
    BY ReturnFrame, GotoFrame DEF CreateWorkload, CreateService
<1>4. CellsInv' /\ EnteredInv'
    BY <1>1, <1>2, <1>3, OwnStep
<1>5. RowsMove
    BY <1>1, RowsStay
<1>6. RowInv'
    BY <1>1, <1>2, <1>3, <1>5, RowInvKept DEF WizardInv
<1>7. ASSUME NEW kind, NEW r \in rows, req[c].row = r.id, Patient(r.owner)
      PROVE  /\ Made(c, kind).project = r.project /\ Made(c, kind).name = r.name
             /\ Agree(Made(c, kind).step, Made(c, kind).asked)
    <2>1. r.owner = userOf[c] /\ r.project = req[c].project /\ r.name = req[c].name
        BY <1>1, <1>7 DEF WizardInv, RowInv
    <2>2. EnteredBy(c)
        BY <1>1, <1>7, <2>1, EnteredStepOf DEF WizardInv
    <2>3. req[c].op # "entire"
        BY <1>1 DEF TypeInv, ProcInv, Shape
    <2>. QED  BY <1>1, <2>1, <2>2, <2>3 DEF EnteredBy, Made
<1>8. ASSUME NEW kind, objects' \subseteq objects \cup {Made(c, kind)} PROVE EnteredIsDeployed'
    <2> SUFFICES ASSUME NEW o \in objects', NEW r \in rows', o.row = r.id, r.cell # 0, Patient(r.owner)'
                 PROVE  o.project = r.project /\ o.name = r.name /\ Agree(o.step, o.asked)
        BY DEF EnteredIsDeployed, Agree
    <2>1. CASE o \in objects
        BY <1>1, <1>5, <2>1, DeployedKept DEF WizardInv
    <2>2. CASE o = Made(c, kind)
        <3>1. r \in rows /\ req[c].row = r.id /\ Patient(r.owner)
            BY <1>1, <2>2 DEF Made, Patient
        <3>. QED  BY <1>7, <2>2, <3>1
    <2>. QED  BY <1>8, <2>1, <2>2
<1>9. EnteredIsDeployed'
    <2>1. CASE objects' \subseteq objects
        BY <1>8, <2>1
    <2>2. CASE CreateWorkload(c)
        BY <1>8, <2>2 DEF CreateWorkload
    <2>3. CASE CreateService(c)
        BY <1>8, <2>3 DEF CreateService
    <2>. QED  BY <2>2, <2>3
<1>. QED  BY <1>4, <1>6, <1>9 DEF WizardInv

LEMMA UndoEntered ==
    ASSUME TypeInv, TypeInv', WizardInv, NEW c \in Clients,
           UpdateService(c) \/ StopServiceK8s(c) \/ DeleteRow(c) \/ Fails(c)
    PROVE  WizardInv'
<1>1. /\ pc[c] # "idle" /\ objects' \subseteq objects
      /\ UNCHANGED <<userOf, heap, cache, lastRow, asks, entered>>
    BY DEF UpdateService, StopServiceK8s, DeleteRow, Fails
<1>2. \/ pc'[c] = "idle"
      \/ pc'[c] \in {"clean", "undoRow"} /\ req' = req
    BY ReturnFrame, GotoFrame DEF UpdateService, StopServiceK8s, DeleteRow, Fails
<1>3. \A d \in Clients \ {c} : pc'[d] = pc[d] /\ req'[d] = req[d]
    BY ReturnFrame, GotoFrame DEF UpdateService, StopServiceK8s, DeleteRow, Fails
<1>4. CellsInv' /\ EnteredInv'
    BY <1>1, <1>2, <1>3, OwnStep
<1>5. RowsMove
    BY UpdateTyped, UndoTyped
<1>6. RowInv'
    BY <1>1, <1>2, <1>3, <1>5, RowInvKept DEF WizardInv
<1>7. EnteredIsDeployed'
    BY <1>1, <1>5, DeployedSame DEF WizardInv
<1>. QED  BY <1>4, <1>6, <1>7 DEF WizardInv

LEMMA CleanEntered ==
    ASSUME TypeInv, TypeInv', WizardInv, NEW c \in Clients, CleanStep(c)
    PROVE  WizardInv'
<1>1. PICK u \in Users : u = userOf[c]
    BY UserTyped
<1>2. /\ pc[c] # "idle" /\ Return(c)
      /\ cache' = [cache EXCEPT ![u] = 0] /\ entered' = [entered EXCEPT ![u] = Blank]
      /\ UNCHANGED <<userOf, heap, rows, lastRow, objects, asks>>
    BY <1>1 DEF CleanStep, DeleteConfigServiceStep
<1>3. PICK i \in Cells : i = req[c].cell /\ Mine(u, i)
    BY <1>1, <1>2, CellInUse DEF Mine
<1>4. cache'[u] = 0 /\ \A v \in Users \ {u} : cache'[v] = cache[v] /\ entered'[v] = entered[v]
    BY <1>2 DEF TypeInv, StepInv
<1>5. pc'[c] = "idle" /\ \A d \in Clients \ {c} : pc'[d] = pc[d] /\ req'[d] = req[d]
    BY <1>2, ReturnFrame
<1>6. EnteredBy(c)'
    BY <1>5 DEF EnteredBy
<1>7. asks <= asks' /\ \A j \in Cells \ {i} : heap'[j] = heap[j]
    BY <1>2, Bounds DEF TypeInv, StepInv
<1>8. CellsInv' /\ EnteredInv'
    BY <1>1, <1>2, <1>3, <1>4, <1>5, <1>6, <1>7, ActingStep DEF WizardInv
<1>9. RowInv' /\ EnteredIsDeployed'
    BY <1>2, <1>5, NothingDeployed
<1>. QED  BY <1>8, <1>9 DEF WizardInv

\* What happens beside the requests.
LEMMA DropEntered ==
    ASSUME TypeInv, TypeInv', WizardInv,
           \/ UNCHANGED vars
           \/ \E c \in Clients : DeleteServiceStepAction(c)
           \/ \E u \in Users : Expire(u)
           \/ \E id \in 1..MaxRows : StopService(id)
    PROVE  WizardInv'
<1>1. UNCHANGED <<userOf, heap, procVars, asks, entered>> /\ objects' \subseteq objects
    BY DEF DeleteServiceStepAction, Expire, StopService, vars
<1>2. \A v \in Users : cache'[v] \in {cache[v], 0}
    <2>1. cache' = cache \/ \E u \in Users : cache' = [cache EXCEPT ![u] = 0]
        BY UserTyped DEF DeleteServiceStepAction, Expire, StopService, DeleteConfigServiceStep, vars
    <2>. QED  BY <2>1 DEF TypeInv, StepInv
<1>3. CellsInv' /\ EnteredInv'
    BY <1>1, <1>2, DropStep
<1>4. RowsMove
    <2>1. CASE UNCHANGED <<rows, lastRow>>
        BY <2>1, RowsStay
    <2>. QED  BY <2>1, StopTyped DEF DeleteServiceStepAction, Expire, vars
<1>5. RowInv'
    BY <1>1, <1>4, RowInvKept DEF WizardInv, procVars
<1>6. EnteredIsDeployed'
    BY <1>1, <1>4, DeployedSame DEF WizardInv
<1>. QED  BY <1>3, <1>5, <1>6 DEF WizardInv

LEMMA WizardInit == Init => WizardInv
<1> SUFFICES ASSUME Init PROVE WizardInv
    OBVIOUS
<1>1. TypeInv
    BY TypeInit
<1>2. PICK u \in Users, step \in Entered(lastRow) \cup {Blank} :
          /\ heap = [i \in Cells |-> IF i = First THEN step ELSE Blank]
          /\ cache = [v \in Users |-> IF v = u /\ step # Blank THEN First ELSE 0]
          /\ entered = [v \in Users |-> IF v = u THEN step ELSE Blank]
    BY DEF Init
<1>3. \A c \in Clients : pc[c] = "idle"
    BY DEF Init
<1>4. \A v \in Users, i \in Cells : InUse(v, i) => v = u /\ i = First
    BY <1>2, <1>3, Bounds DEF InUse
<1>5. CellsInv
    BY <1>2, <1>4 DEF CellsInv
<1>6. EnteredInv
    <2>1. \A v \in Users : cache[v] # 0 => heap[cache[v]] = entered[v]
        BY <1>2, Bounds
    <2>. QED  BY <1>3, <2>1 DEF EnteredInv, EnteredOf, EnteredBy, Agree
<1>7. RowInv
    BY <1>3 DEF RowInv
<1>8. EnteredIsDeployed
    <2>1. \A r \in rows : r.cell = 0
        BY DEF Init, Earlier
    <2>. QED  BY <2>1 DEF EnteredIsDeployed
<1>. QED  BY <1>5, <1>6, <1>7, <1>8 DEF WizardInv

LEMMA WizardNext == TypeInv /\ TypeInv' /\ WizardInv /\ [Next]_vars => WizardInv'
<1> SUFFICES ASSUME TypeInv, TypeInv', WizardInv, [Next]_vars PROVE WizardInv'
    OBVIOUS
<1>1. CASE \E c \in Clients : Asks(c)
    BY <1>1, SetAskEntered, DeployAskEntered, TestAskEntered, DropEntered DEF Asks
<1>2. CASE \E c \in Clients : Continues(c)
    BY <1>2, SetPhaseEntered, SetServiceEntered, CheckEntered, RowEntered, WorkloadEntered, UndoEntered,
       CleanEntered
       DEF Continues
<1>3. CASE UNCHANGED vars \/ (\E u \in Users : Expire(u)) \/ \E id \in 1..MaxRows : StopService(id)
    BY <1>3, DropEntered
<1>. QED  BY <1>1, <1>2, <1>3 DEF Next

\* A patient user's cell is shared with nobody, so what is deployed of it is what the user entered
\* since the last service, and the row has the name and the project that were looked up in it
\* (SetConfigServiceStep, CleanStep, CreateServiceConfig, CreateWorkload, CreateService).
THEOREM EnteredDeployed == Spec => []EnteredIsDeployed
<1>1. TypeInv /\ [Next]_vars => TypeInv'
    BY TypeNext
<1>2. TypeInv /\ TypeInv' /\ WizardInv /\ [Next]_vars => WizardInv'
    BY WizardNext
<1>3. WizardInv => EnteredIsDeployed
    BY DEF WizardInv
<1>. QED  BY <1>1, <1>2, <1>3, TypeInit, WizardInit, PTL DEF Spec
==============================================================================
