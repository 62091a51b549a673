--------------------------- MODULE SchemaManager ---------------------------
(***************************************************************************)
(* Loading schema files: schema/manager.go.                                *)
(*                                                                         *)
(* A file declares schemas.  LoadSchemaFromFile registers its abstract     *)
(* schemas, extends the concrete ones from their bases, brings them into   *)
(* an order in which a schema follows those it refers to, and registers    *)
(* them in it; tables are created in the order of registration.  The       *)
(* manager gets its files from LoadSchemasFromFiles, which stops at an     *)
(* error, or from OrderedLoadSchemasFromFiles, which comes back to the     *)
(* files that have failed.                                                 *)
(*                                                                         *)
(* A schema is a number, and a file lists its schemas in that order.  Each *)
(* schema refers to at most one other: its parent, the target of a         *)
(* relation, or the base it extends.  Nothing runs beside a load: its      *)
(* steps, and those of the depth-first search inside it, are the actions.  *)
(***************************************************************************)
EXTENDS Integers, FiniteSets, SequencesExt

CONSTANTS
  Schemas,    \* the schemas
  FilePaths,  \* the files, as the caller lists them
  MaxDepth    \* how often OrderedLoadSchemasFromFiles goes through the files

Files == ToSet(FilePaths)

ASSUME SchemaConstants ==
  /\ Schemas \subseteq Nat /\ IsFiniteSet(Schemas)
  /\ FilePaths \in Seq(Files)
  /\ MaxDepth \in Nat \ {0}

VARIABLES
  decl,      \* what the files declare
  ordered,   \* whether the caller is OrderedLoadSchemasFromFiles
  passes,    \* i: how many passes are left, the current one included
  todo,      \* filePaths: the files to load in this pass, the one being loaded first
  rest,      \* the files to try again in the next
  result,    \* "none", "ok" or "error"
  schemaOrder,   \* the schemas of the manager, in the order of registration
  complete,  \* those whose parent was there when they were registered
  at,        \* where loadSchemaFromFile is
  prepared,  \* the schemas its first loop is done with
  stack,     \* reorderSchemas: the schemas temporaryVisited, by depth
  list,      \* reorderSchemas: schemaList, the schemas visited
  circle,    \* reorderSchemas has returned an error
  registered \* how many of the list its second loop is done with

callerVars == <<decl, ordered, passes>>
passVars == <<todo, rest, result>>
managerVars == <<schemaOrder, complete>>
reorderVars == <<stack, list, circle>>
vars == <<callerVars, passVars, managerVars, at, prepared, reorderVars, registered>>

Kinds == {"none", "parent", "relation", "extends"}
Declaration == {d \in [file : Files, abstract : BOOLEAN, kind : Kinds, target : Schemas] :
                  d.kind = "none" => d.target = CHOOSE s \in Schemas : TRUE}

TypeOK ==
  /\ decl \in [Schemas -> Declaration]
  /\ ordered \in BOOLEAN
  /\ passes \in 1 .. MaxDepth
  /\ todo \in Seq(Files)
  /\ rest \in Seq(Files)
  /\ result \in {"none", "ok", "error"}
  /\ schemaOrder \in Seq(Schemas)
  /\ complete \subseteq Schemas
  /\ at \in {"idle", "prepare", "reorder", "register"}
  /\ prepared \subseteq Schemas
  /\ stack \in Seq(Schemas)
  /\ list \in Seq(Schemas)
  /\ circle \in BOOLEAN
  /\ registered \in 0 .. Len(list)

Init ==
  /\ decl \in [Schemas -> Declaration]
  /\ ordered \in BOOLEAN
  /\ passes = IF ordered THEN MaxDepth ELSE 1
  /\ todo = FilePaths
  /\ rest = <<>>
  /\ result = "none"
  /\ schemaOrder = <<>>
  /\ complete = {}
  /\ at = "idle"
  /\ prepared = {}
  /\ stack = <<>> /\ list = <<>> /\ circle = FALSE
  /\ registered = 0

-----------------------------------------------------------------------------
(* What the schemas refer to *)

Refers(s, kind) == {t \in Schemas : decl[s].kind = kind /\ decl[s].target = t}

\* Extend: a concrete schema has the parent and the relations of its bases, too.
Bases(s) == IF decl[s].abstract THEN {} ELSE Refers(s, "extends")
Inherited(s, kind) == Refers(s, kind) \cup UNION {Refers(b, kind) : b \in Bases(s)}
Parents(s) == Inherited(s, "parent")

\* relatedSchemas; an abstract schema's properties are not looked at (Init).
RelatedSchemas(s) ==
  Refers(s, "extends") \cup IF decl[s].abstract THEN {} ELSE Parents(s) \cup Inherited(s, "relation")

SchemasOf(file) == {s \in Schemas : decl[s].file = file}

\* The schemas of its own file s refers to: only those are candidates of visitSchema.
References(s) == RelatedSchemas(s) \cap SchemasOf(decl[s].file)

-----------------------------------------------------------------------------
(* The callers *)

\* Mutant: the last pass is left out.
LastPassEarly == passes = 2

\* An error in the last pass is returned; LoadSchemasFromFiles has one pass.
LastPass == passes = 1

\* The next file of the pass is loaded.
LoadSchemaFromFile ==
  /\ at = "idle" /\ result = "none"
  /\ todo # <<>>
  /\ at' = "prepare"
  /\ prepared' = {}
  /\ UNCHANGED <<callerVars, passVars, managerVars, reorderVars, registered>>

\* It returns, with or without an error.
Return(err) ==
  /\ at' = "idle"
  /\ todo' = Tail(todo)
  /\ rest' = IF err THEN Append(rest, Head(todo)) ELSE rest
  /\ result' = IF err /\ LastPass THEN "error" ELSE "none"

\* The pass is over: nothing is left, or the rest is tried again.
NextPass ==
  /\ at = "idle" /\ result = "none"
  /\ todo = <<>>
  /\ todo' = rest
  /\ rest' = <<>>
  /\ IF rest = <<>> THEN result' = "ok" /\ UNCHANGED passes ELSE UNCHANGED result /\ passes' = passes - 1
  /\ UNCHANGED <<decl, ordered, managerVars, at, prepared, reorderVars, registered>>

-----------------------------------------------------------------------------
(* loadSchemaFromFile: the first loop *)

File == Head(todo)

\* The schemas of the manager.
Registered == ToSet(schemaOrder)

\* registerSchema finds the parent; the schema is in the map by then.
ParentFound(s) == Parents(s) \subseteq Registered \cup {s}

\* registerSchema leaves a schema alone that is registered.
RegisterSchema(s) ==
  IF s \in Registered THEN UNCHANGED managerVars
  ELSE /\ schemaOrder' = Append(schemaOrder, s)
       /\ complete' = IF ParentFound(s) THEN complete \cup {s} ELSE complete

\* Mutant: a parent that is not there is no error.
RegisterNeverFails(s) == FALSE

\* What it returns.
RegisterError(s) == s \notin Registered /\ ~ParentFound(s)

\* The schema the first loop has come to.
ToPrepare(s) ==
  /\ at = "prepare"
  /\ s \in SchemasOf(File) \ prepared
  /\ \A t \in SchemasOf(File) \ prepared : s <= t

\* An abstract schema is registered, whatever registerSchema returns.
PrepareAbstract(s) ==
  /\ ToPrepare(s)
  /\ decl[s].abstract
  /\ RegisterSchema(s)
  /\ prepared' = prepared \cup {s}
  /\ UNCHANGED <<callerVars, passVars, at, reorderVars, registered>>

\* The bases of a concrete schema must be there and be abstract.
BaseError(s) == \E b \in Bases(s) : b \notin Registered \/ ~decl[b].abstract

PrepareConcrete(s) ==
  /\ ToPrepare(s)
  /\ ~decl[s].abstract
  /\ IF BaseError(s)
     THEN Return(TRUE) /\ prepared' = {}
     ELSE prepared' = prepared \cup {s} /\ UNCHANGED <<passVars, at>>
  /\ UNCHANGED <<callerVars, managerVars, reorderVars, registered>>

Prepared ==
  /\ at = "prepare"
  /\ SchemasOf(File) \subseteq prepared
  /\ at' = "reorder"
  /\ prepared' = {}
  /\ UNCHANGED <<callerVars, passVars, managerVars, reorderVars, registered>>

-----------------------------------------------------------------------------
(* reorderSchemas *)

Visited == ToSet(list)

\* From the last schema that is not visited.
StartVisit(s) ==
  /\ at = "reorder" /\ stack = <<>>
  /\ s \in SchemasOf(File) \ Visited
  /\ \A t \in SchemasOf(File) \ Visited : t <= s
  /\ stack' = <<s>>
  /\ UNCHANGED <<callerVars, passVars, managerVars, at, prepared, list, circle, registered>>

\* visitSchema goes on with the first related schema that is not visited.  One that is
\* being visited is an error: there is no order.
VisitRelated(t) ==
  LET left == References(Last(stack)) \ Visited IN
  /\ at = "reorder" /\ stack # <<>>
  /\ t \in left /\ \A u \in left : t <= u
  /\ IF t \in ToSet(stack)
     THEN stack' = <<>> /\ list' = <<>> /\ circle' = TRUE /\ at' = "register"
     ELSE stack' = Append(stack, t) /\ UNCHANGED <<list, circle, at>>
  /\ UNCHANGED <<callerVars, passVars, managerVars, prepared, registered>>

\* Mutant: a schema is listed before what it refers to.
ListedFirst(s) == <<s>> \o list

\* What visitSchema makes of the list when it has visited what s refers to.
Listed(s) == Append(list, s)

EndVisit ==
  /\ at = "reorder" /\ stack # <<>>
  /\ References(Last(stack)) \subseteq Visited
  /\ list' = Listed(Last(stack))
  /\ stack' = Front(stack)
  /\ UNCHANGED <<callerVars, passVars, managerVars, at, prepared, circle, registered>>

Reordered ==
  /\ at = "reorder" /\ stack = <<>>
  /\ SchemasOf(File) \subseteq Visited
  /\ at' = "register"
  /\ UNCHANGED <<callerVars, passVars, managerVars, prepared, reorderVars, registered>>

-----------------------------------------------------------------------------
(* loadSchemaFromFile: the second loop *)

Forget == list' = <<>> /\ circle' = FALSE /\ registered' = 0 /\ UNCHANGED stack

\* The next schema of the list is registered, if it is concrete; an error is returned.
RegisterNext ==
  LET s == list[registered + 1] IN
  /\ at = "register"
  /\ registered < Len(list)
  /\ IF decl[s].abstract THEN UNCHANGED managerVars ELSE RegisterSchema(s)
  /\ IF ~decl[s].abstract /\ RegisterError(s)
     THEN Return(TRUE) /\ Forget
     ELSE registered' = registered + 1 /\ UNCHANGED <<passVars, at, reorderVars>>
  /\ UNCHANGED <<callerVars, prepared>>

\* All are registered, or none if there is no order.
RegisterDone ==
  /\ at = "register"
  /\ registered = Len(list)
  /\ Return(FALSE)
  /\ Forget
  /\ UNCHANGED <<callerVars, managerVars, prepared>>

Next ==
  \/ LoadSchemaFromFile \/ NextPass
  \/ \E s \in Schemas : PrepareAbstract(s) \/ PrepareConcrete(s)
  \/ Prepared
  \/ \E s \in Schemas : StartVisit(s) \/ VisitRelated(s)
  \/ EndVisit \/ Reordered
  \/ RegisterNext \/ RegisterDone

Spec == Init /\ [][Next]_vars

-----------------------------------------------------------------------------
(* Properties *)

\* Some schemas of the file refer to one another in a circle.
Cyclic(file) ==
  \E S \in SUBSET SchemasOf(file) : S # {} /\ \A s \in S : References(s) \cap S # {}

Before(order, t, s) == \E i, j \in 1 .. Len(order) : i < j /\ order[i] = t /\ order[j] = s

\* reorderSchemas gives up exactly on the files whose schemas refer to each other
\* in a circle; from any other file it returns every schema once, after all the
\* schemas of the file it refers to.
ReorderIsTopological ==
  at = "register" =>
    /\ circle <=> Cyclic(File)
    /\ ~circle => /\ ToSet(list) = SchemasOf(File)
                  /\ \A i, j \in 1 .. Len(list) : list[i] = list[j] => i = j
                  /\ \A s \in SchemasOf(File) : \A t \in References(s) : Before(list, t, s)

\* Every concrete schema of the manager comes after its parent.
ParentsFirst ==
  \A s \in Registered : ~decl[s].abstract => \A t \in Parents(s) : Before(schemaOrder, t, s)

\* Tables are created in the order of registration.  A concrete schema comes after
\* those of its own file it refers to, although files fail half way and are loaded
\* again.  Unless LoadSchemasFromFiles returns an error it also comes after its
\* parent, from whatever file.  OrderedLoadSchemasFromFiles does not keep this:
\* registerSchema puts a schema into the map and the order before it looks for the
\* parent, and leaves it alone when its file is tried again.
OrderFitsTables ==
  /\ \A s \in Registered : ~decl[s].abstract => \A t \in References(s) : Before(schemaOrder, t, s)
  /\ ~ordered /\ result # "error" => ParentsFirst

\* When loading succeeds all schemas are there, but for the concrete ones of a file
\* that has a circle, which are left out without an error; those loaded by
\* LoadSchemasFromFiles have their parents.  After OrderedLoadSchemasFromFiles a
\* schema may be without: it stays registered when its file fails, and is taken
\* for loaded in the next pass.
LoadedIsComplete ==
  result = "ok" =>
    \A s \in Schemas : ~Cyclic(decl[s].file) \/ decl[s].abstract =>
      /\ s \in Registered
      /\ ~ordered /\ ~decl[s].abstract => s \in complete

\* The schemas a manager has that has loaded these files, each of them without an error.
SchemasFrom(files) == {s \in Schemas : decl[s].file \in files /\ (decl[s].abstract \/ ~Cyclic(decl[s].file))}

\* The file can then be loaded without an error: each concrete schema finds its bases,
\* in those files or above it in its own, and its parent, unless it is left out.
LoadsAfter(file, files) ==
  \A s \in SchemasOf(file) : ~decl[s].abstract =>
    /\ \A b \in Bases(s) :
         decl[b].abstract /\ (b \in SchemasFrom(files) \/ (b \in SchemasOf(file) /\ b < s))
    /\ ~Cyclic(file) => Parents(s) \subseteq SchemasFrom(files) \cup SchemasOf(file)

\* The files can be loaded one by one, each after all those of a lower level.
Nested(level) == \A file \in Files : LoadsAfter(file, {f \in Files : level[f] < level[file]})

\* OrderedLoadSchemasFromFiles succeeds whenever the files need one another no deeper
\* than MaxDepth, the "maximum number of nested schemas" (manager.go:308), in whatever
\* order the caller lists them.  This is about its success, not about the order of
\* registration that results: a child may stay registered before its parent.
OrderedLoadFindsOrder ==
  ordered /\ result = "error" => \A level \in [Files -> 1 .. MaxDepth] : ~Nested(level)
=============================================================================
