------------------------ MODULE SchemaManager_proofs ------------------------
(***************************************************************************)
(* Proofs about the loading of schemas, for any number of schemas, files   *)
(* and passes.                                                             *)
(***************************************************************************)
EXTENDS SchemaManager, FiniteSetTheorems, SequenceTheorems, WellFoundedInduction, TLAPS

\* loadSchemaFromFile uses its variables only while it is where they are needed.
PlaceOK ==
  /\ at # "idle" => result = "none" /\ todo # <<>>
  /\ at # "prepare" => prepared = {}
  /\ at # "reorder" => stack = <<>>
  /\ at \notin {"reorder", "register"} => list = <<>>
  /\ at # "register" => ~circle /\ registered = 0
  /\ circle => list = <<>>

Distinct(seq) == \A i, j \in 1 .. Len(seq) : seq[i] = seq[j] => i = j

\* Everything in the list comes after what it refers to in its file.
Sorted ==
  \A s \in Schemas : \A i \in 1 .. Len(list) : list[i] = s =>
    \A t \in References(s) : \E j \in 1 .. i - 1 : list[j] = t

\* The stack is a path of references.
Path ==
  \A s \in Schemas : \A i \in 1 .. Len(stack) - 1 : stack[i] = s => stack[i + 1] \in References(s)

\* The depth-first search in a file: the schemas of the stack are not yet in the list.
Search(file) ==
  /\ Distinct(list) /\ Sorted /\ ToSet(list) \subseteq SchemasOf(file)
  /\ Distinct(stack) /\ Path /\ ToSet(stack) \subseteq SchemasOf(file) \ ToSet(list)
  /\ circle => Cyclic(file)
  /\ at = "register" /\ ~circle => SchemasOf(file) \subseteq ToSet(list)

SearchOK == \A file \in Files : at \in {"reorder", "register"} /\ file = File => Search(file)

\* What the two loops are done with is registered.
LoopsOK ==
  /\ \A s \in prepared : decl[s].abstract => s \in Registered
  /\ at \in {"reorder", "register"} =>
       \A s \in Schemas : decl[s].file = File /\ decl[s].abstract => s \in Registered
  /\ \A i \in 1 .. registered : list[i] \in Registered
  /\ complete \subseteq Registered

\* The order of registration: a schema that is complete follows its parent.
TablesOK ==
  \A s \in Registered : ~decl[s].abstract =>
    /\ s \in complete => \A t \in Parents(s) : Before(schemaOrder, t, s)
    /\ \A t \in References(s) : Before(schemaOrder, t, s)

\* The schemas of the file are registered, as far as they can be.
Loaded(file) == \A s \in SchemasOf(file) : decl[s].abstract \/ ~Cyclic(file) => s \in Registered

\* Every file is loaded or will be tried again; an error in the last pass ends the load.
FilesOK ==
  /\ \A file \in Files : file \in ToSet(todo) \/ file \in ToSet(rest) \/ Loaded(file)
  /\ result = "ok" => todo = <<>> /\ rest = <<>>
  /\ passes = 1 /\ result = "none" => rest = <<>>
  /\ ~ordered => passes = 1
  /\ ~ordered /\ result # "error" => \A s \in Registered : ~decl[s].abstract => s \in complete

\* The inductive invariant of the load.
LoadInv == TypeOK /\ PlaceOK /\ SearchOK /\ LoopsOK /\ TablesOK /\ FilesOK

\* Each pass loads the files of one more level.
LevelOK(level) ==
  /\ result # "error"
  /\ \A file \in Files :
       /\ file \in ToSet(todo) => level[file] > MaxDepth - passes
       /\ file \in ToSet(rest) => level[file] > MaxDepth - passes + 1

LevelsOK == ordered => \A level \in [Files -> 1 .. MaxDepth] : Nested(level) => LevelOK(level)

-----------------------------------------------------------------------------
(* Sequences *)

\* What is in a sequence, and where.
LEMMA SetOfSeq ==
  ASSUME NEW S, NEW q \in Seq(S)
  PROVE  /\ ToSet(q) \subseteq S /\ Len(q) \in Nat
         /\ \A x : x \in ToSet(q) <=> \E i \in 1 .. Len(q) : q[i] = x
BY DEF ToSet

\* One element more.
LEMMA SetOfAppend ==
  ASSUME NEW S, NEW q \in Seq(S), NEW x \in S
  PROVE  /\ Append(q, x) \in Seq(S) /\ Len(Append(q, x)) = Len(q) + 1
         /\ Append(q, x)[Len(q) + 1] = x
         /\ \A i \in 1 .. Len(q) : Append(q, x)[i] = q[i]
         /\ ToSet(Append(q, x)) = ToSet(q) \cup {x}
<1>1. /\ Append(q, x) \in Seq(S) /\ Len(Append(q, x)) = Len(q) + 1
      /\ Append(q, x)[Len(q) + 1] = x
      /\ \A i \in 1 .. Len(q) : Append(q, x)[i] = q[i]
      OBVIOUS
<1>2. Len(q) \in Nat /\ \A y : y \in ToSet(q) <=> \E i \in 1 .. Len(q) : q[i] = y
      BY SetOfSeq
<1>3. \A y : y \in ToSet(Append(q, x)) <=> \E i \in 1 .. Len(q) + 1 : Append(q, x)[i] = y
  <2>1. \A y : y \in ToSet(Append(q, x)) <=> \E i \in 1 .. Len(Append(q, x)) : Append(q, x)[i] = y
        BY <1>1, SetOfSeq, Zenon
  <2>2. QED
        BY <1>1, <2>1, Zenon
<1>4. \A i \in 1 .. Len(q) + 1 : i \in 1 .. Len(q) \/ i = Len(q) + 1
      BY <1>2
<1>5. \A y : y \in ToSet(Append(q, x)) => y \in ToSet(q) \cup {x}
      BY <1>1, <1>2, <1>3, <1>4
<1>6. \A y : y \in ToSet(q) \cup {x} => y \in ToSet(Append(q, x))
      BY <1>1, <1>2, <1>3
<1>7. QED
      BY <1>1, <1>5, <1>6

\* The first element less.
LEMMA SetOfTail ==
  ASSUME NEW S, NEW q \in Seq(S), q # <<>>
  PROVE  /\ Tail(q) \in Seq(S) /\ Head(q) \in S
         /\ ToSet(q) = {Head(q)} \cup ToSet(Tail(q))
<1>1. /\ Tail(q) \in Seq(S) /\ Head(q) \in S /\ Len(q) \in Nat /\ Len(q) >= 1
      /\ Len(Tail(q)) = Len(q) - 1 /\ Head(q) = q[1]
      /\ \A i \in 1 .. Len(Tail(q)) : Tail(q)[i] = q[i + 1]
      OBVIOUS
<1>2. \A i \in 1 .. Len(q) : i = 1 \/ (i - 1 \in 1 .. Len(Tail(q)) /\ q[i] = Tail(q)[i - 1])
      BY <1>1
<1>3. \A y : y \in ToSet(q) <=> \E i \in 1 .. Len(q) : q[i] = y
      BY SetOfSeq
<1>4. \A y : y \in ToSet(Tail(q)) <=> \E i \in 1 .. Len(Tail(q)) : Tail(q)[i] = y
      BY <1>1, SetOfSeq
<1>5. \A y : y \in ToSet(q) => y \in {Head(q)} \cup ToSet(Tail(q))
      BY <1>1, <1>2, <1>3, <1>4
<1>6. \A i \in 1 .. Len(Tail(q)) : i + 1 \in 1 .. Len(q)
      BY <1>1
<1>7. 1 \in 1 .. Len(q)
      BY <1>1
<1>8. \A y : y \in {Head(q)} \cup ToSet(Tail(q)) => y \in ToSet(q)
      BY <1>1, <1>3, <1>4, <1>6, <1>7
<1>9. QED
      BY <1>1, <1>5, <1>8

\* The last element less.
LEMMA SetOfFront ==
  ASSUME NEW S, NEW q \in Seq(S), q # <<>>
  PROVE  /\ Front(q) \in Seq(S) /\ Last(q) \in S /\ Len(q) \in Nat /\ Len(q) >= 1
         /\ Len(Front(q)) = Len(q) - 1 /\ Last(q) = q[Len(q)]
         /\ \A i \in 1 .. Len(Front(q)) : Front(q)[i] = q[i]
         /\ ToSet(q) = ToSet(Front(q)) \cup {Last(q)}
<1>1. /\ Last(q) \in S /\ Last(q) = q[Len(q)] /\ Len(q) \in Nat /\ Len(q) >= 1
      BY DEF Last
<1>2. /\ Front(q) \in Seq(S) /\ Len(Front(q)) = Len(q) - 1
      /\ \A i \in 1 .. Len(Front(q)) : Front(q)[i] = q[i]
  <2>1. \A i \in 1 .. Len(q) - 1 : q[i] \in S
        BY <1>1
  <2>2. /\ SubSeq(q, 1, Len(q) - 1) \in Seq(S)
        /\ Len(SubSeq(q, 1, Len(q) - 1)) = IF 1 <= Len(q) - 1 THEN Len(q) - 1 - 1 + 1 ELSE 0
        /\ \A i \in 1 .. Len(q) - 1 - 1 + 1 : SubSeq(q, 1, Len(q) - 1)[i] = q[1 + i - 1]
        BY <1>1, <2>1, SubSeqProperties
  <2>3. Front(q) = SubSeq(q, 1, Len(q) - 1)
        BY DEF Front
  <2>4. /\ Front(q) \in Seq(S)
        /\ Len(Front(q)) = IF 1 <= Len(q) - 1 THEN Len(q) - 1 - 1 + 1 ELSE 0
        /\ \A i \in 1 .. Len(q) - 1 - 1 + 1 : Front(q)[i] = q[1 + i - 1]
        BY <2>2, <2>3, Zenon
  <2>5. Len(Front(q)) = Len(q) - 1
    <3>1. \A n \in Nat : n >= 1 => (IF 1 <= n - 1 THEN n - 1 - 1 + 1 ELSE 0) = n - 1
          OBVIOUS
    <3>2. QED
          BY <1>1, <2>4, <3>1, Zenon
  <2>6. Len(q) - 1 - 1 + 1 = Len(q) - 1 /\ \A i \in 1 .. Len(q) - 1 : 1 + i - 1 = i
        BY <1>1
  <2>7. \A i \in 1 .. Len(Front(q)) : Front(q)[i] = q[i]
    <3> TAKE i \in 1 .. Len(Front(q))
    <3>1. i \in 1 .. Len(q) - 1 /\ i \in 1 .. Len(q) - 1 - 1 + 1 /\ 1 + i - 1 = i
          BY <2>5, <2>6, Zenon
    <3>2. QED
          BY <2>4, <3>1, Zenon
  <2>8. QED
        BY <2>4, <2>5, <2>7
<1>3. \A i \in 1 .. Len(q) : i = Len(q) \/ i \in 1 .. Len(Front(q))
      BY <1>1, <1>2
<1>4. QED
      BY <1>1, <1>2, <1>3, SetOfSeq

\* The empty sequence.
LEMMA SetOfEmpty == ToSet(<<>>) = {} /\ Len(<<>>) = 0
BY DEF ToSet

\* What comes before stays before.
LEMMA BeforeAppend ==
  ASSUME NEW S, NEW q \in Seq(S), NEW x \in S, NEW s, NEW t
  PROVE  /\ Before(q, t, s) => Before(Append(q, x), t, s)
         /\ t \in ToSet(q) => Before(Append(q, x), t, x)
<1>1. /\ Len(q) \in Nat /\ Len(Append(q, x)) = Len(q) + 1
      /\ Append(q, x)[Len(q) + 1] = x
      /\ \A i \in 1 .. Len(q) : Append(q, x)[i] = q[i]
      BY SetOfAppend
<1>2. ASSUME Before(q, t, s) PROVE Before(Append(q, x), t, s)
  <2>1. PICK i \in 1 .. Len(q), j \in 1 .. Len(q) : i < j /\ q[i] = t /\ q[j] = s
        BY <1>2 DEF Before
  <2>2. i \in 1 .. Len(Append(q, x)) /\ j \in 1 .. Len(Append(q, x))
        BY <1>1
  <2>3. QED
        BY <1>1, <2>1, <2>2 DEF Before
<1>3. ASSUME t \in ToSet(q) PROVE Before(Append(q, x), t, x)
  <2>1. PICK i \in 1 .. Len(q) : q[i] = t
        BY <1>3, SetOfSeq
  <2>2. i \in 1 .. Len(Append(q, x)) /\ Len(q) + 1 \in 1 .. Len(Append(q, x)) /\ i < Len(q) + 1
        BY <1>1
  <2>3. QED
        BY <1>1, <2>1, <2>2 DEF Before
<1>4. QED
      BY <1>2, <1>3

-----------------------------------------------------------------------------
(* What the files declare *)

\* The declarations do not change, nor does what is read off them.
LEMMA DeclSame ==
  ASSUME decl' = decl
  PROVE  /\ \A s : Bases(s)' = Bases(s) /\ Parents(s)' = Parents(s) /\ References(s)' = References(s)
         /\ \A file : SchemasOf(file)' = SchemasOf(file) /\ (Cyclic(file)' <=> Cyclic(file))
<1>1. \A s, kind : Refers(s, kind)' = Refers(s, kind)
      BY DEF Refers
<1>2. \A s : Bases(s)' = Bases(s)
      BY <1>1 DEF Bases
<1>3. \A s, kind : Inherited(s, kind)' = Inherited(s, kind)
      BY <1>1, <1>2 DEF Inherited
<1>4. \A s : Parents(s)' = Parents(s)
      BY <1>3 DEF Parents
<1>5. \A s : RelatedSchemas(s)' = RelatedSchemas(s)
      BY <1>1, <1>3, <1>4 DEF RelatedSchemas
<1>6. \A file : SchemasOf(file)' = SchemasOf(file)
      BY DEF SchemasOf
<1>7. \A s : References(s)' = References(s)
      BY <1>5 DEF References, SchemasOf
<1>8. \A file : Cyclic(file)' <=> Cyclic(file)
      BY <1>6, <1>7 DEF Cyclic
<1>9. QED
      BY <1>2, <1>4, <1>6, <1>7, <1>8

\* What schemas refer to are schemas; a concrete schema refers to its parent.
LEMMA ReferencesType ==
  ASSUME NEW s \in Schemas
  PROVE  /\ References(s) \subseteq SchemasOf(decl[s].file) /\ References(s) \subseteq Schemas
         /\ Bases(s) \subseteq Schemas /\ Parents(s) \subseteq Schemas
         /\ ~decl[s].abstract => Parents(s) \cap SchemasOf(decl[s].file) \subseteq References(s)
<1>1. \A r, kind : Refers(r, kind) \subseteq Schemas
      BY DEF Refers
<1>2. Bases(s) \subseteq Schemas /\ Parents(s) \subseteq Schemas
      BY <1>1 DEF Bases, Parents, Inherited
<1>3. QED
      BY <1>2 DEF References, RelatedSchemas, SchemasOf


-----------------------------------------------------------------------------
(* Circles *)

\* Where every schema comes after what it refers to there is no circle.
LEMMA SortedNoCircle ==
  ASSUME NEW file, list \in Seq(Schemas), Sorted, SchemasOf(file) \subseteq ToSet(list)
  PROVE  ~Cyclic(file)
<1> SUFFICES ASSUME NEW S \in SUBSET SchemasOf(file), S # {}, \A s \in S : References(s) \cap S # {}
             PROVE  FALSE
    BY DEF Cyclic
<1> DEFINE I == {i \in 1 .. Len(list) : list[i] \in S}
<1>1. S \subseteq Schemas /\ Len(list) \in Nat
      BY DEF SchemasOf
<1>2. I # {} /\ I \subseteq Nat
  <2>1. PICK s \in S : TRUE
        OBVIOUS
  <2>2. PICK i \in 1 .. Len(list) : list[i] = s
        BY <2>1, SetOfSeq
  <2>3. QED
        BY <1>1, <2>1, <2>2
<1>3. \A i \in I : i \in 1 .. Len(list) /\ list[i] \in S
      OBVIOUS
<1>4. \A i \in 1 .. Len(list) : list[i] \in S => i \in I
      OBVIOUS
<1> HIDE DEF I
<1>5. PICK i \in I : \A j \in I : ~(<<j, i>> \in OpToRel(<, Nat))
      BY <1>2, NatLessThanWellFounded, WFMin, Zenon
<1>6. \A j \in I : ~(j < i)
      BY <1>2, <1>5 DEF OpToRel
<1>7. i \in 1 .. Len(list) /\ list[i] \in S
      BY <1>3, Zenon
<1>8. PICK t \in References(list[i]) : t \in S
      BY <1>7
<1>9. PICK j \in 1 .. i - 1 : list[j] = t
      BY <1>1, <1>7, <1>8 DEF Sorted
<1>10. j \in 1 .. Len(list) /\ j < i
      BY <1>1, <1>7
<1>11. QED
      BY <1>4, <1>6, <1>8, <1>9, <1>10

\* A reference of the schema on top to one on the stack closes a circle.
LEMMA StackCircle ==
  ASSUME NEW file, stack \in Seq(Schemas), stack # <<>>, Path, ToSet(stack) \subseteq SchemasOf(file),
         NEW t \in References(Last(stack)), t \in ToSet(stack)
  PROVE  Cyclic(file)
<1>1. /\ Len(stack) \in Nat /\ Len(stack) >= 1 /\ Last(stack) = stack[Len(stack)]
      BY SetOfFront
<1>2. \A x : x \in ToSet(stack) <=> \E i \in 1 .. Len(stack) : stack[i] = x
      BY SetOfSeq
<1>3. ASSUME NEW s \in ToSet(stack) PROVE References(s) \cap ToSet(stack) # {}
  <2>1. PICK i \in 1 .. Len(stack) : stack[i] = s
        BY <1>2
  <2>2. CASE i = Len(stack)
        BY <1>1, <2>1, <2>2
  <2>3. CASE i # Len(stack)
    <3>1. i \in 1 .. Len(stack) - 1 /\ i + 1 \in 1 .. Len(stack)
          BY <1>1, <2>3
    <3>2. stack[i + 1] \in References(s)
          BY <2>1, <3>1 DEF Path
    <3>3. stack[i + 1] \in ToSet(stack)
          BY <1>2, <3>1
    <3>4. QED
          BY <3>2, <3>3
  <2>4. QED
        BY <2>2, <2>3
<1>4. QED
      BY <1>3 DEF Cyclic

-----------------------------------------------------------------------------
(* What the steps leave alone *)

\* The search goes on where it is.
LEMMA SameSearch ==
  ASSUME SearchOK, decl' = decl, todo' = todo, at' = at, UNCHANGED reorderVars
  PROVE  SearchOK'
<1>1. /\ \A s : References(s)' = References(s)
      /\ \A file : SchemasOf(file)' = SchemasOf(file) /\ (Cyclic(file)' <=> Cyclic(file))
      BY DeclSame
<1>2. File' = File /\ stack' = stack /\ list' = list /\ circle' = circle
      BY DEF File, reorderVars
<1>3. Sorted => Sorted'
      BY <1>1, <1>2 DEF Sorted
<1>4. Path => Path'
      BY <1>1, <1>2 DEF Path
<1>5. ASSUME NEW file \in Files, Search(file) PROVE Search(file)'
      BY <1>1, <1>2, <1>3, <1>4, <1>5 DEF Search, Distinct
<1>6. QED
      BY <1>2, <1>5 DEF SearchOK

\* The manager stays as it is.
LEMMA SameTables ==
  ASSUME TablesOK, decl' = decl, UNCHANGED managerVars
  PROVE  TablesOK'
<1>1. \A s : Parents(s)' = Parents(s) /\ References(s)' = References(s)
      BY DeclSame
<1>2. Registered' = Registered /\ schemaOrder' = schemaOrder /\ complete' = complete
      BY DEF Registered, managerVars
<1>3. QED
      BY <1>1, <1>2 DEF TablesOK, Before

\* A file that is loaded stays loaded.
LEMMA LoadedStays ==
  ASSUME decl' = decl, Registered \subseteq Registered', NEW file, Loaded(file)
  PROVE  Loaded(file)'
<1>1. SchemasOf(file)' = SchemasOf(file) /\ (Cyclic(file)' <=> Cyclic(file))
      BY DeclSame
<1>2. QED
      BY <1>1 DEF Loaded

\* The files stay as they are, and a concrete schema that is registered is complete.
LEMMA SameFiles ==
  ASSUME FilesOK, UNCHANGED <<callerVars, passVars>>, Registered \subseteq Registered',
         ~ordered /\ result # "error" => \A s \in Registered' \ Registered : ~decl[s].abstract => s \in complete',
         complete \subseteq complete'
  PROVE  FilesOK'
<1>1. /\ decl' = decl /\ ordered' = ordered /\ passes' = passes
      /\ todo' = todo /\ rest' = rest /\ result' = result
      BY DEF callerVars, passVars
<1>2. \A file \in Files : Loaded(file) => Loaded(file)'
      BY <1>1, LoadedStays
<1>3. QED
      BY <1>1, <1>2 DEF FilesOK

-----------------------------------------------------------------------------
(* What registering and returning do *)

\* registerSchema appends a schema that is not registered.
LEMMA RegisterStep ==
  ASSUME schemaOrder \in Seq(Schemas), complete \subseteq Registered, NEW s \in Schemas, RegisterSchema(s)
  PROVE  /\ schemaOrder' \in Seq(Schemas) /\ complete' \subseteq Schemas
         /\ Registered' = Registered \cup {s}
         /\ complete' \subseteq Registered'
         /\ complete \subseteq complete' /\ complete' \subseteq complete \cup {s}
         /\ s \notin Registered => (s \in complete' <=> ParentFound(s))
         /\ \A r, t : Before(schemaOrder, t, r) => Before(schemaOrder', t, r)
         /\ s \notin Registered => \A t \in Registered : Before(schemaOrder', t, s)
<1>1. Registered \subseteq Schemas
      BY SetOfSeq DEF Registered
<1>2. CASE s \in Registered
  <2>1. schemaOrder' = schemaOrder /\ complete' = complete
        BY <1>2 DEF RegisterSchema, managerVars
  <2>2. QED
        BY <1>1, <1>2, <2>1 DEF Registered
<1>3. CASE s \notin Registered
  <2>1. schemaOrder' = Append(schemaOrder, s)
        BY <1>3 DEF RegisterSchema
  <2>2. complete' = IF ParentFound(s) THEN complete \cup {s} ELSE complete
        BY <1>3 DEF RegisterSchema
  <2>3. schemaOrder' \in Seq(Schemas) /\ Registered' = Registered \cup {s}
        BY <2>1, SetOfAppend DEF Registered
  <2>4. \A r, t : /\ Before(schemaOrder, t, r) => Before(schemaOrder', t, r)
                  /\ t \in Registered => Before(schemaOrder', t, s)
        BY <2>1, BeforeAppend DEF Registered
  <2>5. QED
        BY <1>1, <1>3, <2>2, <2>3, <2>4
<1>4. QED
      BY <1>2, <1>3

\* A concrete schema is registered after what it refers to.
LEMMA RegisterTables ==
  ASSUME TablesOK, schemaOrder \in Seq(Schemas), complete \subseteq Registered, decl' = decl,
         NEW s \in Schemas, RegisterSchema(s),
         ~decl[s].abstract => References(s) \subseteq Registered /\ s \notin Parents(s)
  PROVE  TablesOK'
<1>1. CASE s \in Registered
      BY <1>1, SameTables DEF RegisterSchema
<1>2. CASE s \notin Registered
  <2>1. \A r : Parents(r)' = Parents(r) /\ References(r)' = References(r)
        BY DeclSame
  <2>2. /\ Registered' = Registered \cup {s}
        /\ complete' \subseteq complete \cup {s}
        /\ s \in complete' <=> ParentFound(s)
        /\ \A r, t : Before(schemaOrder, t, r) => Before(schemaOrder', t, r)
        /\ \A t \in Registered : Before(schemaOrder', t, s)
        BY <1>2, RegisterStep
  <2> SUFFICES ASSUME NEW r \in Registered', ~decl[r].abstract
               PROVE  /\ r \in complete' => \A t \in Parents(r) : Before(schemaOrder', t, r)
                      /\ \A t \in References(r) : Before(schemaOrder', t, r)
      BY <2>1 DEF TablesOK, Before
  <2>3. CASE r = s
    <3>1. r \in complete' => Parents(r) \subseteq Registered
          BY <2>2, <2>3 DEF ParentFound
    <3>2. References(r) \subseteq Registered
          BY <2>3
    <3>3. QED
          BY <2>2, <2>3, <3>1, <3>2
  <2>4. CASE r # s
    <3>1. r \in Registered /\ (r \in complete' => r \in complete)
          BY <2>2, <2>4
    <3>2. QED
          BY <2>2, <3>1 DEF TablesOK
  <2>5. QED
        BY <2>3, <2>4
<1>3. QED
      BY <1>1, <1>2

\* A file that fails is tried again, or its error is returned.
LEMMA ReturnError ==
  ASSUME TypeOK, FilesOK, todo # <<>>, result = "none", UNCHANGED callerVars, Return(TRUE),
         Registered \subseteq Registered'
  PROVE  FilesOK' /\ todo' \in Seq(Files) /\ rest' \in Seq(Files) /\ result' \in {"none", "error"}
<1>1. /\ todo' = Tail(todo) /\ rest' = Append(rest, Head(todo))
      /\ result' = IF passes = 1 THEN "error" ELSE "none"
      /\ decl' = decl /\ ordered' = ordered /\ passes' = passes
      BY DEF Return, LastPass, callerVars
<1>2. todo \in Seq(Files) /\ rest \in Seq(Files)
      BY DEF TypeOK
<1>3. /\ todo' \in Seq(Files) /\ Head(todo) \in Files
      /\ ToSet(todo) = {Head(todo)} \cup ToSet(todo')
      BY <1>1, <1>2, SetOfTail
<1>4. rest' \in Seq(Files) /\ ToSet(rest') = ToSet(rest) \cup {Head(todo)}
      BY <1>1, <1>2, <1>3, SetOfAppend
<1>5. ASSUME NEW file \in Files PROVE file \in ToSet(todo') \/ file \in ToSet(rest') \/ Loaded(file)'
  <2>1. Loaded(file) => Loaded(file)'
        BY <1>1, LoadedStays
  <2>2. QED
        BY <1>3, <1>4, <2>1 DEF FilesOK
<1>6. /\ result' # "ok" /\ ~(passes' = 1 /\ result' = "none")
      /\ ~ordered' => passes' = 1
      /\ ~ordered' => result' = "error"
      BY <1>1 DEF FilesOK
<1>7. FilesOK'
      BY <1>5, <1>6 DEF FilesOK
<1>8. QED
      BY <1>1, <1>3, <1>4, <1>7

\* A file that does not fail is loaded.
LEMMA ReturnDone ==
  ASSUME TypeOK, FilesOK, todo # <<>>, result = "none", UNCHANGED <<callerVars, managerVars>>, Return(FALSE),
         Loaded(File)
  PROVE  FilesOK' /\ todo' \in Seq(Files) /\ rest' = rest /\ result' = "none"
<1>1. /\ todo' = Tail(todo) /\ rest' = rest /\ result' = "none"
      /\ decl' = decl /\ ordered' = ordered /\ passes' = passes
      /\ Registered' = Registered /\ complete' = complete
      BY DEF Return, callerVars, managerVars, Registered
<1>2. todo \in Seq(Files) /\ rest \in Seq(Files)
      BY DEF TypeOK
<1>3. /\ todo' \in Seq(Files) /\ Head(todo) \in Files
      /\ ToSet(todo) = {Head(todo)} \cup ToSet(todo')
      BY <1>1, <1>2, SetOfTail
<1>4. ASSUME NEW file \in Files PROVE file \in ToSet(todo') \/ file \in ToSet(rest') \/ Loaded(file)'
  <2>1. Loaded(file) => Loaded(file)'
        BY <1>1, LoadedStays
  <2>2. QED
        BY <1>1, <1>3, <2>1 DEF FilesOK, File
<1>5. FilesOK'
      BY <1>1, <1>4 DEF FilesOK
<1>6. QED
      BY <1>1, <1>3, <1>5

-----------------------------------------------------------------------------
(* The callers and the first loop keep the invariant *)

\* Before anything is loaded.
LEMMA InitLoad == Init => LoadInv
<1> SUFFICES ASSUME Init PROVE LoadInv
    OBVIOUS
<1>1. TypeOK
  <2>1. passes \in 1 .. MaxDepth
        BY SchemaConstants DEF Init
  <2>2. <<>> \in Seq(Files) /\ <<>> \in Seq(Schemas) /\ 0 \in 0 .. Len(<<>>)
        OBVIOUS
  <2>3. todo \in Seq(Files)
        BY SchemaConstants DEF Init
  <2>4. /\ rest \in Seq(Files) /\ schemaOrder \in Seq(Schemas) /\ complete \subseteq Schemas
        /\ prepared \subseteq Schemas /\ stack \in Seq(Schemas) /\ list \in Seq(Schemas)
        /\ registered \in 0 .. Len(list)
        BY <2>2, Zenon DEF Init
  <2>5. /\ result \in {"none", "ok", "error"} /\ at \in {"idle", "prepare", "reorder", "register"}
        /\ circle \in BOOLEAN /\ ordered \in BOOLEAN /\ decl \in [Schemas -> Declaration]
        BY DEF Init
  <2>6. QED
        BY <2>1, <2>3, <2>4, <2>5, Zenon DEF TypeOK
<1>2. Registered = {}
      BY SetOfEmpty DEF Registered, Init
<1>3. PlaceOK /\ SearchOK
      BY DEF PlaceOK, SearchOK, Init
<1>4. LoopsOK /\ TablesOK
      BY <1>2 DEF LoopsOK, TablesOK, Init
<1>5. FilesOK
      BY <1>2 DEF FilesOK, Init, Files
<1>6. QED
      BY <1>1, <1>3, <1>4, <1>5 DEF LoadInv

\* The load of a file begins.
LEMMA LoadFileInv ==
  ASSUME LoadInv, LoadSchemaFromFile
  PROVE  LoadInv'
<1> USE DEF LoadInv
<1>1. /\ at = "idle" /\ at' = "prepare" /\ result = "none" /\ todo # <<>> /\ prepared' = {}
      /\ UNCHANGED <<callerVars, passVars, managerVars, reorderVars, registered>>
      BY DEF LoadSchemaFromFile
<1>2. TypeOK' /\ PlaceOK'
      BY <1>1 DEF TypeOK, PlaceOK, callerVars, passVars, managerVars, reorderVars
<1>3. SearchOK'
      BY <1>1 DEF SearchOK
<1>4. Registered' = Registered /\ complete' = complete
      BY <1>1 DEF Registered, managerVars
<1>5. LoopsOK'
      BY <1>1, <1>4 DEF LoopsOK, reorderVars
<1>6. TablesOK'
      BY <1>1, SameTables DEF callerVars
<1>7. FilesOK'
      BY <1>1, <1>4, SameFiles
<1>8. QED
      BY <1>2, <1>3, <1>5, <1>6, <1>7

\* The next pass, or the end.
LEMMA NextPassInv ==
  ASSUME LoadInv, NextPass
  PROVE  LoadInv'
<1> USE DEF LoadInv
<1>1. /\ at = "idle" /\ result = "none" /\ todo = <<>> /\ todo' = rest /\ rest' = <<>>
      /\ IF rest = <<>> THEN result' = "ok" /\ passes' = passes ELSE result' = result /\ passes' = passes - 1
      /\ UNCHANGED <<decl, ordered, managerVars, at, prepared, reorderVars, registered>>
      BY DEF NextPass
<1>2. passes' \in 1 .. MaxDepth
      BY <1>1, SchemaConstants DEF TypeOK, FilesOK
<1>3. TypeOK'
      BY <1>1, <1>2 DEF TypeOK, managerVars, reorderVars
<1>4. PlaceOK' /\ SearchOK'
      BY <1>1 DEF PlaceOK, SearchOK, reorderVars
<1>5. Registered' = Registered /\ complete' = complete
      BY <1>1 DEF Registered, managerVars
<1>6. LoopsOK'
      BY <1>1, <1>5 DEF LoopsOK, reorderVars
<1>7. TablesOK'
      BY <1>1, SameTables
<1>8. FilesOK'
  <2>1. ASSUME NEW file \in Files PROVE file \in ToSet(todo') \/ Loaded(file)'
    <3>1. Loaded(file) => Loaded(file)'
          BY <1>1, <1>5, LoadedStays
    <3>2. QED
          BY <1>1, <3>1, SetOfEmpty DEF FilesOK
  <2>2. /\ result' = "ok" => todo' = <<>> /\ rest' = <<>>
        /\ passes' = 1 /\ result' = "none" => rest' = <<>>
        BY <1>1
  <2>3. ~ordered => rest = <<>> /\ passes' = 1
        BY <1>1 DEF FilesOK
  <2>4. QED
        BY <1>1, <1>5, <2>1, <2>2, <2>3 DEF FilesOK
<1>9. QED
      BY <1>3, <1>4, <1>6, <1>7, <1>8

\* The first loop registers an abstract schema.
LEMMA PrepareAbstractInv ==
  ASSUME LoadInv, NEW s \in Schemas, PrepareAbstract(s)
  PROVE  LoadInv'
<1> USE DEF LoadInv
<1>1. /\ at = "prepare" /\ decl[s].abstract /\ RegisterSchema(s) /\ prepared' = prepared \cup {s}
      /\ UNCHANGED <<callerVars, passVars, at, reorderVars, registered>>
      BY DEF PrepareAbstract, ToPrepare
<1>2. schemaOrder \in Seq(Schemas) /\ complete \subseteq Registered
      BY DEF TypeOK, LoopsOK
<1>3. /\ schemaOrder' \in Seq(Schemas) /\ complete' \subseteq Schemas
      /\ Registered' = Registered \cup {s}
      /\ complete' \subseteq Registered' /\ complete \subseteq complete'
      BY <1>1, <1>2, RegisterStep
<1>4. TypeOK' /\ PlaceOK'
      BY <1>1, <1>3 DEF TypeOK, PlaceOK, callerVars, passVars, reorderVars
<1>5. SearchOK'
      BY <1>1, SameSearch DEF callerVars, passVars
<1>6. LoopsOK'
      BY <1>1, <1>3 DEF LoopsOK, PlaceOK, reorderVars, callerVars
<1>7. TablesOK'
      BY <1>1, <1>2, RegisterTables DEF callerVars
<1>8. FilesOK'
      BY <1>1, <1>3, SameFiles
<1>9. QED
      BY <1>4, <1>5, <1>6, <1>7, <1>8

\* The first loop extends a concrete schema, or returns an error.
LEMMA PrepareConcreteInv ==
  ASSUME LoadInv, NEW s \in Schemas, PrepareConcrete(s)
  PROVE  LoadInv'
<1> USE DEF LoadInv
<1>1. /\ at = "prepare" /\ ~decl[s].abstract /\ result = "none" /\ todo # <<>>
      /\ UNCHANGED <<callerVars, managerVars, reorderVars, registered>>
      BY DEF PrepareConcrete, ToPrepare, PlaceOK
<1>2. Registered' = Registered /\ complete' = complete
      BY <1>1 DEF Registered, managerVars
<1>3. TablesOK'
      BY <1>1, SameTables DEF callerVars
<1>4. CASE BaseError(s)
  <2>1. Return(TRUE) /\ prepared' = {} /\ at' = "idle"
        BY <1>4 DEF PrepareConcrete, Return
  <2>2. FilesOK' /\ todo' \in Seq(Files) /\ rest' \in Seq(Files) /\ result' \in {"none", "error"}
        BY <1>1, <1>2, <2>1, ReturnError
  <2>3. TypeOK' /\ PlaceOK'
        BY <1>1, <2>1, <2>2 DEF TypeOK, PlaceOK, callerVars, managerVars, reorderVars
  <2>4. SearchOK'
        BY <2>1 DEF SearchOK
  <2>5. LoopsOK'
        BY <1>1, <1>2, <2>1 DEF LoopsOK, reorderVars
  <2>6. QED
        BY <1>3, <2>2, <2>3, <2>4, <2>5
<1>5. CASE ~BaseError(s)
  <2>1. prepared' = prepared \cup {s} /\ UNCHANGED <<passVars, at>>
        BY <1>5 DEF PrepareConcrete
  <2>2. TypeOK' /\ PlaceOK'
        BY <1>1, <2>1 DEF TypeOK, PlaceOK, callerVars, passVars, managerVars, reorderVars
  <2>3. SearchOK'
        BY <1>1, <2>1, SameSearch DEF callerVars, passVars
  <2>4. LoopsOK'
        BY <1>1, <1>2, <2>1 DEF LoopsOK, PlaceOK, reorderVars, callerVars
  <2>5. FilesOK'
        BY <1>1, <1>2, <2>1, SameFiles
  <2>6. QED
        BY <1>3, <2>2, <2>3, <2>4, <2>5
<1>6. QED
      BY <1>4, <1>5

\* The first loop is over: all abstract schemas of the file are registered.
LEMMA PreparedInv ==
  ASSUME LoadInv, Prepared
  PROVE  LoadInv'
<1> USE DEF LoadInv
<1>1. /\ at = "prepare" /\ at' = "reorder" /\ prepared' = {} /\ SchemasOf(File) \subseteq prepared
      /\ UNCHANGED <<callerVars, passVars, managerVars, reorderVars, registered>>
      BY DEF Prepared
<1>2. /\ decl' = decl /\ File' = File /\ Registered' = Registered /\ complete' = complete
      /\ stack' = <<>> /\ list' = <<>> /\ circle' = FALSE /\ registered' = 0
      BY <1>1 DEF callerVars, passVars, managerVars, reorderVars, File, Registered, PlaceOK, TypeOK
<1>3. TypeOK' /\ PlaceOK'
      BY <1>1, <1>2 DEF TypeOK, PlaceOK, callerVars, passVars, managerVars, reorderVars
<1>4. SearchOK'
  <2>1. ToSet(list') = {} /\ ToSet(stack') = {} /\ Len(list') = 0 /\ Len(stack') = 0
        BY <1>2, SetOfEmpty
  <2>2. Sorted' /\ Path' /\ Distinct(list') /\ Distinct(stack')
        BY <2>1 DEF Sorted, Path, Distinct
  <2>3. QED
        BY <1>1, <1>2, <2>1, <2>2 DEF SearchOK, Search, Distinct
<1>5. LoopsOK'
      BY <1>1, <1>2 DEF LoopsOK, SchemasOf
<1>6. TablesOK'
      BY <1>1, SameTables DEF callerVars
<1>7. FilesOK'
      BY <1>1, <1>2, SameFiles
<1>8. QED
      BY <1>3, <1>4, <1>5, <1>6, <1>7

-----------------------------------------------------------------------------
(* reorderSchemas keeps the invariant *)

\* A step of the search leaves the rest of the invariant alone.
LEMMA SearchStep ==
  ASSUME LoadInv, NEW file \in Files, file = File, at = "reorder", at' \in {"reorder", "register"},
         UNCHANGED <<callerVars, passVars, managerVars, prepared, registered>>,
         stack' \in Seq(Schemas), list' \in Seq(Schemas), circle' \in BOOLEAN,
         at' = "register" => stack' = <<>>,
         at' = "reorder" => ~circle',
         circle' => list' = <<>>,
         Search(file)'
  PROVE  LoadInv'
<1> USE DEF LoadInv
<1>1. /\ decl' = decl /\ Registered' = Registered /\ complete' = complete /\ File' = File
      /\ registered = 0 /\ registered' = 0 /\ prepared' = prepared
      BY DEF callerVars, passVars, managerVars, Registered, File, PlaceOK
<1>2. Len(list') \in Nat
      BY SetOfSeq
<1>3. TypeOK'
      BY <1>1, <1>2 DEF TypeOK, callerVars, passVars, managerVars
<1>4. PlaceOK'
      BY <1>1 DEF PlaceOK, passVars
<1>5. SearchOK'
  <2>1. ASSUME NEW f \in Files, f = File' PROVE Search(f)'
    <3>1. f = file
          BY <1>1, <2>1
    <3>2. QED
          BY <3>1 DEF Search
  <2>2. QED
        BY <2>1 DEF SearchOK
<1>6. LoopsOK'
      BY <1>1 DEF LoopsOK
<1>7. TablesOK'
      BY SameTables DEF callerVars
<1>8. FilesOK'
      BY <1>1, SameFiles
<1>9. QED
      BY <1>3, <1>4, <1>5, <1>6, <1>7, <1>8

\* The file of the search.
LEMMA SearchFile ==
  ASSUME LoadInv, at \in {"reorder", "register"}
  PROVE  \E file \in Files : file = File /\ Search(file)
<1>1. File \in Files
      BY SetOfTail DEF LoadInv, TypeOK, PlaceOK, File
<1>2. QED
      BY <1>1 DEF LoadInv, SearchOK

\* A visit starts.
LEMMA StartVisitInv ==
  ASSUME LoadInv, NEW s \in Schemas, StartVisit(s)
  PROVE  LoadInv'
<1>1. /\ at = "reorder" /\ stack = <<>> /\ s \in SchemasOf(File) \ ToSet(list) /\ stack' = <<s>>
      /\ UNCHANGED <<callerVars, passVars, managerVars, at, prepared, list, circle, registered>>
      BY DEF StartVisit, Visited
<1>2. PICK file \in Files : file = File /\ Search(file)
      BY <1>1, SearchFile
<1>3. decl' = decl /\ list' = list /\ circle' = circle /\ at' = at
      BY <1>1 DEF callerVars
<1>4. /\ \A r : References(r)' = References(r)
      /\ SchemasOf(file)' = SchemasOf(file) /\ (Cyclic(file)' <=> Cyclic(file))
      BY <1>3, DeclSame
<1>5. stack' \in Seq(Schemas) /\ Len(stack') = 1 /\ ToSet(stack') = {s}
  <2>1. <<s>> \in Seq(Schemas) /\ Len(<<s>>) = 1 /\ <<s>>[1] = s
        OBVIOUS
  <2>2. ToSet(<<s>>) = {s}
        BY DEF ToSet
  <2>3. QED
        BY <1>1, <2>1, <2>2, Zenon
<1>6. Search(file)'
  <2>1. Sorted'
        BY <1>2, <1>3, <1>4 DEF Search, Sorted
  <2>2. Path' /\ Distinct(stack')
        BY <1>5 DEF Path, Distinct
  <2>3. ToSet(stack') \subseteq SchemasOf(file) \ ToSet(list)
        BY <1>1, <1>2, <1>5
  <2>4. QED
        BY <1>1, <1>2, <1>3, <1>4, <2>1, <2>2, <2>3 DEF Search, Distinct
<1>7. list \in Seq(Schemas) /\ ~circle /\ circle \in BOOLEAN
      BY <1>1 DEF LoadInv, TypeOK, PlaceOK
<1>8. QED
      BY <1>1, <1>2, <1>3, <1>5, <1>6, <1>7, SearchStep

\* A visit goes on, or finds a circle.
LEMMA VisitRelatedInv ==
  ASSUME LoadInv, NEW t \in Schemas, VisitRelated(t)
  PROVE  LoadInv'
<1>1. /\ at = "reorder" /\ stack # <<>> /\ t \in References(Last(stack)) /\ t \notin ToSet(list)
      /\ IF t \in ToSet(stack)
         THEN stack' = <<>> /\ list' = <<>> /\ circle' = TRUE /\ at' = "register"
         ELSE stack' = Append(stack, t) /\ list' = list /\ circle' = circle /\ at' = at
      /\ UNCHANGED <<callerVars, passVars, managerVars, prepared, registered>>
      BY DEF VisitRelated, Visited
<1>2. PICK file \in Files : file = File /\ Search(file)
      BY <1>1, SearchFile
<1>3. decl' = decl
      BY <1>1 DEF callerVars
<1>4. /\ \A r : References(r)' = References(r)
      /\ SchemasOf(file)' = SchemasOf(file) /\ (Cyclic(file)' <=> Cyclic(file))
      BY <1>3, DeclSame
<1>5. stack \in Seq(Schemas) /\ list \in Seq(Schemas) /\ circle \in BOOLEAN /\ ~circle
      BY <1>1 DEF LoadInv, TypeOK, PlaceOK
<1>6. /\ Distinct(list) /\ Sorted /\ ToSet(list) \subseteq SchemasOf(file)
      /\ Distinct(stack) /\ Path /\ ToSet(stack) \subseteq SchemasOf(file) \ ToSet(list)
      BY <1>2 DEF Search
<1>7. CASE t \in ToSet(stack)
  <2>1. stack' = <<>> /\ list' = <<>> /\ circle' = TRUE /\ at' = "register"
        BY <1>1, <1>7
  <2>2. Cyclic(file)
        BY <1>1, <1>5, <1>6, <1>7, StackCircle
  <2>3. ToSet(list') = {} /\ ToSet(stack') = {} /\ Len(list') = 0 /\ Len(stack') = 0
        BY <2>1, SetOfEmpty
  <2>4. Sorted' /\ Path' /\ Distinct(list') /\ Distinct(stack')
        BY <2>3 DEF Sorted, Path, Distinct
  <2>5. Search(file)'
        BY <1>4, <2>1, <2>2, <2>3, <2>4 DEF Search, Distinct
  <2>6. <<>> \in Seq(Schemas)
        OBVIOUS
  <2>7. QED
        BY <1>1, <1>2, <2>1, <2>5, <2>6, SearchStep
<1>8. CASE t \notin ToSet(stack)
  <2>1. stack' = Append(stack, t) /\ list' = list /\ circle' = circle /\ at' = at
        BY <1>1, <1>8
  <2>2. /\ stack' \in Seq(Schemas) /\ Len(stack') = Len(stack) + 1 /\ stack'[Len(stack) + 1] = t
        /\ \A i \in 1 .. Len(stack) : stack'[i] = stack[i]
        /\ ToSet(stack') = ToSet(stack) \cup {t}
        BY <1>5, <2>1, SetOfAppend
  <2>3. /\ Len(stack) \in Nat /\ Len(stack) >= 1 /\ Last(stack) = stack[Len(stack)]
        /\ Last(stack) \in ToSet(stack) /\ Last(stack) \in Schemas
        BY <1>1, <1>5, SetOfFront
  <2>4. \A x : x \in ToSet(stack) <=> \E i \in 1 .. Len(stack) : stack[i] = x
        BY <1>5, SetOfSeq
  <2>5. Sorted'
        BY <1>4, <1>6, <2>1 DEF Sorted
  <2>6. Path'
    <3> SUFFICES ASSUME NEW i \in 1 .. Len(stack') - 1 PROVE stack'[i + 1] \in References(stack'[i])
        BY <1>4, <2>2 DEF Path
    <3>1. CASE i = Len(stack)
          BY <1>1, <2>2, <2>3, <3>1
    <3>2. CASE i # Len(stack)
      <4>1. i \in 1 .. Len(stack) - 1 /\ i \in 1 .. Len(stack) /\ i + 1 \in 1 .. Len(stack)
            BY <2>2, <2>3, <3>2
      <4>2. stack[i] \in Schemas
            BY <1>5, <4>1
      <4>3. QED
            BY <1>6, <2>2, <4>1, <4>2 DEF Path
    <3>3. QED
          BY <3>1, <3>2
  <2>7. Distinct(stack')
    <3> SUFFICES ASSUME NEW i \in 1 .. Len(stack'), NEW j \in 1 .. Len(stack'), stack'[i] = stack'[j]
                 PROVE  i = j
        BY DEF Distinct
    <3>1. (i \in 1 .. Len(stack) \/ i = Len(stack) + 1) /\ (j \in 1 .. Len(stack) \/ j = Len(stack) + 1)
          BY <2>2, <2>3
    <3>2. QED
          BY <1>6, <1>8, <2>2, <2>4, <3>1 DEF Distinct
  <2>8. t \in SchemasOf(file)
    <3>1. Last(stack) \in SchemasOf(file)
          BY <1>6, <2>3
    <3>2. decl[Last(stack)].file = file
          BY <3>1 DEF SchemasOf
    <3>3. QED
          BY <1>1, <2>3, <3>2, ReferencesType
  <2>9. ToSet(stack') \subseteq SchemasOf(file) \ ToSet(list)
        BY <1>1, <1>6, <2>2, <2>8
  <2>10. Search(file)'
        BY <1>1, <1>4, <1>5, <1>6, <2>1, <2>5, <2>6, <2>7, <2>9 DEF Search, Distinct
  <2>11. QED
        BY <1>1, <1>2, <1>5, <2>1, <2>2, <2>10, SearchStep
<1>9. QED
      BY <1>7, <1>8

\* A visit ends: what the schema refers to is in the list.
LEMMA EndVisitInv ==
  ASSUME LoadInv, EndVisit
  PROVE  LoadInv'
<1> DEFINE s == Last(stack)
<1>1. /\ at = "reorder" /\ stack # <<>> /\ References(s) \subseteq ToSet(list)
      /\ list' = Append(list, s) /\ stack' = Front(stack)
      /\ UNCHANGED <<callerVars, passVars, managerVars, at, prepared, circle, registered>>
      BY DEF EndVisit, Visited, Listed
<1>2. PICK file \in Files : file = File /\ Search(file)
      BY <1>1, SearchFile
<1>3. decl' = decl
      BY <1>1 DEF callerVars
<1>4. /\ \A r : References(r)' = References(r)
      /\ SchemasOf(file)' = SchemasOf(file) /\ (Cyclic(file)' <=> Cyclic(file))
      BY <1>3, DeclSame
<1>5. stack \in Seq(Schemas) /\ list \in Seq(Schemas) /\ circle \in BOOLEAN /\ ~circle
      BY <1>1 DEF LoadInv, TypeOK, PlaceOK
<1>6. /\ Distinct(list) /\ Sorted /\ ToSet(list) \subseteq SchemasOf(file)
      /\ Distinct(stack) /\ Path /\ ToSet(stack) \subseteq SchemasOf(file) \ ToSet(list)
      BY <1>2 DEF Search
<1>7. /\ stack' \in Seq(Schemas) /\ s \in Schemas /\ Len(stack) \in Nat /\ Len(stack) >= 1
      /\ Len(stack') = Len(stack) - 1 /\ s = stack[Len(stack)]
      /\ \A i \in 1 .. Len(stack') : stack'[i] = stack[i]
      /\ ToSet(stack) = ToSet(stack') \cup {s}
      BY <1>1, <1>5, SetOfFront
<1> HIDE DEF s
<1>8. /\ list' \in Seq(Schemas) /\ Len(list') = Len(list) + 1 /\ list'[Len(list) + 1] = s
      /\ \A i \in 1 .. Len(list) : list'[i] = list[i]
      /\ ToSet(list') = ToSet(list) \cup {s}
      BY <1>1, <1>5, <1>7, SetOfAppend
<1>9. Len(list) \in Nat /\ \A x : x \in ToSet(list) <=> \E i \in 1 .. Len(list) : list[i] = x
      BY <1>5, SetOfSeq
<1>10. s \notin ToSet(list) /\ s \in SchemasOf(file)
      BY <1>6, <1>7
<1>11. s \notin ToSet(stack')
  <2>1. \A x : x \in ToSet(stack') <=> \E i \in 1 .. Len(stack') : stack'[i] = x
        BY <1>7, SetOfSeq
  <2>2. \A i \in 1 .. Len(stack') : i \in 1 .. Len(stack) /\ i # Len(stack) /\ Len(stack) \in 1 .. Len(stack)
        BY <1>7
  <2>3. QED
        BY <1>6, <1>7, <2>1, <2>2 DEF Distinct
<1>12. Distinct(list')
  <2> SUFFICES ASSUME NEW i \in 1 .. Len(list'), NEW j \in 1 .. Len(list'), list'[i] = list'[j]
               PROVE  i = j
      BY DEF Distinct
  <2>1. (i \in 1 .. Len(list) \/ i = Len(list) + 1) /\ (j \in 1 .. Len(list) \/ j = Len(list) + 1)
        BY <1>8, <1>9
  <2>2. QED
        BY <1>6, <1>8, <1>9, <1>10, <2>1 DEF Distinct
<1>13. Sorted'
  <2> SUFFICES ASSUME NEW i \in 1 .. Len(list'), NEW t \in References(list'[i])
               PROVE  \E j \in 1 .. i - 1 : list'[j] = t
      BY <1>4 DEF Sorted
  <2>1. CASE i = Len(list) + 1
    <3>1. t \in ToSet(list)
          BY <1>1, <1>8, <2>1
    <3>2. PICK j \in 1 .. Len(list) : list[j] = t
          BY <1>9, <3>1
    <3>3. j \in 1 .. i - 1
          BY <1>9, <2>1
    <3>4. QED
          BY <1>8, <3>2, <3>3
  <2>2. CASE i # Len(list) + 1
    <3>1. i \in 1 .. Len(list)
          BY <1>8, <1>9, <2>2
    <3>2. list'[i] = list[i] /\ list[i] \in Schemas
          BY <1>5, <1>8, <3>1
    <3>3. PICK j \in 1 .. i - 1 : list[j] = t
          BY <1>6, <3>1, <3>2 DEF Sorted
    <3>4. j \in 1 .. Len(list)
          BY <1>9, <3>1
    <3>5. QED
          BY <1>8, <3>3, <3>4
  <2>3. QED
        BY <2>1, <2>2
<1>14. Distinct(stack')
  <2>1. \A i \in 1 .. Len(stack') : i \in 1 .. Len(stack)
        BY <1>7
  <2>2. QED
        BY <1>6, <1>7, <2>1 DEF Distinct
<1>15. Path'
  <2> SUFFICES ASSUME NEW i \in 1 .. Len(stack') - 1 PROVE stack'[i + 1] \in References(stack'[i])
      BY <1>4 DEF Path
  <2>1. i \in 1 .. Len(stack) - 1 /\ i \in 1 .. Len(stack') /\ i + 1 \in 1 .. Len(stack') /\ i \in 1 .. Len(stack)
        BY <1>7
  <2>2. stack[i] \in Schemas
        BY <1>5, <2>1
  <2>3. QED
        BY <1>6, <1>7, <2>1, <2>2 DEF Path
<1>16. ToSet(list') \subseteq SchemasOf(file) /\ ToSet(stack') \subseteq SchemasOf(file) \ ToSet(list')
      BY <1>6, <1>7, <1>8, <1>10, <1>11
<1>17. circle' = circle /\ at' = at
      BY <1>1
<1>18. Search(file)'
      BY <1>1, <1>4, <1>5, <1>12, <1>13, <1>14, <1>15, <1>16, <1>17 DEF Search, Distinct
<1>19. QED
      BY <1>1, <1>2, <1>5, <1>7, <1>8, <1>17, <1>18, SearchStep

\* The list is complete.
LEMMA ReorderedInv ==
  ASSUME LoadInv, Reordered
  PROVE  LoadInv'
<1>1. /\ at = "reorder" /\ at' = "register" /\ stack = <<>> /\ SchemasOf(File) \subseteq ToSet(list)
      /\ UNCHANGED <<callerVars, passVars, managerVars, prepared, reorderVars, registered>>
      BY DEF Reordered, Visited
<1>2. PICK file \in Files : file = File /\ Search(file)
      BY <1>1, SearchFile
<1>3. decl' = decl /\ stack' = stack /\ list' = list /\ circle' = circle
      BY <1>1 DEF callerVars, reorderVars
<1>4. /\ \A r : References(r)' = References(r)
      /\ SchemasOf(file)' = SchemasOf(file) /\ (Cyclic(file)' <=> Cyclic(file))
      BY <1>3, DeclSame
<1>5. stack \in Seq(Schemas) /\ list \in Seq(Schemas) /\ circle \in BOOLEAN /\ ~circle
      BY <1>1 DEF LoadInv, TypeOK, PlaceOK
<1>6. Sorted' /\ Path'
      BY <1>2, <1>3, <1>4 DEF Search, Sorted, Path
<1>7. Search(file)'
      BY <1>1, <1>2, <1>3, <1>4, <1>5, <1>6 DEF Search, Distinct
<1>8. QED
      BY <1>1, <1>2, <1>3, <1>5, <1>7, SearchStep

-----------------------------------------------------------------------------
(* The second loop keeps the invariant *)

\* What the next schema of the list refers to has been registered, and it is not its own parent.
LEMMA NextOfList ==
  ASSUME LoadInv, at = "register", registered < Len(list), NEW s, s = list[registered + 1]
  PROVE  /\ s \in Schemas /\ s \in SchemasOf(File)
         /\ References(s) \subseteq Registered
         /\ ~decl[s].abstract => s \notin Parents(s)
<1>1. PICK file \in Files : file = File /\ Search(file)
      BY SearchFile
<1>2. /\ list \in Seq(Schemas) /\ registered \in Nat /\ Len(list) \in Nat
      /\ registered + 1 \in 1 .. Len(list)
      BY DEF LoadInv, TypeOK
<1>3. s \in Schemas /\ s \in ToSet(list)
      BY <1>2, SetOfSeq
<1>4. s \in SchemasOf(file)
      BY <1>1, <1>3 DEF Search
<1>5. ASSUME NEW t \in References(s) PROVE t \in Registered /\ t # s
  <2>1. PICK j \in 1 .. registered + 1 - 1 : list[j] = t
        BY <1>1, <1>2, <1>3 DEF Search, Sorted
  <2>2. j \in 1 .. registered /\ j \in 1 .. Len(list) /\ j # registered + 1
        BY <1>2
  <2>3. t \in Registered
        BY <2>1, <2>2 DEF LoadInv, LoopsOK
  <2>4. t # s
        BY <1>1, <1>2, <2>1, <2>2 DEF Search, Distinct
  <2>5. QED
        BY <2>3, <2>4
<1>6. ~decl[s].abstract => s \notin Parents(s)
  <2>1. s \in SchemasOf(decl[s].file)
        BY <1>3 DEF SchemasOf
  <2>2. QED
        BY <1>3, <1>5, <2>1, ReferencesType
<1>7. QED
      BY <1>1, <1>3, <1>4, <1>5, <1>6

\* The next schema of the list is registered.
LEMMA RegisterNextInv ==
  ASSUME LoadInv, RegisterNext
  PROVE  LoadInv'
<1> USE DEF LoadInv
<1> DEFINE s == list[registered + 1]
<1>1. /\ at = "register" /\ registered < Len(list) /\ result = "none" /\ todo # <<>>
      /\ UNCHANGED <<callerVars, prepared>>
      BY DEF RegisterNext, PlaceOK
<1>2. /\ IF decl[s].abstract THEN UNCHANGED managerVars ELSE RegisterSchema(s)
      /\ IF ~decl[s].abstract /\ RegisterError(s)
         THEN Return(TRUE) /\ Forget
         ELSE registered' = registered + 1 /\ UNCHANGED <<passVars, at, reorderVars>>
      BY DEF RegisterNext
<1>3. /\ s \in Schemas /\ s \in SchemasOf(File)
      /\ References(s) \subseteq Registered
      /\ ~decl[s].abstract => s \notin Parents(s)
      BY <1>1, NextOfList
<1>4. /\ list \in Seq(Schemas) /\ registered \in Nat /\ Len(list) \in Nat
      /\ schemaOrder \in Seq(Schemas) /\ complete \subseteq Registered /\ decl' = decl
      BY <1>1 DEF TypeOK, LoopsOK, callerVars
<1> HIDE DEF s
<1>5. TablesOK'
  <2>1. CASE decl[s].abstract
        BY <1>2, <1>4, <2>1, SameTables
  <2>2. CASE ~decl[s].abstract
        BY <1>2, <1>3, <1>4, <2>2, RegisterTables
  <2>3. QED
        BY <2>1, <2>2
<1>6. /\ schemaOrder' \in Seq(Schemas) /\ complete' \subseteq Schemas /\ complete' \subseteq Registered'
      /\ Registered \subseteq Registered' /\ complete \subseteq complete'
      /\ Registered' \subseteq Registered \cup {s}
      /\ s \in Registered'
      /\ ~decl[s].abstract /\ s \notin Registered => (s \in complete' <=> ParentFound(s))
  <2>1. CASE decl[s].abstract
    <3>1. schemaOrder' = schemaOrder /\ complete' = complete /\ Registered' = Registered
          BY <1>2, <2>1 DEF managerVars, Registered
    <3>2. s \in Registered
          BY <1>1, <1>3, <2>1 DEF LoopsOK, SchemasOf
    <3>3. QED
          BY <1>4, <2>1, <3>1, <3>2 DEF TypeOK
  <2>2. CASE ~decl[s].abstract
        BY <1>2, <1>3, <1>4, <2>2, RegisterStep
  <2>3. QED
        BY <2>1, <2>2
<1>7. CASE ~decl[s].abstract /\ RegisterError(s)
  <2>1. Return(TRUE) /\ Forget /\ at' = "idle"
        BY <1>2, <1>7 DEF Return
  <2>2. list' = <<>> /\ circle' = FALSE /\ registered' = 0 /\ stack' = <<>> /\ prepared' = {}
        BY <1>1, <2>1 DEF Forget, PlaceOK
  <2>3. FilesOK' /\ todo' \in Seq(Files) /\ rest' \in Seq(Files) /\ result' \in {"none", "error"}
        BY <1>1, <1>6, <2>1, ReturnError
  <2>4. stack' \in Seq(Schemas) /\ list' \in Seq(Schemas) /\ registered' \in 0 .. Len(list')
    <3>1. <<>> \in Seq(Schemas) /\ 0 \in 0 .. Len(<<>>)
          OBVIOUS
    <3>2. QED
          BY <2>2, <3>1, Zenon
  <2>5. TypeOK'
        BY <1>1, <1>6, <2>1, <2>2, <2>3, <2>4 DEF TypeOK, callerVars
  <2>6. PlaceOK' /\ SearchOK'
        BY <2>1, <2>2 DEF PlaceOK, SearchOK
  <2>7. LoopsOK'
        BY <1>6, <2>1, <2>2 DEF LoopsOK
  <2>8. QED
        BY <1>5, <2>3, <2>5, <2>6, <2>7
<1>8. CASE ~(~decl[s].abstract /\ RegisterError(s))
  <2>1. registered' = registered + 1 /\ UNCHANGED <<passVars, at, reorderVars>>
        BY <1>2, <1>8
  <2>2. todo' = todo /\ list' = list /\ at' = at /\ prepared' = prepared
        BY <1>1, <2>1 DEF passVars, reorderVars
  <2>3. registered' \in 0 .. Len(list)
        BY <1>1, <1>4, <2>1
  <2>4. TypeOK'
        BY <1>1, <1>6, <2>1, <2>3 DEF TypeOK, callerVars, passVars, reorderVars
  <2>5. PlaceOK'
        BY <1>1, <2>1, <2>2 DEF PlaceOK, passVars, reorderVars
  <2>6. SearchOK'
        BY <1>4, <2>1, <2>2, SameSearch
  <2>7. LoopsOK'
    <3>1. ASSUME NEW i \in 1 .. registered' PROVE list'[i] \in Registered'
      <4>1. i \in 1 .. registered \/ i = registered + 1
            BY <1>4, <2>1
      <4>2. QED
            BY <1>6, <2>2, <4>1 DEF LoopsOK, s
    <3>2. File' = File
          BY <2>2 DEF File
    <3>3. QED
          BY <1>4, <1>6, <2>2, <3>1, <3>2 DEF LoopsOK
  <2>8. FilesOK'
    <3>1. ~decl[s].abstract /\ s \notin Registered => s \in complete'
          BY <1>6, <1>8 DEF RegisterError
    <3>2. QED
          BY <1>1, <1>6, <2>1, <3>1, SameFiles
  <2>9. QED
        BY <1>5, <2>4, <2>5, <2>6, <2>7, <2>8
<1>9. QED
      BY <1>7, <1>8

\* The second loop is over: the file is loaded.
LEMMA RegisterDoneInv ==
  ASSUME LoadInv, RegisterDone
  PROVE  LoadInv'
<1> USE DEF LoadInv
<1>1. /\ at = "register" /\ registered = Len(list) /\ Return(FALSE) /\ Forget /\ at' = "idle"
      /\ UNCHANGED <<callerVars, managerVars, prepared>>
      BY DEF RegisterDone, Return
<1>2. result = "none" /\ todo # <<>> /\ list \in Seq(Schemas)
      BY <1>1 DEF PlaceOK, TypeOK
<1>3. Loaded(File)
  <2>1. PICK file \in Files : file = File /\ Search(file)
        BY <1>1, SearchFile
  <2> SUFFICES ASSUME NEW s \in SchemasOf(file), decl[s].abstract \/ ~Cyclic(file)
               PROVE  s \in Registered
      BY <2>1 DEF Loaded
  <2>2. CASE decl[s].abstract
        BY <1>1, <2>1, <2>2 DEF LoopsOK, SchemasOf
  <2>3. CASE ~Cyclic(file)
    <3>1. s \in ToSet(list)
          BY <1>1, <2>1, <2>3 DEF Search
    <3>2. PICK i \in 1 .. Len(list) : list[i] = s
          BY <1>2, <3>1, SetOfSeq
    <3>3. QED
          BY <1>1, <3>2 DEF LoopsOK
  <2>4. QED
        BY <2>2, <2>3
<1>4. FilesOK' /\ todo' \in Seq(Files) /\ rest' = rest /\ result' = "none"
      BY <1>1, <1>2, <1>3, ReturnDone
<1>5. list' = <<>> /\ circle' = FALSE /\ registered' = 0 /\ stack' = <<>> /\ prepared' = {}
      BY <1>1 DEF Forget, PlaceOK
<1>6. stack' \in Seq(Schemas) /\ list' \in Seq(Schemas) /\ registered' \in 0 .. Len(list')
  <2>1. <<>> \in Seq(Schemas) /\ 0 \in 0 .. Len(<<>>)
        OBVIOUS
  <2>2. QED
        BY <1>5, <2>1, Zenon
<1>7. TypeOK'
      BY <1>1, <1>4, <1>5, <1>6 DEF TypeOK, callerVars, managerVars
<1>8. PlaceOK' /\ SearchOK'
      BY <1>1, <1>5 DEF PlaceOK, SearchOK
<1>9. Registered' = Registered /\ complete' = complete
      BY <1>1 DEF Registered, managerVars
<1>10. LoopsOK'
      BY <1>1, <1>5, <1>9 DEF LoopsOK
<1>11. TablesOK'
      BY <1>1, SameTables DEF callerVars
<1>12. QED
      BY <1>4, <1>7, <1>8, <1>10, <1>11

\* Nothing happens.
LEMMA LoadStutter ==
  ASSUME LoadInv, UNCHANGED vars
  PROVE  LoadInv'
<1> USE DEF LoadInv
<1>1. UNCHANGED <<callerVars, passVars, managerVars, at, prepared, reorderVars, registered>>
      BY DEF vars
<1>2. /\ decl' = decl /\ todo' = todo /\ Registered' = Registered /\ complete' = complete /\ File' = File
      BY <1>1 DEF callerVars, passVars, managerVars, Registered, File
<1>3. TypeOK' /\ PlaceOK'
      BY <1>1 DEF TypeOK, PlaceOK, callerVars, passVars, managerVars, reorderVars
<1>4. SearchOK'
      BY <1>1, <1>2, SameSearch
<1>5. LoopsOK'
      BY <1>1, <1>2 DEF LoopsOK, reorderVars
<1>6. TablesOK'
      BY <1>1, <1>2, SameTables
<1>7. FilesOK'
      BY <1>1, <1>2, SameFiles
<1>8. QED
      BY <1>3, <1>4, <1>5, <1>6, <1>7

\* Every step keeps the invariant.
LEMMA LoadStep == LoadInv /\ [Next]_vars => LoadInv'
<1> SUFFICES ASSUME LoadInv, [Next]_vars PROVE LoadInv'
    OBVIOUS
<1>1. CASE LoadSchemaFromFile
      BY <1>1, LoadFileInv
<1>2. CASE NextPass
      BY <1>2, NextPassInv
<1>3. ASSUME NEW s \in Schemas, PrepareAbstract(s) PROVE LoadInv'
      BY <1>3, PrepareAbstractInv
<1>4. ASSUME NEW s \in Schemas, PrepareConcrete(s) PROVE LoadInv'
      BY <1>4, PrepareConcreteInv
<1>5. CASE Prepared
      BY <1>5, PreparedInv
<1>6. ASSUME NEW s \in Schemas, StartVisit(s) PROVE LoadInv'
      BY <1>6, StartVisitInv
<1>7. ASSUME NEW s \in Schemas, VisitRelated(s) PROVE LoadInv'
      BY <1>7, VisitRelatedInv
<1>8. CASE EndVisit
      BY <1>8, EndVisitInv
<1>9. CASE Reordered
      BY <1>9, ReorderedInv
<1>10. CASE RegisterNext
      BY <1>10, RegisterNextInv
<1>11. CASE RegisterDone
      BY <1>11, RegisterDoneInv
<1>12. CASE UNCHANGED vars
      BY <1>12, LoadStutter
<1>13. QED
      BY <1>1, <1>2, <1>3, <1>4, <1>5, <1>6, <1>7, <1>8, <1>9, <1>10, <1>11, <1>12 DEF Next

\* The inductive invariant of the load: the variables keep their types, the search is a
\* search, every file is loaded or still to be tried.
THEOREM LoadCorrect == Spec => []LoadInv
<1>1. QED
      BY InitLoad, LoadStep, PTL DEF Spec

\* The variables of the schema manager keep their types, in particular registerSchema's
\* index into the list and the number of passes left.
THEOREM SchemaTypeCorrect == Spec => []TypeOK
<1>1. LoadInv => TypeOK
      BY DEF LoadInv
<1>2. QED
      BY <1>1, LoadCorrect, PTL

\* reorderSchemas, for any declarations: an error exactly if there is a circle, and
\* otherwise a list of all schemas of the file in which each follows those it refers to.
THEOREM ReorderCorrect == Spec => []ReorderIsTopological
<1>1. ASSUME LoadInv PROVE ReorderIsTopological
  <2> SUFFICES ASSUME at = "register"
               PROVE  /\ circle <=> Cyclic(File)
                      /\ ~circle => /\ ToSet(list) = SchemasOf(File)
                                    /\ \A i, j \in 1 .. Len(list) : list[i] = list[j] => i = j
                                    /\ \A s \in SchemasOf(File) : \A t \in References(s) : Before(list, t, s)
      BY DEF ReorderIsTopological
  <2>1. PICK file \in Files : file = File /\ Search(file)
        BY <1>1, SearchFile
  <2>2. list \in Seq(Schemas) /\ circle \in BOOLEAN
        BY <1>1 DEF LoadInv, TypeOK
  <2>3. circle => Cyclic(file)
        BY <2>1 DEF Search
  <2>4. ASSUME ~circle
        PROVE  /\ ~Cyclic(file) /\ ToSet(list) = SchemasOf(file) /\ Distinct(list)
               /\ \A s \in SchemasOf(file) : \A t \in References(s) : Before(list, t, s)
    <3>1. ToSet(list) = SchemasOf(file) /\ Sorted /\ Distinct(list)
          BY <2>1, <2>4 DEF Search
    <3>2. ~Cyclic(file)
          BY <2>2, <3>1, SortedNoCircle
    <3>3. ASSUME NEW s \in SchemasOf(file), NEW t \in References(s) PROVE Before(list, t, s)
      <4>1. PICK i \in 1 .. Len(list) : list[i] = s
            BY <2>2, <3>1, SetOfSeq
      <4>2. s \in Schemas
            BY DEF SchemasOf
      <4>3. PICK j \in 1 .. i - 1 : list[j] = t
            BY <3>1, <4>1, <4>2 DEF Sorted
      <4>4. j \in 1 .. Len(list) /\ j < i
            BY <2>2
      <4>5. QED
            BY <4>1, <4>3, <4>4 DEF Before
    <3>4. QED
          BY <3>1, <3>2, <3>3
  <2>5. QED
        BY <2>1, <2>2, <2>3, <2>4 DEF Distinct
<1>2. QED
      BY <1>1, LoadCorrect, PTL

\* A concrete schema is registered after those of its file it refers to, whatever the
\* files declare and however often they fail and are loaded again; after its parent
\* from any file, unless LoadSchemasFromFiles fails.
THEOREM OrderCorrect == Spec => []OrderFitsTables
<1>1. ASSUME LoadInv PROVE OrderFitsTables
  <2>1. \A s \in Registered : ~decl[s].abstract => \A t \in References(s) : Before(schemaOrder, t, s)
        BY <1>1 DEF LoadInv, TablesOK
  <2>2. ASSUME ~ordered, result # "error" PROVE ParentsFirst
    <3>1. \A s \in Registered : ~decl[s].abstract => s \in complete
          BY <1>1, <2>2 DEF LoadInv, FilesOK
    <3>2. QED
          BY <1>1, <3>1 DEF LoadInv, TablesOK, ParentsFirst
  <2>3. QED
        BY <2>1, <2>2 DEF OrderFitsTables
<1>2. QED
      BY <1>1, LoadCorrect, PTL

\* A load that succeeds has registered everything but the concrete schemas of a file with
\* a circle; LoadSchemasFromFiles has found the parents, too.
THEOREM LoadedCorrect == Spec => []LoadedIsComplete
<1>1. ASSUME LoadInv PROVE LoadedIsComplete
  <2> SUFFICES ASSUME result = "ok", NEW s \in Schemas, ~Cyclic(decl[s].file) \/ decl[s].abstract
               PROVE  s \in Registered /\ (~ordered /\ ~decl[s].abstract => s \in complete)
      BY DEF LoadedIsComplete
  <2>1. decl[s].file \in Files
        BY <1>1 DEF LoadInv, TypeOK, Declaration
  <2>2. Loaded(decl[s].file)
        BY <1>1, <2>1, SetOfEmpty DEF LoadInv, FilesOK
  <2>3. s \in Registered
        BY <2>2 DEF Loaded, SchemasOf
  <2>4. QED
        BY <1>1, <2>3 DEF LoadInv, FilesOK
<1>2. QED
      BY <1>1, LoadCorrect, PTL

-----------------------------------------------------------------------------
(* OrderedLoadSchemasFromFiles finds an order *)

\* Whether the files can be loaded level by level is read off the declarations.
LEMMA NestedSame ==
  ASSUME decl' = decl, NEW level, Nested(level)'
  PROVE  Nested(level)
<1>1. /\ \A s : Bases(s)' = Bases(s) /\ Parents(s)' = Parents(s)
      /\ \A file : SchemasOf(file)' = SchemasOf(file) /\ (Cyclic(file)' <=> Cyclic(file))
      BY DeclSame
<1>2. \A files : SchemasFrom(files)' = SchemasFrom(files)
      BY <1>1 DEF SchemasFrom
<1>3. \A file, files : LoadsAfter(file, files)' => LoadsAfter(file, files)
      BY <1>1, <1>2 DEF LoadsAfter
<1>4. QED
      BY <1>3 DEF Nested

\* The level a pass loads, at the latest.
LEMMA PassLevel ==
  ASSUME TypeOK, NEW level \in [Files -> 1 .. MaxDepth]
  PROVE  /\ passes \in Nat /\ passes >= 1 /\ MaxDepth \in Nat /\ passes <= MaxDepth
         /\ \A file \in Files : level[file] \in Nat /\ level[file] >= 1 /\ level[file] <= MaxDepth
BY SchemaConstants DEF TypeOK

\* When a file of that level is loaded, all schemas of the lower levels are registered.
LEMMA LowerRegistered ==
  ASSUME LoadInv, NEW level \in [Files -> 1 .. MaxDepth], LevelOK(level),
         NEW file \in Files, level[file] = MaxDepth - passes + 1
  PROVE  SchemasFrom({f \in Files : level[f] < level[file]}) \subseteq Registered
<1> SUFFICES ASSUME NEW s \in Schemas, decl[s].file \in Files, level[decl[s].file] < level[file],
                    decl[s].abstract \/ ~Cyclic(decl[s].file)
             PROVE  s \in Registered
    BY DEF SchemasFrom
<1> DEFINE f == decl[s].file
<1>1. f \notin ToSet(todo) /\ f \notin ToSet(rest)
  <2>1. /\ passes \in Nat /\ MaxDepth \in Nat /\ level[f] \in Nat
        BY PassLevel DEF LoadInv
  <2>2. ~(level[f] > MaxDepth - passes) /\ ~(level[f] > MaxDepth - passes + 1)
        BY <2>1
  <2>3. QED
        BY <2>2 DEF LevelOK
<1>2. Loaded(f)
      BY <1>1 DEF LoadInv, FilesOK
<1>3. QED
      BY <1>2 DEF Loaded, SchemasOf

\* Such a file does not fail in its first loop.
LEMMA NoBaseError ==
  ASSUME LoadInv, NEW level \in [Files -> 1 .. MaxDepth], LevelOK(level), Nested(level),
         level[File] = MaxDepth - passes + 1, NEW s \in Schemas, ToPrepare(s), ~decl[s].abstract
  PROVE  ~BaseError(s)
<1> SUFFICES ASSUME NEW b \in Bases(s) PROVE b \in Registered /\ decl[b].abstract
    BY DEF BaseError
<1> DEFINE lower == {f \in Files : level[f] < level[File]}
<1>1. File \in Files
      BY SetOfTail DEF LoadInv, TypeOK, PlaceOK, File, ToPrepare
<1>2. SchemasFrom(lower) \subseteq Registered
      BY <1>1, LowerRegistered
<1>3. s \in SchemasOf(File) /\ \A t \in SchemasOf(File) \ prepared : s <= t
      BY DEF ToPrepare
<1>4. LoadsAfter(File, lower)
      BY <1>1 DEF Nested
<1>5. decl[b].abstract /\ (b \in SchemasFrom(lower) \/ (b \in SchemasOf(File) /\ b < s))
      BY <1>3, <1>4 DEF LoadsAfter
<1>6. ASSUME b \in SchemasOf(File), b < s PROVE b \in Registered
  <2>1. b \in Nat /\ s \in Nat
        BY <1>6, SchemaConstants DEF SchemasOf
  <2>2. b \in prepared
        BY <1>3, <1>6, <2>1
  <2>3. QED
        BY <1>5, <2>2 DEF LoadInv, LoopsOK
<1>7. QED
      BY <1>2, <1>5, <1>6

\* Nor in its second.
LEMMA NoRegisterError ==
  ASSUME LoadInv, NEW level \in [Files -> 1 .. MaxDepth], LevelOK(level), Nested(level),
         level[File] = MaxDepth - passes + 1, at = "register", registered < Len(list),
         NEW s, s = list[registered + 1], ~decl[s].abstract
  PROVE  ~RegisterError(s)
<1> DEFINE lower == {f \in Files : level[f] < level[File]}
<1>1. PICK file \in Files : file = File /\ Search(file)
      BY SearchFile
<1>2. SchemasFrom(lower) \subseteq Registered
      BY <1>1, LowerRegistered
<1>3. s \in Schemas /\ s \in SchemasOf(file) /\ References(s) \subseteq Registered
      BY <1>1, NextOfList
<1>4. ~Cyclic(file)
  <2>1. list \in Seq(Schemas) /\ registered \in Nat /\ circle \in BOOLEAN
        BY DEF LoadInv, TypeOK
  <2>2. list # <<>>
        BY <2>1
  <2>3. ~circle
        BY <2>2 DEF LoadInv, PlaceOK
  <2>4. QED
        BY <1>1, <2>1, <2>3, SortedNoCircle DEF Search
<1>5. Parents(s) \subseteq SchemasFrom(lower) \cup SchemasOf(file)
      BY <1>1, <1>3, <1>4 DEF Nested, LoadsAfter
<1>6. decl[s].file = file
      BY <1>3 DEF SchemasOf
<1>7. Parents(s) \cap SchemasOf(file) \subseteq Registered
      BY <1>3, <1>6, ReferencesType
<1>8. QED
      BY <1>2, <1>5, <1>7 DEF RegisterError, ParentFound

\* A file that fails belongs to a higher level, and there is a pass left for it.
LEMMA ErrorLevel ==
  ASSUME TypeOK, NEW level \in [Files -> 1 .. MaxDepth], LevelOK(level), todo # <<>>, Return(TRUE),
         passes' = passes, level[File] # MaxDepth - passes + 1
  PROVE  LevelOK(level)'
<1>1. /\ todo' = Tail(todo) /\ rest' = Append(rest, File)
      /\ result' = IF passes = 1 THEN "error" ELSE "none"
      BY DEF Return, LastPass, File
<1>2. todo \in Seq(Files) /\ rest \in Seq(Files)
      BY DEF TypeOK
<1>3. File \in Files /\ ToSet(todo) = {File} \cup ToSet(todo')
      BY <1>1, <1>2, SetOfTail DEF File
<1>4. ToSet(rest') = ToSet(rest) \cup {File}
      BY <1>1, <1>2, <1>3, SetOfAppend
<1>5. /\ passes \in Nat /\ passes >= 1 /\ MaxDepth \in Nat
      /\ level[File] \in Nat /\ level[File] <= MaxDepth
      BY <1>3, PassLevel
<1>6. level[File] > MaxDepth - passes
      BY <1>3 DEF LevelOK
<1>7. level[File] > MaxDepth - passes + 1
      BY <1>5, <1>6
<1>8. result' # "error"
      BY <1>1, <1>5, <1>7
<1>9. QED
      BY <1>3, <1>4, <1>7, <1>8 DEF LevelOK

\* The files of a pass become fewer, and none fails.
LEMMA SameLevel ==
  ASSUME NEW level, LevelOK(level), ToSet(todo') \subseteq ToSet(todo), rest' = rest,
         result' # "error", passes' = passes
  PROVE  LevelOK(level)'
BY DEF LevelOK

\* Every step keeps the levels.
LEMMA LevelStep ==
  ASSUME LoadInv, [Next]_vars, ordered, NEW level \in [Files -> 1 .. MaxDepth], Nested(level), LevelOK(level)
  PROVE  LevelOK(level)'
<1>1. TypeOK /\ PlaceOK
      BY DEF LoadInv
<1>2. ASSUME UNCHANGED <<callerVars, passVars>> PROVE LevelOK(level)'
      BY <1>2, SameLevel DEF callerVars, passVars, LevelOK
<1>3. CASE LoadSchemaFromFile
      BY <1>2, <1>3 DEF LoadSchemaFromFile
<1>4. CASE NextPass
  <2>1. /\ todo' = rest /\ rest' = <<>>
        /\ IF rest = <<>> THEN result' = "ok" /\ passes' = passes ELSE result' = "none" /\ passes' = passes - 1
        BY <1>4 DEF NextPass
  <2>2. ToSet(rest') = {} /\ (rest = <<>> => ToSet(todo') = {}) /\ result' # "error"
        BY <2>1, SetOfEmpty
  <2>3. rest # <<>> => MaxDepth - passes' = MaxDepth - passes + 1
        BY <1>1, <2>1, PassLevel
  <2>4. QED
        BY <2>1, <2>2, <2>3 DEF LevelOK
<1>5. ASSUME NEW s \in Schemas, PrepareAbstract(s) PROVE LevelOK(level)'
      BY <1>2, <1>5 DEF PrepareAbstract
<1>6. ASSUME NEW s \in Schemas, PrepareConcrete(s) PROVE LevelOK(level)'
  <2>1. ToPrepare(s) /\ ~decl[s].abstract /\ UNCHANGED callerVars
        BY <1>6 DEF PrepareConcrete
  <2>2. CASE BaseError(s)
    <3>1. level[File] # MaxDepth - passes + 1
          BY <2>1, <2>2, NoBaseError
    <3>2. Return(TRUE) /\ todo # <<>> /\ passes' = passes
          BY <1>1, <1>6, <2>1, <2>2 DEF PrepareConcrete, ToPrepare, PlaceOK, callerVars
    <3>3. QED
          BY <1>1, <3>1, <3>2, ErrorLevel
  <2>3. CASE ~BaseError(s)
        BY <1>2, <1>6, <2>1, <2>3 DEF PrepareConcrete
  <2>4. QED
        BY <2>2, <2>3
<1>7. CASE Prepared
      BY <1>2, <1>7 DEF Prepared
<1>8. ASSUME NEW s \in Schemas, StartVisit(s) PROVE LevelOK(level)'
      BY <1>2, <1>8 DEF StartVisit
<1>9. ASSUME NEW s \in Schemas, VisitRelated(s) PROVE LevelOK(level)'
      BY <1>2, <1>9 DEF VisitRelated
<1>10. CASE EndVisit
      BY <1>2, <1>10 DEF EndVisit
<1>11. CASE Reordered
      BY <1>2, <1>11 DEF Reordered
<1>12. CASE RegisterNext
  <2> DEFINE s == list[registered + 1]
  <2>1. /\ at = "register" /\ registered < Len(list) /\ UNCHANGED callerVars
        /\ IF ~decl[s].abstract /\ RegisterError(s)
           THEN Return(TRUE)
           ELSE UNCHANGED passVars
        BY <1>12 DEF RegisterNext
  <2>2. CASE ~decl[s].abstract /\ RegisterError(s)
    <3>1. level[File] # MaxDepth - passes + 1
          BY <2>1, <2>2, NoRegisterError
    <3>2. Return(TRUE) /\ todo # <<>> /\ passes' = passes
          BY <1>1, <2>1, <2>2 DEF PlaceOK, callerVars
    <3>3. QED
          BY <1>1, <3>1, <3>2, ErrorLevel
  <2>3. CASE ~(~decl[s].abstract /\ RegisterError(s))
        BY <1>2, <2>1, <2>3
  <2>4. QED
        BY <2>2, <2>3
<1>13. CASE RegisterDone
  <2>1. /\ todo' = Tail(todo) /\ rest' = rest /\ result' = "none" /\ passes' = passes
        /\ todo \in Seq(Files) /\ todo # <<>>
        BY <1>1, <1>13 DEF RegisterDone, Return, callerVars, TypeOK, PlaceOK
  <2>2. ToSet(todo') \subseteq ToSet(todo)
        BY <2>1, SetOfTail
  <2>3. QED
        BY <2>1, <2>2, SameLevel
<1>14. CASE UNCHANGED vars
      BY <1>2, <1>14 DEF vars
<1>15. QED
      BY <1>3, <1>4, <1>5, <1>6, <1>7, <1>8, <1>9, <1>10, <1>11, <1>12, <1>13, <1>14 DEF Next

\* OrderedLoadSchemasFromFiles succeeds whenever the files can be loaded in MaxDepth
\* levels, for any files in any order and any MaxDepth.
THEOREM OrderedLoadCorrect == Spec => []OrderedLoadFindsOrder
<1>1. Init => LevelsOK
  <2> SUFFICES ASSUME Init, ordered, NEW level \in [Files -> 1 .. MaxDepth] PROVE LevelOK(level)
      BY DEF LevelsOK
  <2>1. passes = MaxDepth /\ MaxDepth - MaxDepth = 0 /\ \A file \in Files : level[file] > 0
        BY SchemaConstants DEF Init
  <2>2. ToSet(rest) = {} /\ result # "error"
        BY SetOfEmpty DEF Init
  <2>3. QED
        BY <2>1, <2>2 DEF LevelOK
<1>2. LoadInv /\ LevelsOK /\ [Next]_vars => LevelsOK'
  <2> SUFFICES ASSUME LoadInv, LevelsOK, [Next]_vars, ordered',
                      NEW level \in [Files -> 1 .. MaxDepth], Nested(level)'
               PROVE  LevelOK(level)'
      BY DEF LevelsOK
  <2>1. decl' = decl /\ ordered' = ordered
    <3>1. ASSUME UNCHANGED callerVars PROVE decl' = decl /\ ordered' = ordered
          BY <3>1 DEF callerVars
    <3>2. QED
          BY <3>1 DEF Next, vars, LoadSchemaFromFile, NextPass, PrepareAbstract, PrepareConcrete, Prepared,
                      StartVisit, VisitRelated, EndVisit, Reordered, RegisterNext, RegisterDone
  <2>2. Nested(level)
        BY <2>1, NestedSame
  <2>3. QED
        BY <2>1, <2>2, LevelStep DEF LevelsOK
<1>3. LevelsOK => OrderedLoadFindsOrder
      BY DEF LevelsOK, LevelOK, OrderedLoadFindsOrder
<1>4. QED
      BY <1>1, <1>2, <1>3, LoadCorrect, PTL DEF Spec
=============================================================================
