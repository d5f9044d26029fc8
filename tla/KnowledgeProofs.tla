-------------------------- MODULE KnowledgeProofs --------------------------
(***************************************************************************)
(* Theorems about Knowledge for any files and edits of them, any providers *)
(* and any number of scripts beside the server: whose text a vector is of, *)
(* which vectors are kept, what a serving server has indexed, that no      *)
(* draft a rule is similar to is passed, and that the stages are the same  *)
(* with the database and without it.                                       *)
(*                                                                         *)
(* What carries them is the list a process made of the cases without a     *)
(* vector: as long as no other import was committed it has every such case *)
(* with the text the case still has.                                       *)
(***************************************************************************)
EXTENDS Knowledge, FiniteSetTheorems, WellFoundedInduction, TLAPS

Vector == [Columns -> Texts \cup {NoText}]

-----------------------------------------------------------------------------
(* Orders, providers and rows.                                             *)

LEMMA Least ==
  ASSUME NEW T, T \subseteq Nat, T # {}
  PROVE  \E x \in T : \A y \in T : x <= y
<1>1. \E x \in T : \A y \in T : ~ (<<y, x>> \in OpToRel(<, Nat))
  BY NatLessThanWellFounded, WFMin
<1>2. \A x, y \in Nat : <<y, x>> \in OpToRel(<, Nat) <=> y < x
  BY DEF OpToRel
<1>3. PICK x \in T : \A y \in T : ~ (<<y, x>> \in OpToRel(<, Nat))
  BY <1>1
<1>4. \A y \in T : y \in Nat /\ x \in Nat
  OBVIOUS
<1>5. \A y \in T : ~(y < x)
  BY <1>2, <1>3, <1>4
<1>6. \A y \in T : x <= y
  BY <1>4, <1>5
<1> QED BY <1>6

\* R orders S, and tells any two of its elements apart.
StrictOrder(S, R) ==
  /\ \A s \in S : <<s, s>> \notin R
  /\ \A s, t, u \in S : <<s, t>> \in R /\ <<t, u>> \in R => <<s, u>> \in R
  /\ \A s, t \in S : s = t \/ <<s, t>> \in R \/ <<t, s>> \in R

\* A finite set in a strict order is listed once, and in that order: as many
\* elements as places, and no two with as many before them.
LEMMA RankedLists ==
  ASSUME NEW S, IsFiniteSet(S), NEW R, StrictOrder(S, R)
  PROVE  /\ Cardinality(S) \in Nat
         /\ Ranked(S, R) \in [1..Cardinality(S) -> S]
         /\ \A s \in S : \E n \in 1..Cardinality(S) : Ranked(S, R)[n] = s
         /\ \A m, n \in 1..Cardinality(S) :
              m < n <=> <<Ranked(S, R)[m], Ranked(S, R)[n]>> \in R
<1> DEFINE Below(s) == {t \in S : <<t, s>> \in R}
           place == [s \in S |-> Cardinality(Below(s)) + 1]
           N == Cardinality(S)
<1>1. N \in Nat
  BY FS_CardinalityType
<1>2. ASSUME NEW s \in S PROVE IsFiniteSet(Below(s)) /\ Cardinality(Below(s)) \in 0..(N - 1)
  <2>1. Below(s) \in SUBSET S /\ Below(s) # S
    BY DEF StrictOrder
  <2>2. IsFiniteSet(Below(s)) /\ Cardinality(Below(s)) <= N /\ Cardinality(Below(s)) # N
    BY <2>1, FS_Subset
  <2>3. Cardinality(Below(s)) \in Nat
    BY <2>2, FS_CardinalityType
  <2> QED BY <1>1, <2>2, <2>3
<1>3. ASSUME NEW s \in S, NEW t \in S, <<s, t>> \in R PROVE place[s] < place[t]
  <2>1. Below(s) \in SUBSET Below(t) /\ Below(s) # Below(t)
    BY <1>3 DEF StrictOrder
  <2>2. Cardinality(Below(s)) <= Cardinality(Below(t)) /\ Cardinality(Below(s)) # Cardinality(Below(t))
    BY <1>2, <2>1, FS_Subset
  <2>3. place[s] = Cardinality(Below(s)) + 1 /\ place[t] = Cardinality(Below(t)) + 1
    OBVIOUS
  <2> HIDE DEF Below, place
  <2> QED BY <1>2, <2>2, <2>3
<1>4. \A s \in S : place[s] \in 1..N
  <2> SUFFICES ASSUME NEW s \in S PROVE place[s] \in 1..N
    OBVIOUS
  <2>1. place[s] = Cardinality(Below(s)) + 1
    OBVIOUS
  <2> HIDE DEF Below, place
  <2> QED BY <1>1, <1>2, <2>1
<1>5. place \in [S -> 1..N]
  BY <1>4
<1> HIDE DEF place
<1>6. ASSUME NEW s \in S, NEW t \in S, place[s] = place[t] PROVE s = t
  <2>1. place[s] \in Nat /\ place[t] \in Nat
    BY <1>1, <1>4
  <2>2. <<s, t>> \notin R /\ <<t, s>> \notin R
    BY <1>3, <1>6, <2>1
  <2> QED BY <2>2 DEF StrictOrder
<1>7. place \in Injection(S, 1..N)
  BY <1>5, <1>6 DEF Injection, IsInjective
<1>8. IsFiniteSet(1..N) /\ Cardinality(1..N) = N
  BY <1>1, FS_Interval
<1>9. place \in Surjection(S, 1..N)
  BY <1>7, <1>8, FS_Injection
<1>10. \A n \in 1..N : \E s \in S : place[s] = n
  BY <1>9 DEF Surjection
<1>11. ASSUME NEW n \in 1..N PROVE Ranked(S, R)[n] \in S /\ place[Ranked(S, R)[n]] = n
  <2>1. \A s \in S : place[s] = n <=> Cardinality({t \in S : <<t, s>> \in R}) = n - 1
    <3> SUFFICES ASSUME NEW s \in S
                 PROVE  place[s] = n <=> Cardinality(Below(s)) = n - 1
      OBVIOUS
    <3>1. place[s] = Cardinality(Below(s)) + 1
      BY DEF place
    <3> HIDE DEF Below
    <3> QED BY <1>1, <1>2, <3>1
  <2>2. Ranked(S, R)[n] = CHOOSE s \in S : Cardinality({t \in S : <<t, s>> \in R}) = n - 1
    BY DEF Ranked
  <2> QED BY <1>10, <2>1, <2>2
<1>12. Ranked(S, R) \in [1..N -> S]
  <2> DEFINE at(n) == CHOOSE s \in S : Cardinality({t \in S : <<t, s>> \in R}) = n - 1
  <2>1. Ranked(S, R) = [n \in 1..N |-> at(n)]
    BY DEF Ranked
  <2> HIDE DEF at
  <2> QED BY <1>11, <2>1
<1>13. \A s \in S : Ranked(S, R)[place[s]] = s
  BY <1>4, <1>6, <1>11
<1>14. \A m, n \in 1..N : m < n <=> <<Ranked(S, R)[m], Ranked(S, R)[n]>> \in R
  <2> SUFFICES ASSUME NEW m \in 1..N, NEW n \in 1..N
               PROVE  m < n <=> <<Ranked(S, R)[m], Ranked(S, R)[n]>> \in R
    OBVIOUS
  <2> DEFINE a == Ranked(S, R)[m]
             b == Ranked(S, R)[n]
  <2>1. a \in S /\ b \in S /\ place[a] = m /\ place[b] = n
    BY <1>11
  <2> HIDE DEF a, b
  <2>2. <<a, b>> \in R => m < n
    BY <1>3, <2>1
  <2>3. <<b, a>> \in R => n < m
    BY <1>3, <2>1
  <2>4. a = b \/ <<a, b>> \in R \/ <<b, a>> \in R
    BY <2>1 DEF StrictOrder
  <2>5. m < n <=> <<a, b>> \in R
    BY <1>1, <2>1, <2>2, <2>3, <2>4
  <2> QED BY <2>5 DEF a, b
<1> QED BY <1>1, <1>4, <1>12, <1>13, <1>14

\* The provider that answers is one of those that are up.
LEMMA AnsweringIsUp ==
  ASSUME NEW up \in Answers, up # {}
  PROVE  Answering(up) \in up /\ Answering(up) \in Columns
<1> DEFINE T == {i \in DOMAIN Providers : Providers[i] \in up}
<1>1. up \subseteq Columns
  BY DEF Answers
<1>2. T \subseteq Nat
  BY ProvidersAssumption
<1>3. T # {}
  BY <1>1 DEF Columns, Range
<1>4. \E i \in DOMAIN Providers :
        Providers[i] \in up /\ \A j \in DOMAIN Providers : Providers[j] \in up => i <= j
  BY <1>2, <1>3, Least
<1>5. Providers[FirstAnswer(up)] \in up
  BY <1>4 DEF FirstAnswer
<1> QED BY <1>1, <1>5 DEF Answering

LEMMA NoVectorsType == NoVectors \in Vector
BY DEF NoVectors, Vector

\* What an import reads is a readable file, or none.
ReadableFiles(f) == \A k \in Kinds, t \in Tables : Readable(t, f[k][t])

LEMMA SourceReadable ==
  ASSUME NEW f, ReadableFiles(f), NEW t \in Tables, NEW only
  PROVE  KindOf(f, t, only) \in Kinds /\ Readable(t, Source(f, t, only))
<1>1. KindOf(f, t, only) \in Kinds
  BY DEF KindOf, Kinds
<1> QED BY <1>1 DEF Source, ReadableFiles

LEMMA ReusedType ==
  ASSUME NEW old, Stored(old), NEW id, NEW text
  PROVE  Reused(old, id, text) \in Vector
BY NoVectorsType DEF Reused, Stored, Case, Vector

\* The cases after an import: each has the text of a line of the file, and the
\* vectors that are reused.
LEMMA ReplacedCases ==
  ASSUME NEW old, Stored(old), NEW k \in Kinds, NEW rows \in Seq(CaseRow), ~BadCases(rows)
  PROVE  LET R == ReplaceSalesCases(old, k, rows)
         IN Stored(R) /\ \A id \in DOMAIN R : R[id].vector = Reused(old, id, R[id].text)
<1> DEFINE Ids == {<<k, rows[i].case>> : i \in DOMAIN rows}
           textOf == [id \in Ids |->
                        rows[CHOOSE i \in DOMAIN rows : rows[i].case = id[2]].text]
           R == [id \in DOMAIN textOf |->
                   [text |-> textOf[id], vector |-> Reused(old, id, textOf[id])]]
<1>1. ReplaceSalesCases(old, k, rows) = R
  BY DEF ReplaceSalesCases
<1>2. \A i \in DOMAIN rows : rows[i] \in CaseRow
  OBVIOUS
<1>3. \A i \in DOMAIN rows : rows[i].case \in Nat /\ rows[i].text \in Texts
  BY <1>2 DEF BadCases, CaseRow
<1>4. Ids \subseteq Kinds \X Nat
  BY <1>3
<1>5. \A id \in Ids : textOf[id] \in Texts
  <2>1. ASSUME NEW i \in DOMAIN rows
        PROVE  textOf[<<k, rows[i].case>>] \in Texts
    <3> DEFINE id == <<k, rows[i].case>>
    <3>1. \E j \in DOMAIN rows : rows[j].case = id[2]
      OBVIOUS
    <3>2. (CHOOSE j \in DOMAIN rows : rows[j].case = id[2]) \in DOMAIN rows
      BY <3>1
    <3>3. textOf[id] = rows[CHOOSE j \in DOMAIN rows : rows[j].case = id[2]].text
      OBVIOUS
    <3> QED BY <1>3, <3>2, <3>3
  <2> QED BY <2>1
<1>6. DOMAIN R = Ids
  OBVIOUS
<1> HIDE DEF textOf, Ids
<1>7. \A id \in Ids : /\ R[id].text = textOf[id]
                      /\ R[id].vector = Reused(old, id, textOf[id])
                      /\ R[id] \in Case
  BY <1>5, <1>6, ReusedType DEF Case, Vector
<1>8. R \in [DOMAIN R -> Case]
  BY <1>6, <1>7
<1> HIDE DEF R
<1> QED BY <1>1, <1>4, <1>6, <1>7, <1>8 DEF Stored

LEMMA ReplacedRules ==
  ASSUME TypeOK, NEW rows \in Seq(Texts)
  PROVE  ReplaceSafetyRules(rows) \in Seq(Case)
<1>1. CASE rows = <<>>
  BY <1>1 DEF ReplaceSafetyRules, TypeOK
<1>2. CASE rows # <<>>
  <2> DEFINE v(i) == IF i \in DOMAIN rules THEN rules[i].vector ELSE NoVectors
             R == [i \in 1 .. Len(rows) |-> [text |-> rows[i], vector |-> v(i)]]
  <2>1. ReplaceSafetyRules(rows) = R
    BY <1>2 DEF ReplaceSafetyRules
  <2>2. \A i \in DOMAIN rules : rules[i] \in Case
    <3>1. rules \in Seq(Case)
      BY DEF TypeOK
    <3> QED BY <3>1
  <2>3. \A i : v(i) \in Vector
    BY <2>2, NoVectorsType DEF Case, Vector
  <2> HIDE DEF v
  <2>4. \A i \in 1 .. Len(rows) : rows[i] \in Texts
    OBVIOUS
  <2>5. \A i \in 1 .. Len(rows) : [text |-> rows[i], vector |-> v(i)] \in Case
    BY <2>3, <2>4 DEF Case, Vector
  <2>6. Len(rows) \in Nat
    OBVIOUS
  <2> QED BY <2>1, <2>5, <2>6
<1> QED BY <1>1, <1>2

\* An import that is not refused leaves well-typed tables.
LEMMA ReplacedTables ==
  ASSUME TypeOK, NEW f, ReadableFiles(f), NEW old, Stored(old), NEW only,
         ReplaceTables(f, old, only), ~Raises(f, only)
  PROVE  /\ rules' \in Seq(Case) /\ Stored(cases')
         /\ cases' # cases => \A id \in DOMAIN cases' :
              cases'[id].vector = Reused(old, id, cases'[id].text)
<1>1. rules' \in Seq(Case)
  <2>1. CASE Source(f, "safety_rules", only) = NoFile
    BY <2>1 DEF ReplaceTables, TypeOK
  <2>2. CASE Source(f, "safety_rules", only) # NoFile
    <3>1. Source(f, "safety_rules", only) \in Seq(Texts)
      BY <2>2, SourceReadable DEF Readable, Tables
    <3> QED BY <2>2, <3>1, ReplacedRules DEF ReplaceTables
  <2> QED BY <2>1, <2>2
<1>2. CASE Source(f, "sales_cases", only) = NoFile
  BY <1>1, <1>2 DEF ReplaceTables, TypeOK
<1>3. CASE Source(f, "sales_cases", only) # NoFile
  <2>1. /\ Source(f, "sales_cases", only) \in Seq(CaseRow)
        /\ KindOf(f, "sales_cases", only) \in Kinds
    BY <1>3, SourceReadable DEF Readable, Tables
  <2>2. ~BadCases(Source(f, "sales_cases", only))
    BY <1>3 DEF Raises
  <2>3. cases' = ReplaceSalesCases(old, KindOf(f, "sales_cases", only),
                                   Source(f, "sales_cases", only))
    BY <1>3 DEF ReplaceTables
  <2> QED BY <1>1, <2>1, <2>2, <2>3, ReplacedCases
<1> QED BY <1>2, <1>3

-----------------------------------------------------------------------------
(* Types.                                                                  *)

Phases == {"down", "import", "replace", "list", "index", "up"}
Jobs == {"auto", "seed", "none"}
Todo == [id : Kinds \X Nat, text : Texts]
Vectors == [id : Kinds \X Nat, text : Texts, column : Columns]

\* What holds of one process.
ProcessType(p) ==
  /\ \A r \in reading[p] : /\ phase[p] = "replace" /\ Stored(r.cases)
                           /\ ~Raises(r.files, Only(p)) /\ ReadableFiles(r.files)
  /\ todo[p] # {} \/ writing[p] # {} => phase[p] = "index"
ProcessTypes ==
  /\ phase \in [Processes -> Phases] /\ job \in [Processes -> Jobs]
  /\ seeds \in [Processes -> BOOLEAN]
  /\ reading = [p \in Processes |-> reading[p]]
  /\ todo \in [Processes -> SUBSET Todo] /\ writing \in [Processes -> SUBSET Vectors]
  /\ \A p \in Processes : ProcessType(p)
DatabaseTypes == rules \in Seq(Case) /\ Stored(cases)
QueryRow == [kind : {"none", "review", "retrieve", "pass", "revise", "error", "cases", "no cases"},
             text : Texts \cup {NoText}]
QueryTypes ==
  /\ query \in [Turns -> QueryRow]
  /\ \A r \in Turns : query[r].kind \in {"review", "retrieve"} => phase[Server] = "up"

LEMMA TypeParts ==
  ASSUME TypeOK, ProcessTypes', DatabaseTypes', QueryTypes', files' = files,
         disturbed' \in [Processes -> BOOLEAN], overrun' \in BOOLEAN,
         {edits, starts, queries}' \subseteq Nat
  PROVE  TypeOK'
<1>1. /\ files' = [k \in Kinds |-> [t \in Tables |-> files'[k][t]]]
      /\ \A k \in Kinds, t \in Tables : Readable(t, files'[k][t])
  <2>1. /\ files = [k \in Kinds |-> [t \in Tables |-> files[k][t]]]
        /\ \A k \in Kinds, t \in Tables : Readable(t, files[k][t])
    BY DEF TypeOK
  <2> QED BY <2>1
<1>2. /\ phase' \in [Processes -> {"down", "import", "replace", "list", "index", "up"}]
      /\ job' \in [Processes -> {"auto", "seed", "none"}] /\ seeds' \in [Processes -> BOOLEAN]
      /\ reading' = [p \in Processes |-> reading'[p]]
      /\ todo' \in [Processes -> SUBSET [id : Kinds \X Nat, text : Texts]]
      /\ writing' \in [Processes -> SUBSET [id : Kinds \X Nat, text : Texts, column : Columns]]
  BY DEF ProcessTypes, Phases, Jobs, Todo, Vectors
<1>3. /\ \A p \in Processes : todo'[p] # {} \/ writing'[p] # {} => phase'[p] = "index"
      /\ \A p \in Processes : \A r \in reading'[p] :
           /\ phase'[p] = "replace" /\ Stored(r.cases) /\ ~Raises(r.files, Only(p))'
           /\ \A k \in Kinds, t \in Tables : Readable(t, r.files[k][t])
  <2>1. ASSUME NEW p \in Processes, NEW r \in reading'[p]
        PROVE  /\ phase'[p] = "replace" /\ Stored(r.cases) /\ ~Raises(r.files, Only(p))'
               /\ \A k \in Kinds, t \in Tables : Readable(t, r.files[k][t])
    BY <2>1 DEF ProcessTypes, ProcessType, ReadableFiles
  <2>2. \A p \in Processes : todo'[p] # {} \/ writing'[p] # {} => phase'[p] = "index"
    BY DEF ProcessTypes, ProcessType
  <2> QED BY <2>1, <2>2
<1>4. DatabaseTypes' /\ QueryTypes'
  OBVIOUS
<1> QED BY <1>1, <1>2, <1>3, <1>4 DEF TypeOK, DatabaseTypes, QueryTypes, QueryRow

LEMMA PartsHold == TypeOK => ProcessTypes /\ DatabaseTypes /\ QueryTypes
BY DEF TypeOK, ProcessTypes, ProcessType, DatabaseTypes, QueryTypes, QueryRow, ReadableFiles,
       Phases, Jobs, Todo, Vectors

LEMMA ServerIsProcess == Server \in Processes
BY DEF Processes

LEMMA InitType == Init => TypeOK
<1> SUFFICES ASSUME Init PROVE TypeOK
  OBVIOUS
<1>1. /\ files = [k \in Kinds |-> [t \in Tables |-> files[k][t]]]
      /\ \A k \in Kinds, t \in Tables : Readable(t, files[k][t])
  BY FilesAssumption DEF Init
<1>2. rules \in Seq(Case) /\ Stored(cases)
  BY DEF Init, Stored
<1>3. /\ phase \in [Processes -> {"down", "import", "replace", "list", "index", "up"}]
      /\ job \in [Processes -> {"auto", "seed", "none"}] /\ seeds \in [Processes -> BOOLEAN]
      /\ reading = [p \in Processes |-> reading[p]] /\ \A p \in Processes : reading[p] = {}
      /\ todo \in [Processes -> SUBSET [id : Kinds \X Nat, text : Texts]]
      /\ writing \in [Processes -> SUBSET [id : Kinds \X Nat, text : Texts, column : Columns]]
      /\ \A p \in Processes : todo[p] # {} \/ writing[p] # {} => phase[p] = "index"
      /\ disturbed \in [Processes -> BOOLEAN] /\ overrun \in BOOLEAN
  BY DEF Init
<1>4. /\ query \in [Turns -> [kind : {"none", "review", "retrieve", "pass", "revise", "error",
                                      "cases", "no cases"}, text : Texts \cup {NoText}]]
      /\ \A r \in Turns : query[r].kind \notin {"review", "retrieve"}
  BY DEF Init, NoQuery
<1>5. {edits, starts, queries} \subseteq Nat
  BY DEF Init
<1> QED BY <1>1, <1>2, <1>3, <1>4, <1>5 DEF TypeOK

\* A step of p leaves the other processes as they are.
Moves(p) ==
  /\ phase' = [phase EXCEPT ![p] = phase'[p]] /\ job' = [job EXCEPT ![p] = job'[p]]
  /\ seeds' = [seeds EXCEPT ![p] = seeds'[p]] /\ reading' = [reading EXCEPT ![p] = reading'[p]]
  /\ todo' = [todo EXCEPT ![p] = todo'[p]] /\ writing' = [writing EXCEPT ![p] = writing'[p]]

Works(p) == Step(p) \/ CommitFails(p) \/ IndexFails(p) \/ Start(p) \/ Stop(p)

LEMMA SameAt ==
  ASSUME TypeOK, NEW p \in Processes
  PROVE  /\ phase = [phase EXCEPT ![p] = phase[p]] /\ job = [job EXCEPT ![p] = job[p]]
         /\ seeds = [seeds EXCEPT ![p] = seeds[p]]
         /\ reading = [reading EXCEPT ![p] = reading[p]]
         /\ todo = [todo EXCEPT ![p] = todo[p]] /\ writing = [writing EXCEPT ![p] = writing[p]]
BY DEF TypeOK

\* What the end of an import, and a failure, make of the process.
LEMMA GoesOnMoves ==
  ASSUME TypeOK, NEW p \in Processes, NEW ended \in Jobs, GoesOn(p, ended)
  PROVE  /\ phase' = [phase EXCEPT ![p] = phase'[p]] /\ job' = [job EXCEPT ![p] = job'[p]]
         /\ phase'[p] \in {"import", "up", "down"} /\ job'[p] \in Jobs
         /\ phase'[p] = "up" => job'[p] = ended
<1>1. phase \in [Processes -> Phases] /\ job \in [Processes -> Jobs]
  BY PartsHold DEF ProcessTypes
<1> QED BY <1>1 DEF GoesOn, Jobs

LEMMA FailedMoves ==
  ASSUME TypeOK, NEW p \in Processes, Failed(p)
  PROVE  /\ phase' = [phase EXCEPT ![p] = phase'[p]] /\ job' = [job EXCEPT ![p] = job'[p]]
         /\ phase'[p] \in {"import", "up", "down"} /\ job'[p] \in Jobs
         /\ phase'[p] = "up" => job'[p] = "none"
         /\ seeds' = seeds
<1>1. CASE job[p] = "auto"
  BY <1>1, GoesOnMoves DEF Failed, Jobs
<1>2. CASE job[p] # "auto"
  <2>1. phase \in [Processes -> Phases] /\ job \in [Processes -> Jobs]
    BY PartsHold DEF ProcessTypes
  <2> QED BY <1>2, <2>1 DEF Failed
<1> QED BY <1>1, <1>2

LEMMA MovesTypes ==
  ASSUME TypeOK, NEW p \in Processes, Moves(p), phase'[p] \in Phases, job'[p] \in Jobs,
         seeds'[p] \in BOOLEAN, todo'[p] \in SUBSET Todo, writing'[p] \in SUBSET Vectors,
         ProcessType(p)'
  PROVE  /\ ProcessTypes'
         /\ \A q \in Processes \ {p} : /\ phase'[q] = phase[q] /\ job'[q] = job[q]
                                      /\ reading'[q] = reading[q]
                                      /\ todo'[q] = todo[q] /\ writing'[q] = writing[q]
<1>1. ProcessTypes
  BY PartsHold
<1>2. /\ phase' \in [Processes -> Phases] /\ job' \in [Processes -> Jobs]
      /\ seeds' \in [Processes -> BOOLEAN] /\ todo' \in [Processes -> SUBSET Todo]
      /\ writing' \in [Processes -> SUBSET Vectors]
  BY <1>1 DEF Moves, ProcessTypes
<1>3. reading' = [q \in Processes |-> reading'[q]]
  <2>1. reading = [q \in Processes |-> reading[q]]
    BY <1>1 DEF ProcessTypes
  <2> QED BY <2>1 DEF Moves
<1>4. ASSUME NEW q \in Processes \ {p}
      PROVE  /\ phase'[q] = phase[q] /\ job'[q] = job[q] /\ reading'[q] = reading[q]
             /\ todo'[q] = todo[q] /\ writing'[q] = writing[q]
  <2>1. reading'[q] = reading[q]
    <3>1. reading = [o \in Processes |-> reading[o]]
      BY <1>1 DEF ProcessTypes
    <3> QED BY <3>1 DEF Moves
  <2> QED BY <1>1, <2>1 DEF Moves, ProcessTypes
<1>5. ASSUME NEW q \in Processes PROVE ProcessType(q)'
  <2>1. CASE q # p
    <3>1. ProcessType(q)
      BY <1>1 DEF ProcessTypes
    <3> QED BY <1>4, <2>1, <3>1 DEF ProcessType, Only
  <2> QED BY <2>1
<1> QED BY <1>2, <1>3, <1>4, <1>5 DEF ProcessTypes

\* Searches are not disturbed by a process that does not serve before its step,
\* or goes on doing so.
LEMMA QueriesKept ==
  ASSUME TypeOK, NEW p \in Processes, query' = query,
         \A q \in Processes \ {p} : phase'[q] = phase[q],
         phase[p] # "up" \/ phase'[p] = phase[p]
  PROVE  QueryTypes'
BY PartsHold, ServerIsProcess DEF QueryTypes

\* An import reads its files, or refuses one of them.
LEMMA ReadType ==
  ASSUME TypeOK, NEW p \in Processes, Read(p)
  PROVE  TypeOK' /\ Moves(p)
<1>1. /\ phase[p] = "import"
      /\ UNCHANGED <<files, sop, rules, cases, todo, writing, query, disturbed, overrun,
                     edits, starts, queries>>
  BY DEF Read, database, indexing, bounds
<1>2. /\ todo[p] = {} /\ writing[p] = {} /\ reading[p] = {} /\ seeds[p] \in BOOLEAN
      /\ job[p] \in Jobs
  BY <1>1, PartsHold DEF ProcessTypes, ProcessType
<1>3. CASE Raises(files, Only(p))
  <2>1. Failed(p) /\ reading' = reading
    BY <1>3 DEF Read
  <2>2. Moves(p) /\ phase'[p] \in Phases /\ job'[p] \in Jobs /\ seeds' = seeds
    BY <1>1, <2>1, FailedMoves, SameAt DEF Moves, Phases
  <2>3. ProcessType(p)'
    BY <1>1, <1>2, <2>1 DEF ProcessType
  <2>4. ProcessTypes' /\ \A q \in Processes \ {p} : phase'[q] = phase[q]
    BY <1>1, <1>2, <2>2, <2>3, MovesTypes
  <2> QED BY <1>1, <2>2, <2>4, QueriesKept, PartsHold, TypeParts DEF TypeOK, DatabaseTypes
<1>4. CASE ~Raises(files, Only(p))
  <2>1. /\ phase' = [phase EXCEPT ![p] = "replace"] /\ job' = job /\ seeds' = seeds
        /\ reading' = [reading EXCEPT ![p] = {[files |-> files, cases |-> cases]}]
    BY <1>4 DEF Read, start
  <2>2. phase'[p] = "replace" /\ reading'[p] = {[files |-> files, cases |-> cases]}
    <3>1. phase \in [Processes -> Phases] /\ reading = [q \in Processes |-> reading[q]]
      BY PartsHold DEF ProcessTypes
    <3> QED BY <2>1, <3>1
  <2>3. Moves(p)
    BY <1>1, <2>1, <2>2, SameAt DEF Moves
  <2>4. ProcessType(p)'
    <3>1. Stored(cases) /\ ReadableFiles(files)
      BY DEF TypeOK, ReadableFiles
    <3>2. Only(p)' = Only(p)
      BY <2>1 DEF Only
    <3> QED BY <1>1, <1>2, <1>4, <2>2, <3>1, <3>2 DEF ProcessType
  <2>5. ProcessTypes' /\ \A q \in Processes \ {p} : phase'[q] = phase[q]
    BY <1>1, <1>2, <2>1, <2>2, <2>3, <2>4, MovesTypes DEF Phases
  <2> QED BY <1>1, <2>3, <2>5, QueriesKept, PartsHold, TypeParts DEF TypeOK, DatabaseTypes
<1> QED BY <1>3, <1>4

\* What an import commits is made of what it read.
LEMMA Commits ==
  ASSUME TypeOK, NEW p \in Processes, Commit(p)
  PROVE  \E r \in reading[p] :
           /\ Stored(r.cases) /\ rules' \in Seq(Case) /\ Stored(cases')
           /\ cases' # cases => \A id \in DOMAIN cases' :
                cases'[id].vector = Reused(r.cases, id, cases'[id].text)
<1>1. PICK r \in reading[p] : ReplaceTables(r.files, r.cases, Only(p))
  BY DEF Commit
<1>2. Stored(r.cases) /\ ~Raises(r.files, Only(p)) /\ ReadableFiles(r.files)
  BY PartsHold DEF ProcessTypes, ProcessType
<1> QED BY <1>1, <1>2, ReplacedTables

LEMMA CommitType ==
  ASSUME TypeOK, NEW p \in Processes, Commit(p)
  PROVE  TypeOK' /\ Moves(p)
<1>1. /\ phase[p] = "replace" /\ phase' = [phase EXCEPT ![p] = "list"]
      /\ reading' = [reading EXCEPT ![p] = {}]
      /\ disturbed' = [q \in Processes |-> q # p \/ disturbed[q]]
      /\ UNCHANGED <<files, job, seeds, todo, writing, query, overrun, edits, starts, queries>>
  BY DEF Commit, start, indexing, bounds
<1>2. todo[p] = {} /\ writing[p] = {} /\ seeds[p] \in BOOLEAN /\ job[p] \in Jobs
  BY <1>1, PartsHold DEF ProcessTypes, ProcessType
<1>3. phase'[p] = "list" /\ reading'[p] = {}
  <2>1. phase \in [Processes -> Phases] /\ reading = [q \in Processes |-> reading[q]]
    BY PartsHold DEF ProcessTypes
  <2> QED BY <1>1, <2>1
<1>4. Moves(p)
  BY <1>1, <1>3, SameAt DEF Moves
<1>5. ProcessType(p)'
  BY <1>1, <1>2, <1>3 DEF ProcessType
<1>6. ProcessTypes' /\ \A q \in Processes \ {p} : phase'[q] = phase[q]
  BY <1>1, <1>2, <1>3, <1>4, <1>5, MovesTypes DEF Phases
<1>7. DatabaseTypes'
  BY Commits DEF DatabaseTypes
<1>8. disturbed' \in [Processes -> BOOLEAN]
  BY <1>1 DEF TypeOK
<1> QED BY <1>1, <1>4, <1>6, <1>7, <1>8, QueriesKept, TypeParts DEF TypeOK

\* What the vector of a case makes of the cases.
LEMMA CaseWritten ==
  ASSUME TypeOK, NEW w \in Vectors, w.id \in DOMAIN cases,
         cases' = [cases EXCEPT ![w.id].vector[w.column] = w.text]
  PROVE  /\ DOMAIN cases' = DOMAIN cases /\ Stored(cases')
         /\ \A id \in DOMAIN cases : cases'[id].text = cases[id].text
         /\ \A id \in DOMAIN cases \ {w.id} : cases'[id] = cases[id]
         /\ cases'[w.id].vector = [cases[w.id].vector EXCEPT ![w.column] = w.text]
         /\ HasVector(cases[w.id])'
<1>1. /\ cases[w.id] \in Case /\ w.text \in Texts /\ w.text # NoText /\ w.column \in Columns
      /\ cases \in [DOMAIN cases -> Case] /\ DOMAIN cases \subseteq Kinds \X Nat
  BY TextAssumption DEF TypeOK, Vectors, Stored
<1>2. cases[w.id].vector \in Vector
  BY <1>1 DEF Case, Vector
<1> DEFINE v == [cases[w.id].vector EXCEPT ![w.column] = w.text]
           new == [cases[w.id] EXCEPT !.vector = v]
<1>3. v \in Vector /\ v[w.column] = w.text
  BY <1>1, <1>2 DEF Vector
<1>4. cases' = [cases EXCEPT ![w.id] = new]
  OBVIOUS
<1> HIDE DEF v
<1>5. new \in Case /\ new.text = cases[w.id].text /\ new.vector = v
  BY <1>1, <1>3 DEF Case, Vector
<1>6. v # NoVectors
  BY <1>1, <1>3 DEF NoVectors
<1> HIDE DEF new
<1>7. /\ DOMAIN cases' = DOMAIN cases /\ cases' \in [DOMAIN cases -> Case]
      /\ cases'[w.id] = new /\ \A id \in DOMAIN cases \ {w.id} : cases'[id] = cases[id]
  BY <1>1, <1>4, <1>5
<1>8. HasVector(cases[w.id])'
  <2>1. HasVector(cases[w.id])' <=> cases'[w.id].vector # NoVectors
    BY DEF HasVector
  <2> QED BY <1>5, <1>6, <1>7, <2>1
<1> QED BY <1>1, <1>5, <1>7, <1>8 DEF v, Stored

\* A case is dropped from the list, or its vector is to be written.
LEMMA Checks ==
  ASSUME TypeOK, NEW p \in Processes, Check(p)
  PROVE  \E c \in todo[p] :
           /\ todo'[p] = todo[p] \ {c}
           /\ \/ ~Lacking(c) /\ writing'[p] = {}
              \/ \E col \in Columns :
                   writing'[p] = {[id |-> c.id, text |-> c.text, column |-> col]}
<1>1. PICK c \in todo[p], up \in Answers :
        /\ up # {}
        /\ todo' = [todo EXCEPT ![p] = @ \ {c}]
        /\ writing' = IF ~Lacking(c) THEN writing
                      ELSE [writing EXCEPT ![p] =
                              {[id |-> c.id, text |-> c.text, column |-> Answering(up)]}]
  BY DEF Check
<1>2. Answering(up) \in Columns
  BY <1>1, AnsweringIsUp
<1>3. writing[p] = {}
  BY DEF Check
<1>4. todo \in [Processes -> SUBSET Todo] /\ writing \in [Processes -> SUBSET Vectors]
  BY PartsHold DEF ProcessTypes
<1>5. todo'[p] = todo[p] \ {c}
  BY <1>1, <1>4
<1>6. CASE ~Lacking(c)
  BY <1>1, <1>3, <1>5, <1>6
<1>7. CASE Lacking(c)
  <2>1. writing'[p] = {[id |-> c.id, text |-> c.text, column |-> Answering(up)]}
    BY <1>1, <1>4, <1>7
  <2> QED BY <1>2, <1>5, <2>1
<1> QED BY <1>6, <1>7

LEMMA CheckType ==
  ASSUME TypeOK, NEW p \in Processes, Check(p)
  PROVE  TypeOK' /\ Moves(p)
<1>1. /\ phase[p] = "index"
      /\ UNCHANGED <<files, sop, rules, cases, phase, job, seeds, reading, query, disturbed,
                     overrun, edits, starts, queries>>
  BY DEF Check, database, start, bounds
<1>2. Moves(p)
  <2>1. todo' = [todo EXCEPT ![p] = todo'[p]]
    <3>1. PICK T : todo' = [todo EXCEPT ![p] = T]
      BY DEF Check
    <3> QED BY <3>1, SameAt
  <2>2. writing' = [writing EXCEPT ![p] = writing'[p]]
    <3>1. PICK W : writing' = writing \/ writing' = [writing EXCEPT ![p] = W]
      BY DEF Check
    <3> QED BY <3>1, SameAt
  <2> QED BY <1>1, <2>1, <2>2, SameAt DEF Moves
<1>3. PICK c \in todo[p] :
        /\ todo'[p] = todo[p] \ {c}
        /\ \/ writing'[p] = {}
           \/ \E col \in Columns :
                writing'[p] = {[id |-> c.id, text |-> c.text, column |-> col]}
  BY Checks
<1>4. /\ todo[p] \in SUBSET Todo /\ phase[p] \in Phases /\ job[p] \in Jobs
      /\ seeds[p] \in BOOLEAN /\ reading[p] = {}
  BY <1>1, PartsHold DEF ProcessTypes, ProcessType
<1>5. todo'[p] \in SUBSET Todo /\ writing'[p] \in SUBSET Vectors
  <2>1. c \in Todo
    BY <1>4
  <2>2. \A col \in Columns : [id |-> c.id, text |-> c.text, column |-> col] \in Vectors
    BY <2>1 DEF Todo, Vectors
  <2> QED BY <1>3, <1>4, <2>2
<1>6. ProcessType(p)'
  BY <1>1, <1>4 DEF ProcessType
<1>7. ProcessTypes' /\ \A q \in Processes \ {p} : phase'[q] = phase[q]
  BY <1>1, <1>2, <1>4, <1>5, <1>6, MovesTypes
<1> QED BY <1>1, <1>2, <1>7, QueriesKept, PartsHold, TypeParts DEF TypeOK, DatabaseTypes

\* A vector is written, or the row is gone and the run fails.
LEMMA Writes ==
  ASSUME TypeOK, NEW p \in Processes, Write(p)
  PROVE  \E w \in writing[p] :
           \/ /\ w.id \in DOMAIN cases
              /\ cases' = [cases EXCEPT ![w.id].vector[w.column] = w.text]
              /\ overrun' = (overrun \/ disturbed[p])
              /\ UNCHANGED <<phase, job, seeds, todo>>
           \/ /\ UNCHANGED <<cases, overrun>>
              /\ Failed(p) /\ todo' = [todo EXCEPT ![p] = {}]
BY DEF Write, start

LEMMA WriteType ==
  ASSUME TypeOK, NEW p \in Processes, Write(p)
  PROVE  TypeOK' /\ Moves(p)
<1>1. /\ writing' = [writing EXCEPT ![p] = {}]
      /\ UNCHANGED <<files, sop, rules, reading, query, disturbed, edits, starts, queries>>
  BY DEF Write, bounds
<1>2. PICK w \in writing[p] :
        \/ /\ w.id \in DOMAIN cases
           /\ cases' = [cases EXCEPT ![w.id].vector[w.column] = w.text]
           /\ overrun' = (overrun \/ disturbed[p])
           /\ UNCHANGED <<phase, job, seeds, todo>>
        \/ /\ UNCHANGED <<cases, overrun>>
           /\ Failed(p) /\ todo' = [todo EXCEPT ![p] = {}]
  BY Writes
<1>3. /\ ProcessTypes /\ phase[p] = "index" /\ reading[p] = {} /\ w \in Vectors
  BY <1>2, PartsHold DEF ProcessTypes, ProcessType
<1>4. writing'[p] = {} /\ writing' = [writing EXCEPT ![p] = writing'[p]]
  BY <1>1, <1>3 DEF ProcessTypes
<1>5. CASE w.id \in DOMAIN cases /\ UNCHANGED <<phase, job, seeds, todo>>
           /\ cases' = [cases EXCEPT ![w.id].vector[w.column] = w.text]
           /\ overrun' = (overrun \/ disturbed[p])
  <2>1. Moves(p)
    BY <1>1, <1>4, <1>5, SameAt DEF Moves
  <2>2. ProcessType(p)'
    BY <1>1, <1>3, <1>5 DEF ProcessType
  <2>3. ProcessTypes' /\ \A q \in Processes \ {p} : phase'[q] = phase[q]
    BY <1>3, <1>4, <1>5, <2>1, <2>2, MovesTypes DEF ProcessTypes
  <2>4. DatabaseTypes'
    BY <1>1, <1>3, <1>5, CaseWritten, PartsHold DEF DatabaseTypes
  <2>5. overrun' \in BOOLEAN
    BY <1>5 DEF TypeOK
  <2> QED BY <1>1, <1>5, <2>1, <2>3, <2>4, <2>5, QueriesKept, TypeParts DEF TypeOK
<1>6. CASE UNCHANGED <<cases, overrun>> /\ Failed(p) /\ todo' = [todo EXCEPT ![p] = {}]
  <2>1. todo'[p] = {} /\ todo' = [todo EXCEPT ![p] = todo'[p]]
    BY <1>3, <1>6 DEF ProcessTypes
  <2>2. Moves(p) /\ phase'[p] \in Phases /\ job'[p] \in Jobs /\ seeds' = seeds
    BY <1>1, <1>4, <1>6, <2>1, FailedMoves, SameAt DEF Moves, Phases
  <2>3. ProcessType(p)'
    BY <1>1, <1>3, <1>4, <2>1 DEF ProcessType
  <2>4. ProcessTypes' /\ \A q \in Processes \ {p} : phase'[q] = phase[q]
    BY <1>3, <1>4, <2>1, <2>2, <2>3, MovesTypes DEF ProcessTypes
  <2> QED BY <1>1, <1>3, <1>6, <2>2, <2>4, QueriesKept, PartsHold, TypeParts
          DEF TypeOK, DatabaseTypes
<1> QED BY <1>2, <1>5, <1>6

\* The steps that leave the database as it is.
LEMMA ProcessStepType ==
  ASSUME TypeOK, NEW p \in Processes,
         ListCandidates(p) \/ Indexed(p) \/ CommitFails(p) \/ IndexFails(p) \/ Start(p) \/ Stop(p)
  PROVE  TypeOK' /\ Moves(p)
<1>1. UNCHANGED <<files, sop, rules, cases, overrun, edits, queries>>
  BY DEF ListCandidates, Indexed, CommitFails, IndexFails, Start, Stop, database, bounds
<1>2. DatabaseTypes' /\ ProcessTypes
  BY <1>1, PartsHold DEF DatabaseTypes
<1>3. /\ phase[p] \in Phases /\ job[p] \in Jobs /\ seeds[p] \in BOOLEAN
      /\ todo[p] \in SUBSET Todo /\ writing[p] \in SUBSET Vectors /\ ProcessType(p)
  BY <1>2 DEF ProcessTypes
<1>4. ASSUME Moves(p), phase'[p] \in Phases, job'[p] \in Jobs, seeds'[p] \in BOOLEAN,
             todo'[p] \in SUBSET Todo, writing'[p] \in SUBSET Vectors, ProcessType(p)',
             query' = query, phase[p] # "up", disturbed' \in [Processes -> BOOLEAN],
             starts' \in Nat
      PROVE  TypeOK' /\ Moves(p)
  <2>1. ProcessTypes' /\ \A q \in Processes \ {p} : phase'[q] = phase[q]
    BY <1>4, MovesTypes
  <2> QED BY <1>1, <1>2, <1>4, <2>1, QueriesKept, TypeParts DEF TypeOK
<1>5. CASE ListCandidates(p)
  <2> DEFINE found == {[id |-> id, text |-> cases[id].text] :
                         id \in {i \in DOMAIN cases : ~HasVector(cases[i])}}
  <2>1. /\ phase[p] = "list" /\ todo' = [todo EXCEPT ![p] = found]
        /\ disturbed' = [disturbed EXCEPT ![p] = FALSE]
        /\ phase' = [phase EXCEPT ![p] = "index"] /\ query' = query
        /\ UNCHANGED <<job, seeds, reading, writing, starts>>
    BY <1>5 DEF ListCandidates, start, bounds
  <2>2. found \in SUBSET Todo
    <3>1. \A id \in DOMAIN cases : id \in Kinds \X Nat /\ cases[id].text \in Texts
      BY DEF TypeOK, Stored, Case
    <3> QED BY <3>1 DEF Todo
  <2> HIDE DEF found
  <2>3. phase'[p] = "index" /\ todo'[p] = found
    BY <1>2, <2>1 DEF ProcessTypes
  <2>4. reading[p] = {} /\ writing[p] = {}
    BY <1>3, <2>1 DEF ProcessType
  <2>5. Moves(p)
    BY <2>1, <2>3, SameAt DEF Moves
  <2>6. ProcessType(p)'
    BY <2>1, <2>3, <2>4 DEF ProcessType
  <2>7. disturbed' \in [Processes -> BOOLEAN] /\ starts' \in Nat
    BY <2>1 DEF TypeOK
  <2> QED BY <1>3, <1>4, <2>1, <2>2, <2>3, <2>5, <2>6, <2>7 DEF Phases
<1>6. CASE Indexed(p)
  <2>1. /\ phase[p] = "index" /\ todo[p] = {} /\ writing[p] = {} /\ GoesOn(p, job[p])
        /\ UNCHANGED <<seeds, reading, todo, writing, query, disturbed, starts>>
    BY <1>6 DEF Indexed, indexing, bounds
  <2>2. Moves(p) /\ phase'[p] \in Phases /\ job'[p] \in Jobs
    BY <1>3, <2>1, GoesOnMoves, SameAt DEF Moves, Phases
  <2>3. ProcessType(p)'
    BY <1>3, <2>1 DEF ProcessType
  <2>4. disturbed' \in [Processes -> BOOLEAN] /\ starts' \in Nat
    BY <2>1 DEF TypeOK
  <2> QED BY <1>3, <1>4, <2>1, <2>2, <2>3, <2>4
<1>7. CASE CommitFails(p)
  <2>1. /\ phase[p] = "replace" /\ Failed(p) /\ reading' = [reading EXCEPT ![p] = {}]
        /\ UNCHANGED <<todo, writing, query, disturbed, starts>>
    BY <1>7 DEF CommitFails, indexing, bounds
  <2>2. reading'[p] = {} /\ todo[p] = {} /\ writing[p] = {}
    <3>1. reading = [q \in Processes |-> reading[q]]
      BY <1>2 DEF ProcessTypes
    <3> QED BY <1>3, <2>1, <3>1 DEF ProcessType
  <2>3. Moves(p) /\ phase'[p] \in Phases /\ job'[p] \in Jobs /\ seeds' = seeds
    BY <2>1, <2>2, FailedMoves, SameAt DEF Moves, Phases
  <2>4. ProcessType(p)'
    BY <2>1, <2>2 DEF ProcessType
  <2>5. disturbed' \in [Processes -> BOOLEAN] /\ starts' \in Nat
    BY <2>1 DEF TypeOK
  <2> QED BY <1>3, <1>4, <2>1, <2>3, <2>4, <2>5
<1>8. CASE IndexFails(p)
  <2>1. /\ phase[p] = "index" /\ Failed(p) /\ todo' = [todo EXCEPT ![p] = {}]
        /\ writing' = [writing EXCEPT ![p] = {}]
        /\ UNCHANGED <<reading, query, disturbed, starts>>
    BY <1>8 DEF IndexFails, bounds
  <2>2. todo'[p] = {} /\ writing'[p] = {} /\ reading[p] = {}
    BY <1>2, <1>3, <2>1 DEF ProcessTypes, ProcessType
  <2>3. Moves(p) /\ phase'[p] \in Phases /\ job'[p] \in Jobs /\ seeds' = seeds
    BY <2>1, <2>2, FailedMoves, SameAt DEF Moves, Phases
  <2>4. ProcessType(p)'
    BY <2>1, <2>2 DEF ProcessType
  <2>5. disturbed' \in [Processes -> BOOLEAN] /\ starts' \in Nat
    BY <2>1 DEF TypeOK
  <2> QED BY <1>3, <1>4, <2>1, <2>2, <2>3, <2>4, <2>5
<1>9. CASE Start(p)
  <2>1. PICK set \in [auto : BOOLEAN, seed : BOOLEAN] :
          /\ seeds' = [seeds EXCEPT ![p] = set.seed]
          /\ job' = [job EXCEPT ![p] = IF set.auto THEN "auto" ELSE IF set.seed THEN "seed" ELSE "none"]
          /\ phase' = [phase EXCEPT ![p] = IF set.auto \/ set.seed THEN "import" ELSE "up"]
    BY <1>9, SettingsAssumption DEF Start
  <2>2. /\ phase[p] = "down" /\ starts' = starts + 1
        /\ UNCHANGED <<reading, todo, writing, query, disturbed>>
    BY <1>9 DEF Start, indexing
  <2>3. todo[p] = {} /\ writing[p] = {} /\ reading[p] = {}
    BY <1>3, <2>2 DEF ProcessType
  <2>4. phase'[p] \in Phases /\ job'[p] \in Jobs /\ seeds'[p] \in BOOLEAN
    BY <1>2, <2>1 DEF ProcessTypes, Phases, Jobs
  <2>5. Moves(p)
    <3>1. seeds' = [seeds EXCEPT ![p] = seeds'[p]]
      BY <1>2, <2>1 DEF ProcessTypes
    <3>2. job' = [job EXCEPT ![p] = job'[p]]
      BY <1>2, <2>1 DEF ProcessTypes
    <3>3. phase' = [phase EXCEPT ![p] = phase'[p]]
      BY <1>2, <2>1 DEF ProcessTypes
    <3> QED BY <2>2, <3>1, <3>2, <3>3, SameAt DEF Moves
  <2>6. ProcessType(p)'
    BY <2>2, <2>3 DEF ProcessType
  <2>7. starts' \in Nat /\ disturbed' \in [Processes -> BOOLEAN]
    <3>1. starts \in Nat /\ disturbed \in [Processes -> BOOLEAN]
      BY DEF TypeOK
    <3> QED BY <2>2, <3>1
  <2> QED BY <1>3, <1>4, <2>2, <2>4, <2>5, <2>6, <2>7
<1>10. CASE Stop(p)
  <2>1. /\ phase' = [phase EXCEPT ![p] = "down"] /\ reading' = [reading EXCEPT ![p] = {}]
        /\ todo' = [todo EXCEPT ![p] = {}] /\ writing' = [writing EXCEPT ![p] = {}]
        /\ query' = IF p = Server THEN [r \in Turns |-> NoQuery] ELSE query
        /\ UNCHANGED <<job, seeds, disturbed, starts>>
    BY <1>10 DEF Stop, start, bounds
  <2>2. phase'[p] = "down" /\ reading'[p] = {} /\ todo'[p] = {} /\ writing'[p] = {}
    <3>1. reading = [q \in Processes |-> reading[q]]
      BY <1>2 DEF ProcessTypes
    <3> QED BY <1>2, <2>1, <3>1 DEF ProcessTypes
  <2>3. Moves(p)
    BY <2>1, <2>2, SameAt DEF Moves
  <2>4. ProcessType(p)'
    BY <2>2 DEF ProcessType
  <2>5. ProcessTypes' /\ \A q \in Processes \ {p} : phase'[q] = phase[q]
    BY <1>3, <2>1, <2>2, <2>3, <2>4, MovesTypes DEF Phases
  <2>6. QueryTypes'
    <3>1. CASE p = Server
      BY <2>1, <3>1 DEF QueryTypes, QueryRow, NoQuery
    <3>2. CASE p # Server
      BY <2>1, <2>5, <3>2, PartsHold, ServerIsProcess DEF QueryTypes
    <3> QED BY <3>1, <3>2
  <2> QED BY <1>1, <1>2, <2>1, <2>3, <2>5, <2>6, TypeParts DEF TypeOK
<1> QED BY <1>5, <1>6, <1>7, <1>8, <1>9, <1>10

LEMMA WorksType ==
  ASSUME TypeOK, NEW p \in Processes, Works(p)
  PROVE  TypeOK' /\ Moves(p)
BY ReadType, CommitType, CheckType, WriteType, ProcessStepType DEF Works, Step

\* What searches keep of the rest of the state.
LEMMA QueryStepType ==
  ASSUME TypeOK, QueryTypes', queries' \in Nat,
         UNCHANGED <<files, sop, rules, cases, phase, job, seeds, reading, todo, writing,
                     disturbed, overrun, edits, starts>>
  PROVE  TypeOK'
<1>1. ProcessTypes'
  BY PartsHold DEF ProcessTypes, ProcessType, Only
<1>2. DatabaseTypes'
  BY PartsHold DEF DatabaseTypes
<1> QED BY <1>1, <1>2, TypeParts DEF TypeOK

LEMMA QueryType ==
  ASSUME TypeOK, NEW r \in Turns, NEW up \in Answers, Reviewed(r, up) \/ Retrieved(r, up)
  PROVE  TypeOK'
<1>1. UNCHANGED <<files, sop, rules, cases, phase, job, seeds, reading, todo, writing,
                  disturbed, overrun, edits, starts, queries>>
  BY DEF Reviewed, Retrieved, database, start, indexing, bounds
<1>2. \E k \in {"error", "revise", "pass", "cases", "no cases"} :
        query' = [query EXCEPT ![r].kind = k]
  BY DEF Reviewed, Retrieved
<1>3. query \in [Turns -> QueryRow] /\ query[r].kind \in {"review", "retrieve"}
  BY PartsHold DEF QueryTypes, Reviewed, Retrieved
<1>4. PICK k \in {"error", "revise", "pass", "cases", "no cases"} :
        query' = [query EXCEPT ![r].kind = k]
  BY <1>2
<1>5. [query[r] EXCEPT !.kind = k] \in QueryRow
  BY <1>3 DEF QueryRow
<1>6. query' = [query EXCEPT ![r] = [query[r] EXCEPT !.kind = k]]
  BY <1>4
<1>7. query' \in [Turns -> QueryRow] /\ \A q \in Turns \ {r} : query'[q] = query[q]
  BY <1>3, <1>5, <1>6
<1>8. QueryTypes'
  BY <1>1, <1>3, <1>7, PartsHold DEF QueryTypes
<1> QED BY <1>1, <1>8, QueryStepType DEF TypeOK

LEMMA AskType ==
  ASSUME TypeOK, NEW r \in Turns, NEW k \in {"review", "retrieve"}, NEW x \in Texts,
         Ask(r, k, x)
  PROVE  TypeOK'
<1>1. /\ UNCHANGED <<files, sop, rules, cases, phase, job, seeds, reading, todo, writing,
                     disturbed, overrun, edits, starts>>
      /\ queries' = queries + 1 /\ phase[Server] = "up"
  BY DEF Ask, database, start, indexing
<1>2. \E kind \in {"review", "retrieve", "pass", "no cases"} :
        query' = [query EXCEPT ![r] = [kind |-> kind, text |-> x]]
  BY DEF Ask
<1>3. QueryTypes'
  <2>1. PICK kind \in {"review", "retrieve", "pass", "no cases"} :
          query' = [query EXCEPT ![r] = [kind |-> kind, text |-> x]]
    BY <1>2
  <2>2. [kind |-> kind, text |-> x] \in QueryRow
    BY DEF QueryRow
  <2>3. query \in [Turns -> QueryRow]
    BY PartsHold DEF QueryTypes
  <2>4. query' \in [Turns -> QueryRow]
    BY <2>1, <2>2, <2>3
  <2> QED BY <1>1, <2>4 DEF QueryTypes
<1>4. queries' \in Nat
  <2>1. queries \in Nat
    BY DEF TypeOK
  <2> QED BY <1>1, <2>1
<1> QED BY <1>1, <1>3, <1>4, QueryStepType

LEMMA EditType ==
  ASSUME TypeOK, Edit
  PROVE  TypeOK'
<1>1. /\ UNCHANGED <<sop, rules, cases, phase, job, seeds, reading, todo, writing, query,
                     disturbed, overrun, starts, queries>>
      /\ edits' = edits + 1
  BY DEF Edit, database, start, indexing
<1>2. edits' \in Nat
  <2>1. edits \in Nat
    BY DEF TypeOK
  <2> QED BY <1>1, <2>1
<1>3. PICK e \in Edits : files' = [files EXCEPT ![e[1]][e[2]] = e[3]]
  BY DEF Edit
<1>4. e[1] \in Kinds /\ e[2] \in Tables /\ Readable(e[2], e[3])
  BY FilesAssumption
<1>5. \A k \in Kinds, t \in Tables :
        files'[k][t] = IF k = e[1] /\ t = e[2] THEN e[3] ELSE files[k][t]
  <2>1. /\ files = [k \in Kinds |-> [t \in Tables |-> files[k][t]]]
    BY DEF TypeOK
  <2> QED BY <1>3, <1>4, <2>1
<1>6. files' = [k \in Kinds |-> [t \in Tables |-> files'[k][t]]]
  <2>1. /\ files = [k \in Kinds |-> [t \in Tables |-> files[k][t]]]
    BY DEF TypeOK
  <2> QED BY <1>3, <1>4, <2>1
<1>7. \A k \in Kinds, t \in Tables : Readable(t, files'[k][t])
  <2>1. \A k \in Kinds, t \in Tables : Readable(t, files[k][t])
    BY DEF TypeOK
  <2> QED BY <1>4, <1>5, <2>1
<1>8. ProcessTypes' /\ DatabaseTypes' /\ QueryTypes'
  BY <1>1, PartsHold DEF ProcessTypes, ProcessType, Only, DatabaseTypes, QueryTypes
<1> QED BY <1>1, <1>2, <1>6, <1>7, <1>8
        DEF TypeOK, ProcessTypes, ProcessType, DatabaseTypes, QueryTypes, QueryRow, ReadableFiles,
            Phases, Jobs, Todo, Vectors

\* The vectors of rules that are filled in are those of their texts.
LEMMA FillType ==
  ASSUME TypeOK, NEW c \in Columns, FillRules(c)
  PROVE  TypeOK'
<1>1. UNCHANGED <<files, sop, cases, phase, job, seeds, reading, todo, writing, query,
                  disturbed, overrun, edits, starts, queries>>
  BY DEF FillRules, start, indexing, bounds
<1> DEFINE w(i) == [rules[i] EXCEPT !.vector[c] = rules[i].text]
<1>2. rules' = [i \in DOMAIN rules |-> w(i)]
  BY DEF FillRules
<1>3. rules \in Seq(Case)
  BY DEF TypeOK
<1>4. ASSUME NEW i \in DOMAIN rules PROVE w(i) \in Case
  <2>1. rules[i] \in Case
    BY <1>3
  <2>2. rules[i].text \in Texts /\ rules[i].vector \in Vector
    BY <2>1 DEF Case, Vector
  <2> DEFINE v == [rules[i].vector EXCEPT ![c] = rules[i].text]
  <2>3. v \in Vector
    BY <2>2 DEF Vector
  <2>4. w(i) = [rules[i] EXCEPT !.vector = v]
    OBVIOUS
  <2> HIDE DEF v, w
  <2> QED BY <2>1, <2>3, <2>4 DEF Case, Vector
<1> HIDE DEF w
<1>5. rules' \in Seq(Case)
  BY <1>2, <1>3, <1>4
<1>6. DatabaseTypes' /\ ProcessTypes' /\ QueryTypes'
  BY <1>1, <1>5, PartsHold DEF DatabaseTypes, ProcessTypes, ProcessType, Only, QueryTypes
<1> QED BY <1>1, <1>6, TypeParts DEF TypeOK

LEMMA TypeStep == TypeOK /\ [Next]_vars => TypeOK'
<1> SUFFICES ASSUME TypeOK, [Next]_vars PROVE TypeOK'
  OBVIOUS
<1>1. ASSUME NEW p \in Processes, Works(p) PROVE TypeOK'
  BY <1>1, WorksType
<1>2. ASSUME NEW r \in Turns, Search(r) PROVE TypeOK'
  BY <1>2, QueryType DEF Search
<1>3. CASE UNCHANGED vars
  <2>1. UNCHANGED <<files, sop, rules, cases, phase, job, seeds, reading, todo, writing, query,
                    disturbed, overrun, edits, starts, queries>>
    BY <1>3 DEF vars, database, start, indexing, bounds
  <2>2. ProcessTypes' /\ DatabaseTypes' /\ QueryTypes'
    BY <2>1, PartsHold DEF ProcessTypes, ProcessType, Only, DatabaseTypes, QueryTypes
  <2> QED BY <2>1, <2>2, TypeParts DEF TypeOK
<1> QED BY <1>1, <1>2, <1>3, EditType, FillType, AskType DEF Next, Works

\* The tables, files, processes and searches hold nothing but what they should.
THEOREM TypeCorrect == Spec => []TypeOK
<1> QED BY InitType, TypeStep, PTL DEF Spec

-----------------------------------------------------------------------------
(* The cases an index run has listed, and whose text the vectors are of.   *)

Fresh(table) ==
  \A id \in DOMAIN table, c \in Columns : table[id].vector[c] \in {NoText, table[id].text}

Listed(p) ==
  /\ \A v, w \in writing[p] : v = w
  /\ phase[p] = "index" /\ ~disturbed[p] =>
       /\ \A c \in todo[p] \cup writing[p] : c.id \in DOMAIN cases /\ cases[c.id].text = c.text
       /\ \A id \in DOMAIN cases : ~HasVector(cases[id]) =>
            \E c \in todo[p] \cup writing[p] : c.id = id

\* What an import has read, and will take the vectors of.
ReadFresh == overrun \/ \A p \in Processes : \A r \in reading[p] : Fresh(r.cases)

Asked == \A r \in Turns : query[r].kind = "review" => query[r].text \in Texts

Carried == VectorsFresh /\ ServesIndexed /\ ReadFresh /\ \A p \in Processes : Listed(p)

IInv == TypeOK /\ Asked /\ Carried

\* A process that does not index, or indexes on with the list and the cases it
\* had, keeps its list true.
LEMMA ListedKept ==
  ASSUME NEW q \in Processes, Listed(q), cases' = cases, writing'[q] \in {writing[q], {}},
         phase'[q] # "index"
           \/ (/\ phase'[q] = phase[q] /\ disturbed'[q] = disturbed[q]
               /\ todo'[q] = todo[q] /\ writing'[q] = writing[q])
  PROVE  Listed(q)'
BY DEF Listed, HasVector

LEMMA OthersStay ==
  ASSUME TypeOK, NEW p \in Processes, Works(p)
  PROVE  \A q \in Processes \ {p} : /\ phase'[q] = phase[q] /\ job'[q] = job[q]
                                   /\ reading'[q] = reading[q]
                                   /\ todo'[q] = todo[q] /\ writing'[q] = writing[q]
<1>1. Moves(p)
  BY WorksType
<1>2. /\ phase \in [Processes -> Phases] /\ job \in [Processes -> Jobs]
      /\ reading = [q \in Processes |-> reading[q]]
      /\ todo \in [Processes -> SUBSET Todo] /\ writing \in [Processes -> SUBSET Vectors]
  BY PartsHold DEF ProcessTypes
<1>3. \A q \in Processes \ {p} : reading'[q] = reading[q]
  BY <1>1, <1>2 DEF Moves
<1>4. \A q \in Processes \ {p} : /\ phase'[q] = phase[q] /\ job'[q] = job[q]
                                /\ todo'[q] = todo[q] /\ writing'[q] = writing[q]
  BY <1>1, <1>2 DEF Moves
<1> QED BY <1>3, <1>4

\* A step of p that leaves the cases as they are.
LEMMA CasesStay ==
  ASSUME IInv, NEW p \in Processes, Works(p), cases' = cases, overrun' = overrun,
         \A q \in Processes \ {p} : disturbed'[q] = disturbed[q],
         Listed(p)',
         \A r \in reading'[p] : r \in reading[p] \/ r.cases = cases,
         phase'[p] = "up" => \/ job'[p] = "none" \/ disturbed'[p]
                             \/ \A id \in DOMAIN cases : HasVector(cases[id])
  PROVE  Carried'
<1>1. \A q \in Processes \ {p} : /\ phase'[q] = phase[q] /\ job'[q] = job[q]
                                /\ reading'[q] = reading[q]
                                /\ todo'[q] = todo[q] /\ writing'[q] = writing[q]
  BY OthersStay DEF IInv
<1>2. ASSUME NEW q \in Processes PROVE Listed(q)'
  BY <1>1, ListedKept DEF IInv, Carried
<1>3. VectorsFresh'
  BY DEF IInv, Carried, VectorsFresh
<1>4. ReadFresh'
  <2>1. ASSUME ~overrun', NEW q \in Processes, NEW r \in reading'[q] PROVE Fresh(r.cases)
    <3>1. CASE r \in reading[q]
      BY <2>1, <3>1 DEF IInv, Carried, ReadFresh
    <3>2. CASE r \notin reading[q]
      <4>1. r.cases = cases
        BY <1>1, <3>2
      <4>2. Fresh(cases)
        BY <2>1 DEF IInv, Carried, VectorsFresh, Fresh
      <4> QED BY <4>1, <4>2
    <3> QED BY <3>1, <3>2
  <2> QED BY <2>1 DEF ReadFresh, Fresh
<1>5. ServesIndexed'
  BY <1>1, ServerIsProcess DEF IInv, Carried, ServesIndexed, HasVector
<1> QED BY <1>2, <1>3, <1>4, <1>5 DEF Carried

LEMMA ReadStep ==
  ASSUME IInv, NEW p \in Processes, Read(p)
  PROVE  Carried'
<1>1. /\ phase[p] = "import"
      /\ UNCHANGED <<cases, todo, writing, overrun, disturbed>>
  BY DEF Read, database, indexing
<1>2. TypeOK /\ Works(p) /\ Listed(p)
  BY DEF IInv, Carried, Works, Step
<1>3. CASE Raises(files, Only(p))
  <2>1. Failed(p) /\ reading' = reading
    BY <1>3 DEF Read
  <2>2. phase'[p] # "index" /\ (phase'[p] = "up" => job'[p] = "none")
    BY <1>2, <2>1, FailedMoves
  <2>3. Listed(p)'
    BY <1>1, <1>2, <2>2, ListedKept
  <2> QED BY <1>1, <1>2, <2>1, <2>2, <2>3, CasesStay
<1>4. CASE ~Raises(files, Only(p))
  <2>1. /\ phase' = [phase EXCEPT ![p] = "replace"]
        /\ reading' = [reading EXCEPT ![p] = {[files |-> files, cases |-> cases]}]
    BY <1>4 DEF Read
  <2>2. phase'[p] = "replace" /\ reading'[p] = {[files |-> files, cases |-> cases]}
    <3>1. phase \in [Processes -> Phases] /\ reading = [q \in Processes |-> reading[q]]
      BY <1>2, PartsHold DEF ProcessTypes
    <3> QED BY <2>1, <3>1
  <2>3. Listed(p)'
    BY <1>1, <1>2, <2>2, ListedKept
  <2>4. \A r \in reading'[p] : r.cases = cases
    BY <2>2
  <2> QED BY <1>1, <1>2, <2>2, <2>3, <2>4, CasesStay
<1> QED BY <1>3, <1>4

\* Every vector an import takes over is that of the text it had when it was read,
\* which is the text the case is given again.
LEMMA CommitStep ==
  ASSUME IInv, NEW p \in Processes, Commit(p)
  PROVE  Carried'
<1>1. /\ phase' = [phase EXCEPT ![p] = "list"] /\ reading' = [reading EXCEPT ![p] = {}]
      /\ disturbed' = [q \in Processes |-> q # p \/ disturbed[q]]
      /\ UNCHANGED <<todo, writing, overrun>>
  BY DEF Commit, indexing
<1>2. TypeOK /\ Works(p)
  BY DEF IInv, Works, Step
<1>3. /\ phase'[p] = "list" /\ reading'[p] = {}
      /\ \A q \in Processes \ {p} : disturbed'[q] /\ reading'[q] = reading[q]
  <2>1. phase \in [Processes -> Phases] /\ reading = [q \in Processes |-> reading[q]]
    BY <1>2, PartsHold DEF ProcessTypes
  <2> QED BY <1>1, <2>1
<1>4. \A q \in Processes : Listed(q)'
  <2>1. \A q \in Processes : \A v, w \in writing'[q] : v = w
    BY <1>1 DEF IInv, Carried, Listed
  <2>2. \A q \in Processes : ~(phase'[q] = "index" /\ ~disturbed'[q])
    BY <1>3
  <2> QED BY <2>1, <2>2 DEF Listed
<1>5. ServesIndexed'
  BY <1>3, ServerIsProcess DEF ServesIndexed
<1>6. ReadFresh'
  BY <1>1, <1>3 DEF IInv, Carried, ReadFresh, Fresh
<1>7. VectorsFresh'
  <2>1. CASE cases' = cases
    BY <1>1, <2>1 DEF IInv, Carried, VectorsFresh
  <2>2. CASE cases' # cases
    <3>1. PICK r \in reading[p] :
            \A id \in DOMAIN cases' :
              cases'[id].vector = Reused(r.cases, id, cases'[id].text)
      BY <1>2, <2>2, Commits
    <3>2. ASSUME ~overrun, NEW id \in DOMAIN cases', NEW c \in Columns
          PROVE  cases'[id].vector[c] \in {NoText, cases'[id].text}
      <4>1. CASE id \in DOMAIN r.cases /\ r.cases[id].text = cases'[id].text
        <5>1. r.cases[id].vector[c] \in {NoText, r.cases[id].text}
          BY <3>2, <4>1 DEF IInv, Carried, ReadFresh, Fresh
        <5> QED BY <3>1, <4>1, <5>1 DEF Reused
      <4>2. CASE ~(id \in DOMAIN r.cases /\ r.cases[id].text = cases'[id].text)
        BY <3>1, <4>2 DEF Reused, NoVectors
      <4> QED BY <4>1, <4>2
    <3> QED BY <1>1, <3>2 DEF VectorsFresh
  <2> QED BY <2>1, <2>2
<1> QED BY <1>4, <1>5, <1>6, <1>7 DEF Carried

\* A case is taken off the list only for a vector it has, or has coming.
LEMMA CheckStep ==
  ASSUME IInv, NEW p \in Processes, Check(p)
  PROVE  Carried'
<1>1. /\ phase[p] = "index" /\ writing[p] = {}
      /\ UNCHANGED <<cases, overrun, disturbed, phase, reading>>
  BY DEF Check, database
<1>2. TypeOK /\ Works(p) /\ Listed(p)
  BY DEF IInv, Carried, Works, Step
<1>3. PICK c \in todo[p] :
        /\ todo'[p] = todo[p] \ {c}
        /\ \/ ~Lacking(c) /\ writing'[p] = {}
           \/ \E col \in Columns :
                writing'[p] = {[id |-> c.id, text |-> c.text, column |-> col]}
  BY <1>2, Checks
<1>4. \A v, w \in writing'[p] : v = w
  BY <1>3
<1>5. ASSUME ~disturbed[p]
      PROVE  /\ \A d \in todo'[p] \cup writing'[p] : d.id \in DOMAIN cases /\ cases[d.id].text = d.text
             /\ \A id \in DOMAIN cases : ~HasVector(cases[id]) =>
                  \E d \in todo'[p] \cup writing'[p] : d.id = id
  <2>1. /\ \A d \in todo[p] : d.id \in DOMAIN cases /\ cases[d.id].text = d.text
        /\ \A id \in DOMAIN cases : ~HasVector(cases[id]) => \E d \in todo[p] : d.id = id
    BY <1>1, <1>2, <1>5 DEF Listed
  <2>2. CASE ~Lacking(c) /\ writing'[p] = {}
    BY <1>3, <2>1, <2>2 DEF Lacking
  <2>3. CASE \E col \in Columns : writing'[p] = {[id |-> c.id, text |-> c.text, column |-> col]}
    <3>1. PICK col \in Columns : writing'[p] = {[id |-> c.id, text |-> c.text, column |-> col]}
      BY <2>3
    <3> DEFINE w == [id |-> c.id, text |-> c.text, column |-> col]
    <3>2. w.id = c.id /\ w.text = c.text
      OBVIOUS
    <3> HIDE DEF w
    <3>3. writing'[p] = {w} /\ todo'[p] = todo[p] \ {c} /\ c \in todo[p]
      BY <1>3, <3>1 DEF w
    <3>4. /\ w \in todo'[p] \cup writing'[p]
          /\ \A d \in todo[p] : d = c \/ d \in todo'[p] \cup writing'[p]
          /\ \A d \in todo'[p] \cup writing'[p] : d = w \/ d \in todo[p]
      BY <3>3
    <3> QED BY <2>1, <3>2, <3>3, <3>4
  <2> QED BY <1>3, <2>2, <2>3
<1>6. Listed(p)'
  BY <1>1, <1>4, <1>5 DEF Listed, HasVector
<1> QED BY <1>1, <1>2, <1>6, CasesStay

\* A vector that is written is that of the text, if the list was true.
LEMMA WriteStep ==
  ASSUME IInv, NEW p \in Processes, Write(p)
  PROVE  Carried'
<1>1. /\ writing' = [writing EXCEPT ![p] = {}] /\ UNCHANGED <<reading, disturbed>>
  BY DEF Write
<1>2. TypeOK /\ Works(p) /\ Listed(p)
  BY DEF IInv, Carried, Works, Step
<1>3. PICK w \in writing[p] :
        \/ /\ w.id \in DOMAIN cases
           /\ cases' = [cases EXCEPT ![w.id].vector[w.column] = w.text]
           /\ overrun' = (overrun \/ disturbed[p])
           /\ UNCHANGED <<phase, job, seeds, todo>>
        \/ /\ UNCHANGED <<cases, overrun>>
           /\ Failed(p) /\ todo' = [todo EXCEPT ![p] = {}]
  BY <1>2, Writes
<1>4. w \in Vectors /\ writing[p] = {w} /\ phase[p] = "index" /\ writing'[p] = {}
  <2>1. ProcessTypes
    BY <1>2, PartsHold
  <2> QED BY <1>1, <1>2, <1>3, <2>1 DEF Listed, ProcessTypes, ProcessType
<1>5. CASE UNCHANGED <<cases, overrun>> /\ Failed(p)
  <2>1. phase'[p] # "index" /\ (phase'[p] = "up" => job'[p] = "none")
    BY <1>2, <1>5, FailedMoves
  <2>2. Listed(p)'
    BY <1>2, <1>4, <1>5, <2>1, ListedKept
  <2> QED BY <1>1, <1>2, <1>5, <2>1, <2>2, CasesStay
<1>6. CASE /\ w.id \in DOMAIN cases
           /\ cases' = [cases EXCEPT ![w.id].vector[w.column] = w.text]
           /\ overrun' = (overrun \/ disturbed[p])
           /\ UNCHANGED <<phase, job, seeds, todo>>
  <2>1. /\ DOMAIN cases' = DOMAIN cases
        /\ \A id \in DOMAIN cases : cases'[id].text = cases[id].text
        /\ \A id \in DOMAIN cases \ {w.id} : cases'[id] = cases[id]
        /\ cases'[w.id].vector = [cases[w.id].vector EXCEPT ![w.column] = w.text]
        /\ HasVector(cases[w.id])'
    BY <1>2, <1>4, <1>6, CaseWritten
  <2>2. \A id \in DOMAIN cases : HasVector(cases[id]) \/ id = w.id => cases'[id].vector # NoVectors
    BY <2>1 DEF HasVector
  <2>3. ASSUME NEW q \in Processes PROVE Listed(q)'
    <3>1. writing'[q] = IF q = p THEN {} ELSE writing[q]
      BY <1>2, <1>4, OthersStay
    <3>2. Listed(q)
      BY DEF IInv, Carried
    <3>3. ASSUME phase[q] = "index", ~disturbed[q]
          PROVE  /\ \A d \in todo[q] \cup writing'[q] :
                      d.id \in DOMAIN cases' /\ cases'[d.id].text = d.text
                 /\ \A id \in DOMAIN cases' : cases'[id].vector = NoVectors =>
                      \E d \in todo[q] \cup writing'[q] : d.id = id
      <4>1. /\ \A d \in todo[q] \cup writing[q] : d.id \in DOMAIN cases /\ cases[d.id].text = d.text
            /\ \A id \in DOMAIN cases : ~HasVector(cases[id]) =>
                 \E d \in todo[q] \cup writing[q] : d.id = id
        BY <3>2, <3>3 DEF Listed
      <4>2. \A d \in todo[q] \cup writing[q] :
              d.id # w.id => d \in todo[q] \cup writing'[q]
        BY <1>4, <3>1
      <4>3. todo[q] \cup writing'[q] \subseteq todo[q] \cup writing[q]
        BY <3>1
      <4> HIDE <1>3, <1>6
      <4> QED BY <2>1, <2>2, <4>1, <4>2, <4>3
    <3> QED BY <1>1, <1>6, <3>1, <3>2, <3>3 DEF Listed, HasVector
  <2>4. ServesIndexed'
    BY <1>1, <1>6, <2>1, <2>2 DEF IInv, Carried, ServesIndexed, HasVector
  <2>5. ReadFresh'
    BY <1>1, <1>6 DEF IInv, Carried, ReadFresh, Fresh
  <2>6. VectorsFresh'
    <3>1. ASSUME ~overrun', NEW id \in DOMAIN cases', NEW k \in Columns
          PROVE  cases'[id].vector[k] \in {NoText, cases'[id].text}
      <4>1. ~overrun /\ ~disturbed[p]
        BY <1>6, <3>1
      <4>2. cases[id].vector[k] \in {NoText, cases[id].text}
        BY <2>1, <3>1, <4>1 DEF IInv, Carried, VectorsFresh
      <4>3. cases[w.id].text = w.text
        BY <1>2, <1>4, <4>1 DEF Listed
      <4>4. CASE id # w.id
        BY <2>1, <3>1, <4>2, <4>4
      <4>5. CASE id = w.id
        <5>1. cases[id].vector \in [Columns -> Texts \cup {NoText}]
          <6>1. Stored(cases)
            BY <1>2 DEF TypeOK
          <6> QED BY <1>6, <4>5, <6>1 DEF Stored, Case
        <5>2. cases'[id].vector[k] \in {w.text, cases[id].vector[k]}
          BY <2>1, <4>5, <5>1
        <5> QED BY <1>6, <2>1, <4>2, <4>3, <4>5, <5>2
      <4> QED BY <4>4, <4>5
    <3> QED BY <3>1 DEF VectorsFresh
  <2> QED BY <2>3, <2>4, <2>5, <2>6 DEF Carried
<1> QED BY <1>3, <1>5, <1>6

\* The list is true when it is made, and says that all is indexed when it is
\* empty at the end.
LEMMA ProcessStep ==
  ASSUME IInv, NEW p \in Processes,
         ListCandidates(p) \/ Indexed(p) \/ CommitFails(p) \/ IndexFails(p) \/ Start(p) \/ Stop(p)
  PROVE  Carried'
<1>1. UNCHANGED <<cases, overrun>>
  BY DEF ListCandidates, Indexed, CommitFails, IndexFails, Start, Stop, database
<1>2. TypeOK /\ Works(p) /\ Listed(p) /\ ProcessTypes
  BY PartsHold DEF IInv, Carried, Works, Step
<1>3. \A q \in Processes \ {p} : disturbed'[q] = disturbed[q]
  <2>1. disturbed \in [Processes -> BOOLEAN]
    BY <1>2 DEF TypeOK
  <2> QED BY <2>1 DEF ListCandidates, Indexed, CommitFails, IndexFails, Start, Stop
<1>4. reading'[p] \in {reading[p], {}}
  <2>1. reading' = reading \/ reading' = [reading EXCEPT ![p] = {}]
    BY DEF ListCandidates, Indexed, CommitFails, IndexFails, Start, Stop
  <2>2. reading = [q \in Processes |-> reading[q]]
    BY <1>2 DEF ProcessTypes
  <2> QED BY <2>1, <2>2
<1>5. writing'[p] \in {writing[p], {}}
  <2>1. writing' = writing \/ writing' = [writing EXCEPT ![p] = {}]
    BY DEF ListCandidates, Indexed, CommitFails, IndexFails, Start, Stop, indexing
  <2> QED BY <1>2, <2>1 DEF ProcessTypes
<1>6. ASSUME phase'[p] # "index", phase'[p] = "up" => job'[p] = "none"
      PROVE  Carried'
  <2>1. Listed(p)'
    BY <1>1, <1>2, <1>5, <1>6, ListedKept
  <2> QED BY <1>1, <1>2, <1>3, <1>4, <1>6, <2>1, CasesStay
<1>7. CASE ListCandidates(p)
  <2> DEFINE found == {[id |-> id, text |-> cases[id].text] :
                         id \in {i \in DOMAIN cases : ~HasVector(cases[i])}}
  <2>1. phase[p] = "list" /\ phase'[p] = "index" /\ todo'[p] = found /\ writing' = writing
    BY <1>2, <1>7 DEF ListCandidates, ProcessTypes
  <2>2. /\ \A c \in found : c.id \in DOMAIN cases /\ cases[c.id].text = c.text
        /\ \A id \in DOMAIN cases : cases[id].vector = NoVectors => \E c \in found : c.id = id
    <3>1. \A c \in found : c.id \in DOMAIN cases /\ cases[c.id].text = c.text
      OBVIOUS
    <3>2. ASSUME NEW id \in DOMAIN cases, cases[id].vector = NoVectors
          PROVE  \E c \in found : c.id = id
      <4>1. [id |-> id, text |-> cases[id].text] \in found
        BY <3>2 DEF HasVector
      <4> QED BY <4>1
    <3> QED BY <3>1, <3>2
  <2> HIDE DEF found
  <2>3. writing'[p] = {}
    BY <1>2, <2>1 DEF ProcessTypes, ProcessType
  <2>4. Listed(p)'
    BY <1>1, <2>1, <2>2, <2>3 DEF Listed, HasVector
  <2> QED BY <1>1, <1>2, <1>3, <1>4, <2>1, <2>4, CasesStay
<1>8. CASE Indexed(p)
  <2>1. /\ phase[p] = "index" /\ todo[p] = {} /\ writing[p] = {} /\ disturbed' = disturbed
        /\ GoesOn(p, job[p])
    BY <1>8 DEF Indexed
  <2>2. phase'[p] # "index"
    BY <1>2, <2>1, GoesOnMoves DEF ProcessTypes
  <2>3. Listed(p)'
    BY <1>1, <1>2, <1>5, <2>2, ListedKept
  <2>4. disturbed[p] \/ \A id \in DOMAIN cases : HasVector(cases[id])
    BY <1>2, <2>1 DEF Listed
  <2> QED BY <1>1, <1>2, <1>3, <1>4, <2>1, <2>3, <2>4, CasesStay
<1>9. CASE CommitFails(p) \/ IndexFails(p)
  <2>1. Failed(p)
    BY <1>9 DEF CommitFails, IndexFails
  <2> QED BY <1>2, <1>6, <2>1, FailedMoves
<1>10. CASE Start(p)
  <2>1. PICK set \in [auto : BOOLEAN, seed : BOOLEAN] :
          /\ job' = [job EXCEPT ![p] = IF set.auto THEN "auto" ELSE IF set.seed THEN "seed" ELSE "none"]
          /\ phase' = [phase EXCEPT ![p] = IF set.auto \/ set.seed THEN "import" ELSE "up"]
    BY <1>10, SettingsAssumption DEF Start
  <2>2. phase'[p] # "index" /\ (phase'[p] = "up" => job'[p] = "none")
    BY <1>2, <2>1 DEF ProcessTypes
  <2> QED BY <1>6, <2>2
<1>11. CASE Stop(p)
  <2>1. phase'[p] = "down"
    BY <1>2, <1>11 DEF Stop, ProcessTypes
  <2> QED BY <1>6, <2>1
<1> QED BY <1>7, <1>8, <1>9, <1>10, <1>11

LEMMA AskedStep ==
  ASSUME IInv, TypeOK', Next
  PROVE  Asked'
<1>1. CASE query' = query
  BY <1>1 DEF IInv, Asked
<1>2. ASSUME NEW p \in Processes, Stop(p), query' # query PROVE Asked'
  BY <1>2 DEF Stop, Asked, NoQuery
<1>3. ASSUME NEW r \in Turns, Search(r) PROVE Asked'
  <2>1. /\ \A q \in Turns \ {r} : query'[q] = query[q]
        /\ query'[r].kind # "review"
    <3>1. PICK k \in {"error", "revise", "pass", "cases", "no cases"} :
            query' = [query EXCEPT ![r].kind = k]
      BY <1>3 DEF Search, Reviewed, Retrieved
    <3>2. query \in [Turns -> QueryRow]
      BY PartsHold DEF IInv, QueryTypes
    <3> QED BY <3>1, <3>2 DEF QueryRow
  <2> QED BY <2>1 DEF IInv, Asked
<1>4. ASSUME NEW r \in Turns, NEW k \in {"review", "retrieve"}, NEW x \in Texts, Ask(r, k, x)
      PROVE  Asked'
  <2>1. /\ \A q \in Turns \ {r} : query'[q] = query[q]
        /\ query'[r].text = x
    BY <1>4 DEF Ask, IInv, TypeOK
  <2> QED BY <2>1 DEF IInv, Asked
<1>5. CASE \E p \in Processes : Step(p) \/ CommitFails(p) \/ IndexFails(p) \/ Start(p)
  <2>1. query' = query
    BY <1>5 DEF Step, Read, Commit, ListCandidates, Check, Write, Indexed, CommitFails,
                IndexFails, Start
  <2> QED BY <1>1, <2>1
<1>6. CASE Edit \/ \E c \in Columns : FillRules(c)
  BY <1>1, <1>6 DEF Edit, FillRules
<1> QED BY <1>1, <1>2, <1>3, <1>4, <1>5, <1>6 DEF Next

LEMMA IInvInit == Init => IInv
<1> SUFFICES ASSUME Init PROVE IInv
  OBVIOUS
<1>1. VectorsFresh /\ ReadFresh /\ \A p \in Processes : Listed(p)
  BY DEF Init, VectorsFresh, ReadFresh, Listed
<1>2. ServesIndexed /\ Asked
  BY ServerIsProcess DEF Init, ServesIndexed, Asked, NoQuery
<1> QED BY <1>1, <1>2, InitType DEF IInv, Carried

LEMMA IInvStep == IInv /\ [Next]_vars => IInv'
<1> SUFFICES ASSUME IInv, [Next]_vars PROVE IInv'
  OBVIOUS
<1>1. TypeOK'
  BY TypeStep DEF IInv
<1>2. ASSUME NEW p \in Processes, Works(p) PROVE Carried'
  BY <1>2, ReadStep, CommitStep, CheckStep, WriteStep, ProcessStep DEF Works, Step
<1>3. ASSUME UNCHANGED <<cases, overrun, phase, job, reading, todo, writing, disturbed>>
      PROVE  Carried'
  BY <1>3 DEF IInv, Carried, VectorsFresh, ServesIndexed, ReadFresh, Fresh, Listed, HasVector
<1>4. CASE Next
  <2>1. CASE \/ Edit
             \/ \E c \in Columns : FillRules(c)
             \/ \E r \in Turns : Search(r)
             \/ \E r \in Turns, k \in {"review", "retrieve"}, x \in Texts : Ask(r, k, x)
    <3>1. UNCHANGED <<cases, overrun, phase, job, reading, todo, writing, disturbed>>
      BY <2>1 DEF Edit, FillRules, Search, Reviewed, Retrieved, Ask, database, start, indexing
    <3> QED BY <1>1, <1>3, <1>4, <3>1, AskedStep DEF IInv
  <2> QED BY <1>1, <1>2, <1>4, <2>1, AskedStep DEF IInv, Next, Works
<1>5. CASE UNCHANGED vars
  <2>1. UNCHANGED <<cases, overrun, phase, job, reading, todo, writing, disturbed, query>>
    BY <1>5 DEF vars, database, start, indexing
  <2>2. Asked'
    BY <2>1 DEF IInv, Asked
  <2> QED BY <1>1, <1>3, <2>1, <2>2 DEF IInv
<1> QED BY <1>4, <1>5

LEMMA IInvHolds == Spec => []IInv
<1> QED BY IInvInit, IInvStep, PTL DEF Spec

-----------------------------------------------------------------------------
(* The stages, with the database and without it.                           *)

\* Of some rows one is first in the order of the keys.
LEMMA FirstRow ==
  ASSUME NEW n \in Nat, NEW keys \in [1..n -> Nat], NEW I \in SUBSET (1..n), I # {}
  PROVE  \E i \in I : \A j \in I : i = j \/ Before(keys, i, j)
<1>1. PICK k \in {keys[i] : i \in I} : \A l \in {keys[i] : i \in I} : k <= l
  <2>1. {keys[i] : i \in I} \subseteq Nat /\ {keys[i] : i \in I} # {}
    OBVIOUS
  <2> QED BY <2>1, Least
<1> DEFINE J == {m \in I : keys[m] = k}
<1>2. PICK i \in J : \A j \in J : i <= j
  <2>1. PICK m \in I : keys[m] = k
    BY <1>1
  <2>2. m \in J
    BY <2>1
  <2>3. J \subseteq Nat
    <3>1. \A x \in J : x \in 1..n
      OBVIOUS
    <3>2. \A x \in 1..n : x \in Nat
      OBVIOUS
    <3> HIDE DEF J
    <3> QED BY <3>1, <3>2
  <2> HIDE DEF J
  <2> QED BY <2>2, <2>3, Least
<1>3. ASSUME NEW j \in I PROVE i = j \/ Before(keys, i, j)
  <2>1. keys[i] = k /\ k <= keys[j] /\ keys[j] \in Nat /\ k \in Nat /\ i \in Nat /\ j \in Nat
    BY <1>1
  <2>2. keys[j] = k => i <= j
    BY <1>2
  <2> QED BY <2>1, <2>2 DEF Before
<1> QED BY <1>3

\* The first rows order the stages.
LEMMA StagesOrdered ==
  ASSUME NEW n \in Nat, NEW stages, DOMAIN stages = 1..n, NEW keys \in [1..n -> Nat],
         NEW shown \in SUBSET Range(stages)
  PROVE  StrictOrder(shown, {p \in shown \X shown : Precedes(stages, keys, p[1], p[2])})
<1> DEFINE R == {p \in shown \X shown : Precedes(stages, keys, p[1], p[2])}
<1>1. \A s, t \in shown : <<s, t>> \in R <=> Precedes(stages, keys, s, t)
  OBVIOUS
<1>2. \A i \in 1..n : ~Before(keys, i, i)
  BY DEF Before
<1>3. \A i, j, k \in 1..n : Before(keys, i, j) /\ Before(keys, j, k) => Before(keys, i, k)
  BY DEF Before
<1>4. ASSUME NEW s \in shown PROVE ~Precedes(stages, keys, s, s)
  BY <1>2 DEF Precedes
<1>5. ASSUME NEW s \in shown, NEW t \in shown, NEW u \in shown,
             Precedes(stages, keys, s, t), Precedes(stages, keys, t, u)
      PROVE  Precedes(stages, keys, s, u)
  BY <1>3, <1>5 DEF Precedes
<1>6. ASSUME NEW s \in shown, NEW t \in shown, s # t
      PROVE  Precedes(stages, keys, s, t) \/ Precedes(stages, keys, t, s)
  <2> DEFINE I == {i \in 1..n : stages[i] \in {s, t}}
  <2>1. I \in SUBSET (1..n) /\ I # {}
    BY DEF Range
  <2>2. PICK i \in I : \A j \in I : i = j \/ Before(keys, i, j)
    BY <2>1, FirstRow
  <2>3. CASE stages[i] = s
    BY <1>6, <2>2, <2>3 DEF Precedes
  <2>4. CASE stages[i] = t
    BY <1>6, <2>2, <2>4 DEF Precedes
  <2> QED BY <2>3, <2>4
<1> HIDE DEF R
<1>7. StrictOrder(shown, R)
  BY <1>1, <1>4, <1>5, <1>6 DEF StrictOrder
<1> QED BY <1>7 DEF R

\* Of any rows, in whatever order and with whatever keys, the stage list has
\* each stage to be shown once, and a stage before another if its first row
\* comes first (_dedupe_sop_stages).
THEOREM StagesListedOnce ==
  ASSUME NEW stages \in Seq(STRING), NEW keys \in [DOMAIN stages -> Nat]
  PROVE  LET list == StagesOf(stages, keys)
         IN /\ list \in Seq(STRING)
            /\ Range(list) = {s \in Range(stages) : s # NoText /\ ~IsTerminal(s)}
            /\ \A m, n \in DOMAIN list :
                 m < n <=> Precedes(stages, keys, list[m], list[n])
<1> DEFINE shown == {s \in Range(stages) : s # NoText /\ ~IsTerminal(s)}
           R == {p \in shown \X shown : Precedes(stages, keys, p[1], p[2])}
           list == Ranked(shown, R)
           N == Cardinality(shown)
<1>1. Len(stages) \in Nat /\ DOMAIN stages = 1..Len(stages)
  OBVIOUS
<1>2. shown \in SUBSET STRING /\ shown \in SUBSET Range(stages)
  BY DEF Range
<1>3. StrictOrder(shown, R)
  BY <1>1, <1>2, StagesOrdered
<1>4. IsFiniteSet(shown)
  <2>1. IsFiniteSet(1..Len(stages))
    BY <1>1, FS_Interval
  <2>2. stages \in Surjection(1..Len(stages), Range(stages))
    BY <1>1 DEF Surjection, Range
  <2>3. IsFiniteSet(Range(stages))
    BY <2>1, <2>2, FS_Surjection
  <2> QED BY <1>2, <2>3, FS_Subset
<1>5. \A s, t \in shown : <<s, t>> \in R <=> Precedes(stages, keys, s, t)
  OBVIOUS
<1>6. StagesOf(stages, keys) = list
  BY DEF StagesOf
<1> HIDE DEF shown, R
<1>7. /\ N \in Nat
      /\ list \in [1..N -> shown]
      /\ \A s \in shown : \E n \in 1..N : list[n] = s
      /\ \A m, n \in 1..N : m < n <=> <<list[m], list[n]>> \in R
  BY <1>3, <1>4, RankedLists
<1> HIDE DEF list, N
<1>8. DOMAIN list = 1..N
  BY <1>7
<1>9. list \in Seq(STRING)
  <2>1. \A n \in 1..N : list[n] \in STRING
    BY <1>2, <1>7
  <2>2. list = [n \in 1..N |-> list[n]]
    BY <1>7
  <2> QED BY <1>7, <2>1, <2>2
<1>10. Range(list) = shown
  BY <1>7, <1>8 DEF Range
<1>11. \A m, n \in DOMAIN list : m < n <=> Precedes(stages, keys, list[m], list[n])
  BY <1>5, <1>7, <1>8
<1> QED BY <1>6, <1>9, <1>10, <1>11 DEF shown

\* A list of all rows has each once.
LEMMA ArrivalPermutes ==
  ASSUME NEW n \in Nat, NEW a \in SetToSeqs(1..n)
  PROVE  /\ a \in [1..n -> 1..n]
         /\ \A i, j \in 1..n : a[i] = a[j] => i = j
         /\ \A m \in 1..n : \E i \in 1..n : a[i] = m
<1>1. IsFiniteSet(1..n) /\ Cardinality(1..n) = n
  BY FS_Interval
<1>2. a \in [1..n -> 1..n] /\ \A i, j \in 1..n : i # j => a[i] # a[j]
  BY <1>1 DEF SetToSeqs
<1>3. a \in Injection(1..n, 1..n)
  BY <1>2 DEF Injection, IsInjective
<1>4. a \in Surjection(1..n, 1..n)
  BY <1>1, <1>3, FS_Injection
<1> QED BY <1>2, <1>4 DEF Surjection

\* The list of stages does not depend on the order in which rows are read, if
\* their keys put them in the same order.
LEMMA SameOrderSameStages ==
  ASSUME NEW n \in Nat, NEW a \in SetToSeqs(1..n),
         NEW stages, NEW keys, NEW stages2, NEW keys2,
         DOMAIN stages = 1..n, DOMAIN stages2 = 1..n,
         \A i \in 1..n : stages2[i] = stages[a[i]],
         \A i, j \in 1..n : Before(keys2, i, j) <=> Before(keys, a[i], a[j])
  PROVE  StagesOf(stages2, keys2) = StagesOf(stages, keys)
<1>1. /\ a \in [1..n -> 1..n]
      /\ \A m \in 1..n : \E i \in 1..n : a[i] = m
  BY ArrivalPermutes
<1>2. Range(stages2) = Range(stages)
  BY <1>1 DEF Range
<1>3. ASSUME NEW s, NEW t
      PROVE  Precedes(stages2, keys2, s, t) <=> Precedes(stages, keys, s, t)
  <2>1. ASSUME Precedes(stages2, keys2, s, t) PROVE Precedes(stages, keys, s, t)
    <3>1. PICK i \in 1..n :
            stages2[i] = s /\ \A j \in 1..n : stages2[j] = t => Before(keys2, i, j)
      BY <2>1 DEF Precedes
    <3>2. a[i] \in 1..n /\ stages[a[i]] = s
      BY <1>1, <3>1
    <3>3. ASSUME NEW m \in 1..n, stages[m] = t PROVE Before(keys, a[i], m)
      <4>1. PICK j \in 1..n : a[j] = m
        BY <1>1
      <4> QED BY <3>1, <3>3, <4>1
    <3> QED BY <3>2, <3>3 DEF Precedes
  <2>2. ASSUME Precedes(stages, keys, s, t) PROVE Precedes(stages2, keys2, s, t)
    <3>1. PICK m \in 1..n :
            stages[m] = s /\ \A l \in 1..n : stages[l] = t => Before(keys, m, l)
      BY <2>2 DEF Precedes
    <3>2. PICK i \in 1..n : a[i] = m
      BY <1>1
    <3>3. ASSUME NEW j \in 1..n, stages2[j] = t PROVE Before(keys2, i, j)
      BY <1>1, <3>1, <3>2, <3>3
    <3> QED BY <3>1, <3>2, <3>3 DEF Precedes
  <2> QED BY <2>1, <2>2
<1> DEFINE shown == {s \in Range(stages) : s # NoText /\ ~IsTerminal(s)}
           shown2 == {s \in Range(stages2) : s # NoText /\ ~IsTerminal(s)}
           R == {p \in shown \X shown : Precedes(stages, keys, p[1], p[2])}
           R2 == {p \in shown2 \X shown2 : Precedes(stages2, keys2, p[1], p[2])}
<1>4. shown2 = shown
  BY <1>2
<1>5. R2 = R
  BY <1>3, <1>4
<1>6. StagesOf(stages, keys) = Ranked(shown, R) /\ StagesOf(stages2, keys2) = Ranked(shown2, R2)
  BY DEF StagesOf
<1> HIDE DEF shown, shown2, R, R2
<1> QED BY <1>4, <1>5, <1>6

\* The first column that has a value is the one that is read.
LEMMA CellRead ==
  ASSUME NEW cells, NEW columns, DOMAIN columns \subseteq Nat
  PROVE  /\ FirstCell(cells, columns) = NoNumber =>
              \A i \in DOMAIN columns : cells[columns[i]] = NoNumber
         /\ (\A i \in DOMAIN columns : cells[columns[i]] = NoNumber) =>
              FirstCell(cells, columns) = NoNumber
         /\ \A i \in DOMAIN columns :
              cells[columns[i]] # NoNumber
                /\ (\A j \in DOMAIN columns : j < i => cells[columns[j]] = NoNumber)
                => FirstCell(cells, columns) = cells[columns[i]]
<1> DEFINE given == {i \in DOMAIN columns : cells[columns[i]] # NoNumber}
           first == CHOOSE i \in given : \A j \in given : i <= j
<1>1. FirstCell(cells, columns) = IF given = {} THEN NoNumber ELSE cells[columns[first]]
  BY DEF FirstCell
<1>2. given # {} => first \in given /\ \A j \in given : first <= j
  <2> SUFFICES ASSUME given # {} PROVE first \in given /\ \A j \in given : first <= j
    OBVIOUS
  <2>1. \E i \in given : \A j \in given : i <= j
    BY Least
  <2> HIDE DEF given
  <2> QED BY <2>1
<1> HIDE DEF first
<1>3. ASSUME NEW i \in DOMAIN columns, cells[columns[i]] # NoNumber,
             \A j \in DOMAIN columns : j < i => cells[columns[j]] = NoNumber
      PROVE  FirstCell(cells, columns) = cells[columns[i]]
  <2>1. i \in given /\ first \in given /\ first <= i
    BY <1>2, <1>3
  <2>2. ~(first < i)
    BY <1>3, <2>1
  <2>3. first = i
    BY <2>1, <2>2
  <2> QED BY <1>1, <2>1, <2>3
<1> QED BY <1>1, <1>2, <1>3

\* A row that has a number to sort by in the file has that number in the table.
LEMMA KeysAgree ==
  ASSUME NEW rows \in Seq(SopRow), NEW i \in DOMAIN rows,
         rows[i].cells["sort_order"] # 0, MappingOrder(rows[i]) # NoNumber
  PROVE  RowOrder(SopRows(rows)[i]) = MappingOrder(rows[i])
<1> DEFINE cells == rows[i].cells
           number == FirstCell(cells, OrderColumns)
           ids == <<"ID", "sop_id", "id", "bianhao">>
<1>1. cells \in [SopColumns -> Nat]
  <2>1. rows[i] \in SopRow
    OBVIOUS
  <2> QED BY <2>1 DEF SopRow
<1>2. /\ SopRows(rows)[i].cells = cells
      /\ SopRows(rows)[i].sop_id =
           IF FirstCell(cells, ids) # NoNumber THEN FirstCell(cells, ids) ELSE i
  BY DEF SopRows
<1>3. [cells EXCEPT !["sort_order"] = IF @ = 0 THEN NoNumber ELSE @] = cells
  BY <1>1
<1>4. MappingOrder(rows[i]) = IF number # NoNumber THEN number ELSE cells["sop_id"]
  BY <1>3 DEF MappingOrder
<1>5. RowOrder(SopRows(rows)[i]) =
        IF number # NoNumber THEN number ELSE SopRows(rows)[i].sop_id
  BY <1>2 DEF RowOrder
<1>6. CASE number # NoNumber
  BY <1>4, <1>5, <1>6
<1>7. CASE number = NoNumber
  <2>1. \A k \in DOMAIN OrderColumns : cells[OrderColumns[k]] = NoNumber
    <3>1. DOMAIN OrderColumns \subseteq Nat
      BY DEF OrderColumns
    <3> QED BY <1>7, <3>1, CellRead
  <2>2. cells["ID"] = NoNumber
    <3>1. 2 \in DOMAIN OrderColumns /\ OrderColumns[2] = "ID"
      BY DEF OrderColumns
    <3> QED BY <2>1, <3>1
  <2>3. cells["sop_id"] # NoNumber
    BY <1>4, <1>7
  <2>4. /\ DOMAIN ids \subseteq Nat /\ 2 \in DOMAIN ids /\ ids[1] = "ID" /\ ids[2] = "sop_id"
        /\ \A j \in DOMAIN ids : j < 2 => j = 1
    OBVIOUS
  <2> HIDE DEF ids, cells
  <2>5. FirstCell(cells, ids) = cells[ids[2]]
    BY <2>2, <2>3, <2>4, CellRead
  <2> QED BY <1>2, <1>4, <1>5, <1>7, <2>3, <2>4, <2>5
<1> QED BY <1>6, <1>7

\* Rows that are not numbered are numbered by the import in the order of the file,
\* in which they are left without it.
LEMMA UnnumberedKeys ==
  ASSUME NEW rows, NEW i \in DOMAIN rows, rows[i].cells = Unnumbered
  PROVE  RowOrder(SopRows(rows)[i]) = i /\ MappingOrder(rows[i]) = NoNumber
<1> DEFINE ids == <<"ID", "sop_id", "id", "bianhao">>
<1>1. /\ DOMAIN ids \subseteq Nat /\ \A k \in DOMAIN ids : ids[k] \in SopColumns
      /\ DOMAIN OrderColumns \subseteq Nat
      /\ \A k \in DOMAIN OrderColumns : OrderColumns[k] \in SopColumns
  BY DEF OrderColumns, SopColumns
<1>2. \A c \in SopColumns : Unnumbered[c] = NoNumber
  BY DEF Unnumbered
<1>3. FirstCell(Unnumbered, ids) = NoNumber /\ FirstCell(Unnumbered, OrderColumns) = NoNumber
  <2> HIDE DEF ids
  <2> QED BY <1>1, <1>2, CellRead
<1>4. SopRows(rows)[i].cells = Unnumbered /\ SopRows(rows)[i].sop_id = i
  BY <1>3 DEF SopRows
<1>5. [Unnumbered EXCEPT !["sort_order"] = IF @ = 0 THEN NoNumber ELSE @] = Unnumbered
  <2>1. NoNumber # 0
    BY DEF NoNumber
  <2> QED BY <1>2, <2>1 DEF Unnumbered, SopColumns
<1>6. "sop_id" \in SopColumns
  BY DEF SopColumns
<1> QED BY <1>2, <1>3, <1>4, <1>5, <1>6 DEF RowOrder, MappingOrder

\* Rows that were imported from the file stand in the order they have there.
LEMMA AgreeWhenImported ==
  ASSUME TypeOK
  PROVE  StagesAgree
<1> DEFINE rows == RowsOfFiles("sop")
           n == Len(rows)
           Keyed == /\ \A i \in DOMAIN rows : /\ rows[i].cells["sort_order"] # 0
                                             /\ MappingOrder(rows[i]) # NoNumber
                    /\ \A i, j \in DOMAIN rows :
                         MappingOrder(rows[i]) = MappingOrder(rows[j]) => i = j
<1>1. rows \in Seq(SopRow)
  <2>1. Readable("sop", files["own"]["sop"]) /\ Readable("sop", files["example"]["sop"])
    BY DEF TypeOK, Kinds, Tables
  <2> QED BY <2>1 DEF RowsOfFiles, Readable
<1> HIDE DEF rows
<1>2. n \in Nat /\ DOMAIN rows = 1..n
  BY <1>1
<1> HIDE DEF n
<1> SUFFICES ASSUME sop = SopRows(rows),
                    (\A i \in DOMAIN rows : rows[i].cells = Unnumbered) \/ Keyed,
                    NEW a \in SetToSeqs(DOMAIN rows)
             PROVE  StageList(a) = StagesOfFiles
  BY DEF StagesAgree, rows
<1>3. /\ a \in [1..n -> 1..n]
      /\ \A i, j \in 1..n : a[i] = a[j] => i = j
  BY <1>2, ArrivalPermutes
<1> DEFINE stages == [i \in DOMAIN rows |-> rows[i].stage]
           keys == [i \in DOMAIN rows |-> MappingOrder(rows[i])]
           arrived == [i \in DOMAIN a |-> sop[a[i]]]
           stages2 == [i \in DOMAIN arrived |-> arrived[i].stage]
           keys2 == [i \in DOMAIN arrived |-> RowOrder(arrived[i])]
<1>4. \A m \in 1..n : sop[m].stage = rows[m].stage
  BY <1>2 DEF SopRows
<1>5. /\ DOMAIN stages = 1..n /\ DOMAIN stages2 = 1..n /\ DOMAIN keys = 1..n /\ DOMAIN keys2 = 1..n
      /\ \A i \in 1..n : /\ stages[i] = rows[i].stage
                         /\ stages2[i] = rows[a[i]].stage
                         /\ keys[i] = MappingOrder(rows[i])
                         /\ keys2[i] = RowOrder(SopRows(rows)[a[i]])
  BY <1>2, <1>3, <1>4
<1>6. StagesOfFiles = StagesOf(stages, keys)
  BY DEF StagesOfFiles, rows
<1>7. StageList(a) = IF StagesOf(stages2, keys2) # <<>> THEN StagesOf(stages2, keys2)
                     ELSE StagesOfFiles
  BY DEF StageList
<1> HIDE DEF stages, keys, stages2, keys2, arrived, Keyed
<1>8. ASSUME NEW i \in 1..n, NEW j \in 1..n
      PROVE  Before(keys2, i, j) <=> Before(keys, a[i], a[j])
  <2>1. /\ a[i] \in 1..n /\ a[j] \in 1..n /\ (a[i] = a[j] => i = j)
        /\ a[i] \in Nat /\ a[j] \in Nat /\ i \in Nat /\ j \in Nat
    BY <1>2, <1>3
  <2>2. CASE \A m \in DOMAIN rows : rows[m].cells = Unnumbered
    <3>1. keys2[i] = a[i] /\ keys2[j] = a[j]
      BY <1>2, <1>5, <2>1, <2>2, UnnumberedKeys
    <3>2. keys[a[i]] = NoNumber /\ keys[a[j]] = NoNumber
      BY <1>2, <1>5, <2>1, <2>2, UnnumberedKeys
    <3>3. NoNumber \in Nat
      BY DEF NoNumber
    <3> QED BY <2>1, <3>1, <3>2, <3>3 DEF Before
  <2>3. CASE Keyed
    <3> DEFINE k == MappingOrder(rows[a[i]])
               l == MappingOrder(rows[a[j]])
    <3>1. keys2[i] = k /\ keys2[j] = l
      BY <1>1, <1>2, <1>5, <2>1, <2>3, KeysAgree DEF Keyed
    <3>2. keys[a[i]] = k /\ keys[a[j]] = l
      BY <1>5, <2>1
    <3>3. k = l => a[i] = a[j]
      BY <1>2, <2>1, <2>3 DEF Keyed
    <3> HIDE DEF k, l
    <3> QED BY <2>1, <3>1, <3>2, <3>3 DEF Before
  <2> QED BY <2>2, <2>3
<1>9. StagesOf(stages2, keys2) = StagesOf(stages, keys)
  <2>1. a \in SetToSeqs(1..n)
    BY <1>2
  <2>2. \A i \in 1..n : stages2[i] = stages[a[i]]
    BY <1>3, <1>5
  <2> QED BY <1>2, <1>5, <1>8, <2>1, <2>2, SameOrderSameStages
<1> QED BY <1>6, <1>7, <1>9

-----------------------------------------------------------------------------

\* The vector of a sales case is that of its text, unless an index run went on
\* after another process had imported (VectorsFresh).
THEOREM VectorsAreFresh == Spec => []VectorsFresh
<1>1. IInv => VectorsFresh
  BY DEF IInv, Carried
<1> QED BY <1>1, IInvHolds, PTL

\* A server that serves has indexed every sales case, unless another process
\* imported since it listed them, or what the server ran was an automatic import
\* that failed with no seed after it (ServesIndexed).
THEOREM ServingIsIndexed == Spec => []ServesIndexed
<1>1. IInv => ServesIndexed
  BY DEF IInv, Carried
<1> QED BY <1>1, IInvHolds, PTL

\* No step takes the vector of a case whose text stays, or writes another over
\* it, but the commit of an import that read the row before the vector was there,
\* and the write of a process that was disturbed (KeptVectors).
THEOREM VectorsAreKept == Spec => KeptVectors
<1> DEFINE Kept ==
             \A id \in DOMAIN cases \cap DOMAIN cases', c \in Columns :
               cases[id].text = cases'[id].text
                 => \/ cases[id].vector[c] \in {NoText, cases'[id].vector[c]}
                    \/ overrun'
                    \/ \E p \in Processes : \E r \in reading[p] \ reading'[p] :
                         ~(id \in DOMAIN r.cases /\ r.cases[id] = cases[id])
<1>1. IInv /\ [Next]_vars => [Kept]_cases
  <2> SUFFICES ASSUME IInv, [Next]_vars, cases' # cases,
                      NEW id \in DOMAIN cases, id \in DOMAIN cases', NEW c \in Columns,
                      cases[id].text = cases'[id].text, ~overrun'
               PROVE  \/ cases[id].vector[c] \in {NoText, cases'[id].vector[c]}
                      \/ \E p \in Processes : \E r \in reading[p] \ reading'[p] :
                           ~(id \in DOMAIN r.cases /\ r.cases[id] = cases[id])
    OBVIOUS
  <2>1. PICK p \in Processes : Commit(p) \/ Write(p)
    BY DEF Next, Step, Read, CommitFails, ListCandidates, Check, Indexed, IndexFails, Start, Stop,
           Edit, FillRules, Search, Reviewed, Retrieved, Ask, database, vars
  <2>2. CASE Commit(p)
    <3>1. PICK r \in reading[p] :
            \A i \in DOMAIN cases' : cases'[i].vector = Reused(r.cases, i, cases'[i].text)
      BY <2>2, Commits DEF IInv
    <3>2. r \in reading[p] \ reading'[p]
      <4>1. reading = [q \in Processes |-> reading[q]]
        BY PartsHold DEF IInv, ProcessTypes
      <4> QED BY <2>2, <3>1, <4>1 DEF Commit
    <3>3. CASE id \in DOMAIN r.cases /\ r.cases[id] = cases[id]
      BY <3>1, <3>3 DEF Reused
    <3> QED BY <3>2, <3>3
  <2>3. CASE Write(p)
    <3>1. TypeOK /\ Listed(p) /\ VectorsFresh
      BY DEF IInv, Carried
    <3>2. PICK w \in writing[p] :
            /\ w.id \in DOMAIN cases
            /\ cases' = [cases EXCEPT ![w.id].vector[w.column] = w.text]
            /\ overrun' = (overrun \/ disturbed[p])
      BY <2>3, <3>1, Writes
    <3>3. w \in Vectors /\ phase[p] = "index"
      BY <3>1, PartsHold DEF ProcessTypes, ProcessType
    <3>4. /\ \A i \in DOMAIN cases \ {w.id} : cases'[i] = cases[i]
          /\ cases'[w.id].vector = [cases[w.id].vector EXCEPT ![w.column] = w.text]
      BY <3>1, <3>2, <3>3, CaseWritten
    <3>5. cases[w.id].text = w.text
      BY <3>1, <3>2, <3>3 DEF Listed
    <3>6. cases[id].vector[c] \in {NoText, cases[id].text}
      BY <3>1, <3>2 DEF VectorsFresh
    <3>7. CASE id # w.id
      BY <3>4, <3>7
    <3>8. CASE id = w.id
      <4>1. cases[id].vector \in [Columns -> Texts \cup {NoText}]
        <5>1. Stored(cases)
          BY <3>1 DEF TypeOK
        <5> QED BY <5>1 DEF Stored, Case
      <4>2. cases'[id].vector[c] \in {w.text, cases[id].vector[c]}
        BY <3>4, <3>8, <4>1
      <4> QED BY <3>5, <3>6, <3>8, <4>2
    <3> QED BY <3>7, <3>8
  <2> QED BY <2>1, <2>2, <2>3
<1> QED BY <1>1, IInvHolds, PTL DEF Spec, KeptVectors

\* No draft that a rule is similar to is passed: if any rule is, the best ranked
\* of them is among the TopK (RiskIsRevised).
THEOREM RisksAreRevised == Spec => RiskIsRevised
<1> DEFINE Safe == \A r \in Turns, up \in Answers :
                     up # {} /\ Reviewed(r, up) /\ query'[r].kind = "pass"
                       => \A i \in DOMAIN rules : rules[i].vector[Answering(up)] # query[r].text
<1>1. IInv => Safe
  <2> SUFFICES ASSUME IInv, NEW r \in Turns, NEW up \in Answers, up # {}, Reviewed(r, up),
                      NEW i \in DOMAIN rules,
                      rules[i].vector[Answering(up)] = query[r].text
               PROVE  query'[r].kind # "pass"
    OBVIOUS
  <2> DEFINE x == query[r].text
             V == RuleVectors(Answering(up))
             similar == {j \in DOMAIN V : V[j] = x}
  <2>1. x \in Texts /\ x # NoText
    BY TextAssumption DEF IInv, Asked, Reviewed
  <2>2. DOMAIN V \subseteq Nat /\ i \in similar
    <3>1. /\ DOMAIN V = {j \in DOMAIN rules : rules[j].vector[Answering(up)] # NoText}
          /\ \A j \in DOMAIN V : V[j] = rules[j].vector[Answering(up)]
      BY DEF RuleVectors
    <3>2. DOMAIN rules \subseteq Nat
      <4>1. rules \in Seq(Case)
        BY DEF IInv, TypeOK
      <4> QED BY <4>1
    <3> QED BY <2>1, <3>1, <3>2
  <2> HIDE DEF V
  <2>3. PICK m \in similar : \A j \in similar : m <= j
    BY <2>2, Least
  <2>4. {j \in DOMAIN V : RanksBefore(V, x, j, m)} = {}
    BY <2>2, <2>3 DEF RanksBefore
  <2>5. Cardinality({j \in DOMAIN V : RanksBefore(V, x, j, m)}) < TopK
    BY <2>4, FS_EmptySet, BoundAssumption
  <2>6. m \in Nearest(V, x)
    BY <2>5 DEF Nearest
  <2>7. query' = [query EXCEPT ![r].kind = "revise"]
    BY <2>6 DEF Reviewed, V
  <2> QED BY <2>7 DEF IInv, TypeOK
<1> QED BY <1>1, IInvHolds, PTL DEF Spec, RiskIsRevised

\* With the database or without it sessions see the same stages in the same
\* order, in whatever order the rows are returned, when each row has a number of
\* its own to sort by that both lists know, or none is numbered (StagesAgree,
\* list_sop_stages).
THEOREM StagesAlwaysAgree == Spec => []StagesAgree
<1> QED BY TypeCorrect, AgreeWhenImported, PTL
=============================================================================
