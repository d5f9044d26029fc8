------------------------------ MODULE Knowledge -----------------------------
(***************************************************************************)
(* The knowledge tables and their vectors: the import of the source files  *)
(* (app/knowledge/importer.py, app/sales_rag/importer.py), the start of    *)
(* the server and the seed script that run it, the stage list of           *)
(* loader.py, and the two searches by vector, for safety rules             *)
(* (safety_vector.py) and for sales cases (sales_rag/service.py).          *)
(*                                                                         *)
(* The server and the seed script are processes of their own over one      *)
(* database, which shows each statement what is committed by then.  An     *)
(* import is one transaction of two steps: it reads its files and the      *)
(* vectors there are, and then it replaces the rows.  The vectors of its   *)
(* sales cases are asked for afterwards, one by one, and each is checked   *)
(* and written in two steps.  A text stands for what is embedded, its      *)
(* vector is the text, and two texts are similar above the threshold if    *)
(* they are equal.  A row is what the properties tell apart of it: an id,  *)
(* a text, a stage; the rows of knowledge_skus and knowledge_faq are left  *)
(* out.  SALES_RAG_ENABLED is on: no case is indexed without it.           *)
(***************************************************************************)
EXTENDS Naturals, SequencesExt, FiniteSetsExt, Orders

CONSTANTS
  Server,      \* the process of app.main
  Scripts,     \* runs of the seed script, python -m app.demo_data
  Settings,    \* KNOWLEDGE_AUTO_IMPORT and DEMO_SEED_DATA, as the server may have them
  Providers,   \* the embedding providers in the order of the fallback
  TopK,        \* SAFETY_VECTOR_TOP_K and SALES_RAG_TOP_K
  Turns,       \* agents that search by vector
  Texts,       \* what is asked, drafted, forbidden
  FirstFiles,  \* the files at first
  NoFile,      \* what there is where no file is
  Edits,       \* what an operator may make of a file: <<kind, table, rows>>
  MaxEdits, MaxStarts, MaxQueries  \* bounds

Processes == {Server} \cup Scripts
Kinds == {"own", "example"}
Tables == {"skus", "sop", "faq", "safety_rules", "sales_cases"}
NoText == "no text"
Columns == Range(Providers)  \* the vector column of each provider
NoVectors == [c \in Columns |-> NoText]

\* The columns a row of the SOP file is numbered by, two of which have Chinese
\* headings; a number stands for the place of a value among those of its column,
\* 10^9 for no value, as in _sop_order_key.
SopColumns == {"sort_order", "ID", "id", "xuhao", "sop_id", "bianhao"}
NoNumber == 10^9
Unnumbered == [c \in SopColumns |-> NoNumber]

\* A line of the file of sales cases, one of the SOP file, and what the files
\* hold that the properties are about.
CaseRow == [case : Nat, text : Texts \cup {NoText}]
SopRow == [stage : STRING, cells : [SopColumns -> Nat]]
Readable(t, file) ==
  file # NoFile => /\ t = "sales_cases" => file \in Seq(CaseRow)
                   /\ t = "safety_rules" => file \in Seq(Texts)
                   /\ t = "sop" => file \in Seq(SopRow)

ASSUME ProvidersAssumption == Providers \in Seq(Columns)
ASSUME FilesAssumption ==
  /\ FirstFiles = [k \in Kinds |-> [t \in Tables |-> FirstFiles[k][t]]]
  /\ \A k \in Kinds, t \in Tables : Readable(t, FirstFiles[k][t])
  /\ \A e \in Edits : e[1] \in Kinds /\ e[2] \in Tables /\ Readable(e[2], e[3])
ASSUME ProcessAssumption == Server \notin Scripts
ASSUME SettingsAssumption == Settings \subseteq [auto : BOOLEAN, seed : BOOLEAN]
ASSUME TextAssumption == NoText \notin Texts
ASSUME BoundAssumption == TopK \in Nat \ {0} /\ {MaxEdits, MaxStarts, MaxQueries} \subseteq Nat

VARIABLES
  files,      \* the source files
  sop,        \* knowledge_sop
  rules,      \* knowledge_safety_rules in the order of rule_id
  cases,      \* sales_rag_chunks by chunk_id
  phase,      \* where each process is
  job,        \* the import it runs or ran last, if that did not fail
  seeds,      \* DEMO_SEED_DATA of its start
  reading,    \* the files and cases its import has read, until they are replaced
  todo,       \* the cases it has yet to ask a vector for, as it read them
  writing,    \* the vector that is written to a case that had none
  query,      \* the searches by vector
  \* what the properties speak about, and bounds
  disturbed,  \* another import was committed since the process read its todo
  overrun,    \* a vector was written by a process so disturbed
  edits, starts, queries

database == <<sop, rules, cases>>
start == <<job, seeds>>
indexing == <<todo, writing>>
bounds == <<edits, starts, queries>>
vars == <<files, database, phase, start, reading, indexing, query, disturbed, overrun, bounds>>

Case == [text : Texts, vector : [Columns -> Texts \cup {NoText}]]

-----------------------------------------------------------------------------
(* The import.                                                             *)

\* _first_existing: an own file before the example; the seed takes examples only.
KindOf(f, t, only) == IF only = "example" \/ f["own"][t] = NoFile THEN "example" ELSE "own"
Source(f, t, only) == f[KindOf(f, t, only)][t]

Repeats(s) == \E i, j \in DOMAIN s : i < j /\ s[i] = s[j]

\* The first of these columns that has a value.
FirstCell(cells, columns) ==
  LET given == {i \in DOMAIN columns : cells[columns[i]] # NoNumber}
  IN IF given = {} THEN NoNumber
     ELSE cells[columns[CHOOSE i \in given : \A j \in given : i <= j]]

\* _replace_sop: a row that is not numbered is given its position.
SopRows(rows) ==
  [i \in DOMAIN rows |->
     LET number == FirstCell(rows[i].cells, <<"ID", "sop_id", "id", "bianhao">>)
     IN [stage |-> rows[i].stage, cells |-> rows[i].cells,
         sop_id |-> IF number # NoNumber THEN number ELSE i]]

\* _replace_sop raises on a row without a stage and on a stage met before; the
\* primary key refuses a sop_id met before.
BadSop(rows) ==
  \/ \E i \in DOMAIN rows : rows[i].stage = NoText
  \/ Repeats([i \in DOMAIN rows |-> rows[i].stage])
  \/ Repeats([i \in DOMAIN rows |-> SopRows(rows)[i].sop_id])

\* _replace_faq raises on an entry without an answer.
BadFaq(rows) == \E i \in DOMAIN rows : rows[i] = NoText

\* load_sales_case_csv raises on a file without cases, a case without its texts,
\* and a case_id met before.
BadCases(rows) ==
  \/ rows = <<>>
  \/ \E i \in DOMAIN rows : rows[i].text = NoText
  \/ Repeats([i \in DOMAIN rows |-> rows[i].case])

\* _replace_skus: only the primary key refuses a row.
BadSkus(rows) == Repeats(rows)

\* _replace_safety_rules: a row takes the place of the one at its position,
\* whose vector columns stay; an empty file replaces nothing.
ReplaceSafetyRules(rows) ==
  IF rows = <<>> THEN rules
  ELSE [i \in DOMAIN rows |->
          [text |-> rows[i], vector |-> IF i \in DOMAIN rules THEN rules[i].vector ELSE NoVectors]]

\* Mutant of Reused: the chunk_id is taken to tell the text.
ReusedById(old, id, text) == IF id \in DOMAIN old THEN old[id].vector ELSE NoVectors

\* Mutant of Reused: no vector outlives its row.
ReusedNever(old, id, text) == NoVectors

\* The vectors of a case whose text an import does not change, as it read them.
Reused(old, id, text) ==
  IF id \in DOMAIN old /\ old[id].text = text THEN old[id].vector ELSE NoVectors

\* replace_sales_cases: the chunk_id is that of the file and the case.
ReplaceSalesCases(old, kind, rows) ==
  LET textOf == [id \in {<<kind, rows[i].case>> : i \in DOMAIN rows} |->
                   rows[CHOOSE i \in DOMAIN rows : rows[i].case = id[2]].text]
  IN [id \in DOMAIN textOf |-> [text |-> textOf[id], vector |-> Reused(old, id, textOf[id])]]

\* What import_knowledge_sources commits of the files f and the cases old it read.
ReplaceTables(f, old, only) ==
  LET source(t) == Source(f, t, only)
  IN /\ sop' = IF source("sop") = NoFile THEN sop ELSE SopRows(source("sop"))
     /\ rules' = IF source("safety_rules") = NoFile
                 THEN rules ELSE ReplaceSafetyRules(source("safety_rules"))
     /\ cases' = IF source("sales_cases") = NoFile THEN cases
                 ELSE ReplaceSalesCases(old, KindOf(f, "sales_cases", only), source("sales_cases"))

\* A file is refused.
Raises(f, only) ==
  LET bad(t, Test(_)) == Source(f, t, only) # NoFile /\ Test(Source(f, t, only))
  IN \/ bad("skus", BadSkus) \/ bad("sop", BadSop)
     \/ bad("faq", BadFaq) \/ bad("sales_cases", BadCases)

\* Which files the import of a process reads.
Only(p) == IF job[p] = "seed" THEN "example" ELSE "own"

\* app.main goes on to its seed, if it has one to run, and then serves; the
\* script ends.
GoesOn(p, ended) ==
  IF job[p] = "auto" /\ seeds[p]
  THEN /\ job' = [job EXCEPT ![p] = "seed"]
       /\ phase' = [phase EXCEPT ![p] = "import"]
  ELSE /\ job' = [job EXCEPT ![p] = ended]
       /\ phase' = [phase EXCEPT ![p] = IF p = Server THEN "up" ELSE "down"]

\* Mutant of Failed: a failed seed does not stop the server.
FailedButServes(p) ==
  /\ GoesOn(p, IF job[p] = "auto" THEN "none" ELSE job[p])
  /\ UNCHANGED seeds

\* An exception of the import: app.main logs that of the automatic import and
\* goes on; that of the seed ends the process.
Failed(p) ==
  /\ IF job[p] = "auto" THEN GoesOn(p, "none")
     ELSE phase' = [phase EXCEPT ![p] = "down"] /\ UNCHANGED job
  /\ UNCHANGED seeds

\* import_knowledge_sources up to the vectors that replace_sales_cases reads.  An
\* import waits for the rows another one is deleting, so that two are not under
\* way at once; where there are no rows yet, the keys refuse the later one.
Read(p) ==
  /\ phase[p] = "import"
  /\ \A q \in Processes : phase[q] # "replace"
  /\ IF Raises(files, Only(p))
     THEN Failed(p) /\ UNCHANGED reading
     ELSE /\ phase' = [phase EXCEPT ![p] = "replace"]
          /\ reading' = [reading EXCEPT ![p] = {[files |-> files, cases |-> cases]}]
          /\ UNCHANGED start
  /\ UNCHANGED <<files, database, indexing, query, disturbed, overrun, bounds>>

\* The rows are deleted and added anew, and committed.
Commit(p) ==
  /\ phase[p] = "replace"
  /\ \E r \in reading[p] : ReplaceTables(r.files, r.cases, Only(p))
  /\ phase' = [phase EXCEPT ![p] = "list"]
  /\ reading' = [reading EXCEPT ![p] = {}]
  /\ disturbed' = [q \in Processes |-> q # p \/ disturbed[q]]
  /\ UNCHANGED <<files, start, indexing, query, overrun, bounds>>

\* The database refuses a statement, or its connection breaks.
CommitFails(p) ==
  /\ phase[p] = "replace"
  /\ Failed(p)
  /\ reading' = [reading EXCEPT ![p] = {}]
  /\ UNCHANGED <<files, database, indexing, query, disturbed, overrun, bounds>>

HasVector(row) == row.vector # NoVectors

\* index_sales_case_embeddings reads the cases without a vector.
ListCandidates(p) ==
  /\ phase[p] = "list"
  /\ todo' = [todo EXCEPT ![p] = {[id |-> id, text |-> cases[id].text] :
                                    id \in {i \in DOMAIN cases : ~HasVector(cases[i])}}]
  /\ disturbed' = [disturbed EXCEPT ![p] = FALSE]
  /\ phase' = [phase EXCEPT ![p] = "index"]
  /\ UNCHANGED <<files, database, start, reading, writing, query, overrun, bounds>>

\* HttpEmbeddingClient.embed: each provider answers or raises, which is the same
\* for a missing key, a timeout, a status, or an answer of another shape.
Answers == SUBSET Columns

\* FallbackEmbeddingClient.embed: the first provider that answers.
FirstAnswer(up) == CHOOSE i \in DOMAIN Providers :
  Providers[i] \in up /\ \A j \in DOMAIN Providers : Providers[j] \in up => i <= j

Answering(up) == Providers[FirstAnswer(up)]

Lacking(c) == c.id \in DOMAIN cases /\ ~HasVector(cases[c.id])

\* Mutant of Check: a case that needs no vector any more is asked for again.
CheckSameAgain(p) ==
  /\ phase[p] = "index" /\ writing[p] = {}
  /\ \E c \in todo[p], up \in Answers :
       /\ up # {}
       /\ todo' = IF Lacking(c) THEN [todo EXCEPT ![p] = @ \ {c}] ELSE todo
       /\ writing' = IF ~Lacking(c) THEN writing
                     ELSE [writing EXCEPT ![p] =
                             {[id |-> c.id, text |-> c.text, column |-> Answering(up)]}]
  /\ UNCHANGED <<files, database, phase, start, reading, query, disturbed, overrun, bounds>>

\* The vector of one case arrives: it is to be written if the row is still there
\* and still has none.
Check(p) ==
  /\ phase[p] = "index" /\ writing[p] = {}
  /\ \E c \in todo[p], up \in Answers :
       /\ up # {}
       /\ todo' = [todo EXCEPT ![p] = @ \ {c}]
       /\ writing' = IF ~Lacking(c) THEN writing
                     ELSE [writing EXCEPT ![p] =
                             {[id |-> c.id, text |-> c.text, column |-> Answering(up)]}]
  /\ UNCHANGED <<files, database, phase, start, reading, query, disturbed, overrun, bounds>>

\* It is written to the row of that id, whatever that holds by now; where there is
\* none, the session raises StaleDataError.
Write(p) ==
  /\ \E w \in writing[p] :
       IF w.id \in DOMAIN cases
       THEN /\ cases' = [cases EXCEPT ![w.id].vector[w.column] = w.text]
            /\ overrun' = (overrun \/ disturbed[p])
            /\ UNCHANGED <<phase, start, todo>>
       ELSE /\ Failed(p)
            /\ todo' = [todo EXCEPT ![p] = {}]
            /\ UNCHANGED <<cases, overrun>>
  /\ writing' = [writing EXCEPT ![p] = {}]
  /\ UNCHANGED <<files, sop, rules, reading, query, disturbed, bounds>>

\* The import raises after its commit: no provider answers, or the row is deleted
\* by an import that the write waits for.
IndexFails(p) ==
  /\ phase[p] = "index"
  /\ todo[p] # {} \/ writing[p] # {}
  /\ Failed(p)
  /\ todo' = [todo EXCEPT ![p] = {}] /\ writing' = [writing EXCEPT ![p] = {}]
  /\ UNCHANGED <<files, database, reading, query, disturbed, overrun, bounds>>

\* The import is over.
Indexed(p) ==
  /\ phase[p] = "index"
  /\ todo[p] = {} /\ writing[p] = {}
  /\ GoesOn(p, job[p])
  /\ UNCHANGED <<files, database, seeds, reading, indexing, query, disturbed, overrun, bounds>>

-----------------------------------------------------------------------------
(* Processes and operators.                                                *)

\* app.main or app.demo_data is started; without an import the server serves.
Start(p) ==
  /\ phase[p] = "down"
  /\ starts < MaxStarts
  /\ starts' = starts + 1
  /\ \E set \in IF p = Server THEN Settings ELSE {[auto |-> FALSE, seed |-> TRUE]} :
       /\ seeds' = [seeds EXCEPT ![p] = set.seed]
       /\ job' = [job EXCEPT ![p] = IF set.auto THEN "auto" ELSE IF set.seed THEN "seed" ELSE "none"]
       /\ phase' = [phase EXCEPT ![p] = IF set.auto \/ set.seed THEN "import" ELSE "up"]
  /\ UNCHANGED <<files, database, reading, indexing, query, disturbed, overrun, edits, queries>>

NoQuery == [kind |-> "none", text |-> NoText]

\* A process is stopped or crashes; its transaction is rolled back and its searches
\* are lost.
Stop(p) ==
  /\ phase[p] # "down"
  /\ phase' = [phase EXCEPT ![p] = "down"]
  /\ reading' = [reading EXCEPT ![p] = {}]
  /\ todo' = [todo EXCEPT ![p] = {}] /\ writing' = [writing EXCEPT ![p] = {}]
  /\ query' = IF p = Server THEN [r \in Turns |-> NoQuery] ELSE query
  /\ UNCHANGED <<files, database, start, disturbed, overrun, bounds>>

\* Somebody edits a source file.
Edit ==
  /\ edits < MaxEdits
  /\ edits' = edits + 1
  /\ \E e \in Edits : files' = [files EXCEPT ![e[1]][e[2]] = e[3]]
  /\ UNCHANGED <<database, phase, start, reading, indexing, query, disturbed, overrun, starts, queries>>

\* The vectors of the safety rules come from outside the repository, a column
\* at a time.
FillRules(c) ==
  /\ \E i \in DOMAIN rules : rules[i].vector[c] # rules[i].text
  /\ rules' = [i \in DOMAIN rules |-> [rules[i] EXCEPT !.vector[c] = rules[i].text]]
  /\ UNCHANGED <<files, sop, cases, phase, start, reading, indexing, query, disturbed, overrun, bounds>>

-----------------------------------------------------------------------------
(* The searches.                                                           *)

\* Mutant of RanksBefore: the rows are cut in the order of the table.
RanksBeforeUnsorted(vectors, text, i, j) == i < j

\* The order of the matches: the similar ones first.
RanksBefore(vectors, text, i, j) ==
  \/ vectors[i] = text /\ vectors[j] # text
  \/ (vectors[i] = text <=> vectors[j] = text) /\ i < j

\* _match_rules, _match_chunks: the TopK most similar rows that have a vector;
\* those similar enough are left.
Nearest(vectors, text) ==
  {i \in DOMAIN vectors :
     /\ Cardinality({j \in DOMAIN vectors : RanksBefore(vectors, text, j, i)}) < TopK
     /\ vectors[i] = text}

\* The vectors of one provider's column.
RuleVectors(c) ==
  [i \in {i \in DOMAIN rules : rules[i].vector[c] # NoText} |-> rules[i].vector[c]]

CaseVectors(c) ==
  [id \in {id \in DOMAIN cases : cases[id].vector[c] # NoText} |-> cases[id].vector[c]]

\* _has_vector_source: some row has a vector in some column.
HasVectorSource(kind) ==
  IF kind = "review" THEN \E i \in DOMAIN rules : HasVector(rules[i])
  ELSE \E id \in DOMAIN cases : HasVector(cases[id])

\* review of a draft, retrieve of a message: it ends at once without vectors.
Ask(r, kind, text) ==
  /\ phase[Server] = "up"
  /\ query[r].kind \notin {"review", "retrieve"}
  /\ queries < MaxQueries
  /\ queries' = queries + 1
  /\ query' = [query EXCEPT ![r] =
                 [kind |-> IF HasVectorSource(kind) THEN kind
                           ELSE IF kind = "review" THEN "pass" ELSE "no cases",
                  text |-> text]]
  /\ UNCHANGED <<files, database, phase, start, reading, indexing, disturbed, overrun, edits, starts>>

\* review goes on with the answer of a provider, in that provider's column.
Reviewed(r, up) ==
  /\ query[r].kind = "review"
  /\ query' = [query EXCEPT ![r].kind =
                 IF up = {} THEN "error"
                 ELSE IF Nearest(RuleVectors(Answering(up)), query[r].text) # {}
                      THEN "revise" ELSE "pass"]
  /\ UNCHANGED <<files, database, phase, start, reading, indexing, disturbed, overrun, bounds>>

\* retrieve goes on; without an answer, or with that of a provider whose column
\* is empty, it finds no cases.
Retrieved(r, up) ==
  /\ query[r].kind = "retrieve"
  /\ query' = [query EXCEPT ![r].kind =
                 IF up # {} /\ DOMAIN CaseVectors(Answering(up)) # {}
                 THEN "cases" ELSE "no cases"]
  /\ UNCHANGED <<files, database, phase, start, reading, indexing, disturbed, overrun, bounds>>

-----------------------------------------------------------------------------
(* The stages of the sales process.                                        *)

\* _is_terminal_sop_stage.
IsTerminal(stage) == stage \in {"handover", "closed"}

OrderColumns == <<"sort_order", "ID", "id", "xuhao">>

\* Mutant of RowOrder: the sop_id is not a number to sort by.
RowOrderOfRaw(row) == FirstCell(row.cells, OrderColumns)

\* _sop_row_order: what numbers the row in the file, or else the sop_id.
RowOrder(row) ==
  LET number == FirstCell(row.cells, OrderColumns)
  IN IF number # NoNumber THEN number ELSE row.sop_id

\* _sop_mapping_order, of a row as _load_csv returns it: a sort_order is made an
\* int, of which 0 counts as no value.
MappingOrder(row) ==
  LET number == FirstCell([row.cells EXCEPT !["sort_order"] = IF @ = 0 THEN NoNumber ELSE @],
                          OrderColumns)
  IN IF number # NoNumber THEN number ELSE row.cells["sop_id"]

\* Rows sorted by these keys, those with the same key as they come.
Before(keys, i, j) == keys[i] < keys[j] \/ (keys[i] = keys[j] /\ i < j)

\* A stage is listed where its first row is.
Precedes(stages, keys, s, t) ==
  \E i \in DOMAIN stages :
    stages[i] = s /\ \A j \in DOMAIN stages : stages[j] = t => Before(keys, i, j)

\* sorted by these keys, then _dedupe_sop_stages.
StagesOf(stages, keys) ==
  LET shown == {s \in Range(stages) : s # NoText /\ ~IsTerminal(s)}
  IN Ranked(shown, {p \in shown \X shown : Precedes(stages, keys, p[1], p[2])})

\* _load_csv of the own file, or else of the example.
RowsOfFiles(t) ==
  IF files["own"][t] \notin {NoFile, <<>>} THEN files["own"][t]
  ELSE IF files["example"][t] # NoFile THEN files["example"][t] ELSE <<>>

StagesOfFiles ==
  LET rows == RowsOfFiles("sop")
  IN StagesOf([i \in DOMAIN rows |-> rows[i].stage], [i \in DOMAIN rows |-> MappingOrder(rows[i])])

\* list_sop_stages: the database returns the rows in any order, and the files
\* stand in for a table without stages.
StageList(arrival) ==
  LET rows == [i \in DOMAIN arrival |-> sop[arrival[i]]]
      stages == StagesOf([i \in DOMAIN rows |-> rows[i].stage],
                         [i \in DOMAIN rows |-> RowOrder(rows[i])])
  IN IF stages # <<>> THEN stages ELSE StagesOfFiles

-----------------------------------------------------------------------------

Init ==
  /\ files = FirstFiles
  /\ sop = <<>> /\ rules = <<>> /\ cases = [id \in {} |-> 0]
  /\ phase = [p \in Processes |-> "down"]
  /\ job = [p \in Processes |-> "none"] /\ seeds = [p \in Processes |-> FALSE]
  /\ reading = [p \in Processes |-> {}]
  /\ todo = [p \in Processes |-> {}] /\ writing = [p \in Processes |-> {}]
  /\ query = [r \in Turns |-> NoQuery]
  /\ disturbed = [p \in Processes |-> FALSE] /\ overrun = FALSE
  /\ edits = 0 /\ starts = 0 /\ queries = 0

Step(p) == Read(p) \/ Commit(p) \/ ListCandidates(p) \/ Check(p) \/ Write(p) \/ Indexed(p)

Search(r) == \E up \in Answers : Reviewed(r, up) \/ Retrieved(r, up)

Next ==
  \/ \E p \in Processes : Step(p) \/ CommitFails(p) \/ IndexFails(p) \/ Start(p) \/ Stop(p)
  \/ Edit
  \/ \E c \in Columns : FillRules(c)
  \/ \E r \in Turns : Search(r)
  \/ \E r \in Turns, k \in {"review", "retrieve"}, x \in Texts : Ask(r, k, x)

\* A process goes on by itself; its requests to providers are answered or time
\* out, and need not fail.
Spec == Init /\ [][Next]_vars /\ \A p \in Processes : WF_vars(Step(p))

-----------------------------------------------------------------------------
(* Properties.                                                             *)

\* Rows of cases.
Stored(table) == table \in [DOMAIN table -> Case] /\ DOMAIN table \subseteq Kinds \X Nat

\* Every part of the state is one the code can hold; a process replaces rows by
\* files that none was refused of, has cases to index only while it indexes, and
\* searches are under way only while the server serves.
TypeOK ==
  /\ files = [k \in Kinds |-> [t \in Tables |-> files[k][t]]]
  /\ \A k \in Kinds, t \in Tables : Readable(t, files[k][t])
  /\ rules \in Seq(Case)
  /\ Stored(cases)
  /\ phase \in [Processes -> {"down", "import", "replace", "list", "index", "up"}]
  /\ job \in [Processes -> {"auto", "seed", "none"}] /\ seeds \in [Processes -> BOOLEAN]
  /\ reading = [p \in Processes |-> reading[p]]
  /\ \A p \in Processes : \A r \in reading[p] :
       /\ phase[p] = "replace" /\ Stored(r.cases) /\ ~Raises(r.files, Only(p))
       /\ \A k \in Kinds, t \in Tables : Readable(t, r.files[k][t])
  /\ todo \in [Processes -> SUBSET [id : Kinds \X Nat, text : Texts]]
  /\ writing \in [Processes -> SUBSET [id : Kinds \X Nat, text : Texts, column : Columns]]
  /\ \A p \in Processes : todo[p] # {} \/ writing[p] # {} => phase[p] = "index"
  /\ query \in [Turns -> [kind : {"none", "review", "retrieve", "pass", "revise", "error",
                                  "cases", "no cases"}, text : Texts \cup {NoText}]]
  /\ \A r \in Turns : query[r].kind \in {"review", "retrieve"} => phase[Server] = "up"
  /\ disturbed \in [Processes -> BOOLEAN] /\ overrun \in BOOLEAN
  /\ {edits, starts, queries} \subseteq Nat

\* However files are edited and imported anew, and wherever a process is stopped,
\* the vector of a sales case is that of its text, unless one import was
\* committed while another process was indexing.
VectorsFresh ==
  overrun \/ \A id \in DOMAIN cases, c \in Columns :
               cases[id].vector[c] \in {NoText, cases[id].text}

\* A case whose text changes is indexed anew, as the comment in
\* replace_sales_cases has it: no case keeps the vector of another text.
TextIsReindexed ==
  \A id \in DOMAIN cases, c \in Columns : cases[id].vector[c] \in {NoText, cases[id].text}

\* No vector of a case whose text stays is taken or written over, but by an import
\* that read the row before the vector was there, or by a process that was
\* disturbed.  (replace_sales_cases, index_sales_case_embeddings)
KeptVectors ==
  [][\A id \in DOMAIN cases \cap DOMAIN cases', c \in Columns :
       cases[id].text = cases'[id].text
         => \/ cases[id].vector[c] \in {NoText, cases'[id].vector[c]}
            \/ overrun'
            \/ \E p \in Processes : \E r \in reading[p] \ reading'[p] :
                 ~(id \in DOMAIN r.cases /\ r.cases[id] = cases[id])]_cases

\* A server that serves has a vector for every sales case, unless another
\* process imported since it listed them: an index run that broke off ends the
\* start, but for that of the automatic import with no seed after it, which
\* leaves a server that serves what there is.
ServesIndexed ==
  phase[Server] = "up" /\ job[Server] # "none" /\ ~disturbed[Server]
    => \A id \in DOMAIN cases : HasVector(cases[id])

\* When the table holds what the SOP file has, sessions see the same stages in
\* the same order with the database and without it, whatever order the rows are
\* returned in: if every row has a number to sort by that no other has, by the
\* columns that both lists know, or no row is numbered at all.  (list_sop_stages)
StagesAgree ==
  LET rows == RowsOfFiles("sop") IN
    /\ sop = SopRows(rows)
    /\ \/ \A i \in DOMAIN rows : rows[i].cells = Unnumbered
       \/ /\ \A i \in DOMAIN rows : /\ rows[i].cells["sort_order"] # 0
                                   /\ MappingOrder(rows[i]) # NoNumber
          /\ \A i, j \in DOMAIN rows : MappingOrder(rows[i]) = MappingOrder(rows[j]) => i = j
    => \A arrival \in SetToSeqs(DOMAIN rows) : StageList(arrival) = StagesOfFiles

\* A draft that some rule is similar to, by the column of the provider that
\* answered, is never passed: TopK hides no risk.
RiskIsRevised ==
  [][\A r \in Turns, up \in Answers :
       up # {} /\ Reviewed(r, up) /\ query'[r].kind = "pass"
         => \A i \in DOMAIN rules : rules[i].vector[Answering(up)] # query[r].text]_vars

\* Every start comes to an end: the server serves, or the process is gone.
StartsEnd ==
  \A p \in Processes : phase[p] \in {"import", "replace", "list", "index"} ~> phase[p] \in {"up", "down"}

=============================================================================
