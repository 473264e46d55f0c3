----------------------------- MODULE DataImports -----------------------------
(***************************************************************************)
(* The data workbench of one local: files of member employment are staged, *)
(* mapped, reviewed row by row and published (lib/data-workbench/service.ts*)
(* behind api/data/imports).  What is published are people, known by their *)
(* member number, and who each of them reports to.                         *)
(*                                                                         *)
(* Every request is one transaction at READ COMMITTED.  A publication locks*)
(* its dataset and its run, and reads the rest without a lock; the other   *)
(* requests read without a lock and write what they read.  A person holds  *)
(* one position here.                                                      *)
(***************************************************************************)
EXTENDS Naturals, FiniteSets

CONSTANTS
  People,        \* member numbers
  Nobody,
  Sheets,        \* contents of files: sets of rows
  Uploads,       \* data_import_runs
  Datasets,
  Requesters,    \* publications in flight
  MaxMapping,    \* bound on the mapping's versions
  MaxDecisions   \* bound on the requests that decide

(* A row names a person, perhaps a supervisor, and is dated: it holds now,
   before the assignment that is current, or with an end. *)
FileRows == [line : Nat, who : People, boss : People \cup {Nobody},
             dated : {"now", "past", "ended"}]

(* A row of a file is known by its line. *)
ASSUME ImportAssumption ==
  /\ IsFiniteSet(People) /\ Nobody \notin People /\ "unassigned" \notin People
  /\ MaxMapping \in Nat \ {0} /\ MaxDecisions \in Nat
  /\ Sheets \subseteq SUBSET FileRows
  /\ \A rows \in Sheets : \A r, x \in rows : r.line = x.line => r = x

VARIABLES
  dataset,     \* [Datasets]: mapping and its version
  upload,      \* [Uploads]: the run
  verdict,     \* [Uploads]: what was decided about the rows of the run
  known,       \* people with an identifier
  reportsTo,   \* [People]: the assignment without an end
  task,        \* [Requesters]: what a publication has read
  crossed,     \* history: publications of two datasets were open at once
  edited,      \* history: a publication overlapped a change of its run
  again,       \* history: a row was published a second time
  output,      \* history: <<run, line, mapping>> of each row published
  decisions    \* bound on decisions

importVars == <<dataset, upload, verdict, known, reportsTo, task, crossed, edited,
                again, output, decisions>>

(* Whether the column of the supervisor is mapped *)
Mappings == {"supervisors", "names"}
NoUpload == [status |-> "none", of |-> "none", rows |-> {}, mapping |-> "names",
             version |-> 0]
NoTask == [at |-> "idle"]

ImportInit ==
  /\ dataset = [d \in Datasets |-> [mapping |-> "supervisors", version |-> 1]]
  /\ upload = [u \in Uploads |-> NoUpload]
  /\ verdict = [u \in Uploads |-> <<>>]
  /\ known = {}
  /\ reportsTo = [p \in People |-> "unassigned"]
  /\ task = [q \in Requesters |-> NoTask]
  /\ crossed = FALSE /\ edited = FALSE /\ again = FALSE
  /\ output = {}
  /\ decisions = 0

OpenPublications == {q \in Requesters : task[q] # NoTask}
LockedDataset(d) == \E q \in OpenPublications : upload[task[q].upload].of = d
Locked(u) == LockedDataset(upload[u].of)

EndTask(q) == task' = [task EXCEPT ![q] = NoTask]

(* data_import_replay_idx *)
Replayed(d, rows, version) ==
  \E u \in Uploads : upload[u].of = d /\ upload[u].rows = rows /\ upload[u].version = version

-----------------------------------------------------------------------------
(* Upload, mapping and decisions. *)

(* createImportRun: the route read the dataset before it stored the file.  The
   foreign key waits for a publication of the dataset. *)
CreateImportRun(u, d, rows, version, mapping) ==
  /\ upload[u].status = "none"
  /\ ~LockedDataset(d)
  /\ version = dataset[d].version => mapping = dataset[d].mapping
  /\ ~Replayed(d, rows, version)
  /\ upload' = [upload EXCEPT ![u] = [status |-> "review", of |-> d, rows |-> rows,
                                      mapping |-> mapping, version |-> version]]
  /\ verdict' = [verdict EXCEPT ![u] = [r \in rows |-> "pending"]]
  /\ UNCHANGED <<dataset, known, reportsTo, task, crossed, edited, again, output, decisions>>

(* The other two requests read first and write later.  Each is one step here,
   its write: what it read is what an earlier state held, and the history notes
   whether a publication came in between. *)
Overlaps(u) == \E q \in OpenPublications : task[q].upload = u

(* saveImportMapping: read when the run was in review. *)
SaveImportMapping(u, mapping, version) ==
  LET d == upload[u].of IN
    /\ upload[u].status # "none"
    /\ version \in 2..dataset[d].version + 1 /\ version <= MaxMapping
    /\ ~Locked(u)
    /\ upload[u].version = version \/ ~Replayed(d, upload[u].rows, version)
    /\ upload' = [upload EXCEPT ![u].mapping = mapping, ![u].version = version]
    /\ dataset' = [dataset EXCEPT ![d] = [mapping |-> mapping, version |-> version]]
    /\ edited' = (edited \/ Overlaps(u) \/ upload[u].status # "review")
    /\ UNCHANGED <<verdict, known, reportsTo, task, crossed, again, output, decisions>>

(* setImportDecisions: read when none of the rows was published. *)
SetImportDecisions(u, rows, decision) ==
  /\ upload[u].status # "none"
  /\ rows # {} /\ rows \subseteq upload[u].rows
  /\ decisions < MaxDecisions
  /\ decisions' = decisions + 1
  /\ verdict' = [verdict EXCEPT ![u] =
       [r \in DOMAIN @ |-> IF r \in rows THEN decision ELSE @[r]]]
  /\ edited' = (edited \/ Overlaps(u) \/ upload[u].status = "published"
                       \/ \E r \in rows : verdict[u][r] = "published")
  /\ UNCHANGED <<dataset, upload, known, reportsTo, task, crossed, again, output>>

-----------------------------------------------------------------------------
(* Publication. *)

BossUnder(r, mapping) == IF mapping = "supervisors" THEN r.boss ELSE Nobody

(* hasPath over the current assignments and the new ones *)
Reaches(E, a, b) ==
  \A S \in SUBSET People :
    a \in S /\ (\A e \in E : e[1] \in S => e[2] \in S) => b \in S

NewEdges(R, m) == {<<r.who, BossUnder(r, m)>> : r \in {x \in R : BossUnder(x, m) # Nobody}}
CurrentEdges == {<<p, reportsTo[p]>> : p \in {x \in People : reportsTo[x] \in People}}

(* Only the rows of this file are followed. *)
CyclicInFile(R, m) ==
  {r \in R : BossUnder(r, m) # Nobody /\ Reaches(NewEdges(R, m), BossUnder(r, m), r.who)}

Cyclic(R, m) ==
  {r \in R : /\ BossUnder(r, m) # Nobody
             /\ Reaches(CurrentEdges \cup NewEdges(R, m), BossUnder(r, m), r.who)}

(* A supervisor is known or published in the same run: what remains when rows
   whose supervisor is held are held in turn. *)
Grounded(R, m) ==
  UNION {S \in SUBSET R : \A r \in S :
           BossUnder(r, m) \in {Nobody} \cup known \cup {x.who : x \in S}}

(* Accepted rows whose number stands once, whose supervisor is known or among
   them, that close no circle, and whose supervisor is not held itself *)
Eligible(u, m) ==
  LET accepted == {r \in upload[u].rows : verdict[u][r] = "accept"}
      single   == {r \in accepted : \A x \in accepted : x.who = r.who => x = r}
      resolved == {r \in single :
                     BossUnder(r, m) \in {Nobody} \cup known \cup {x.who : x \in single}}
  IN  Grounded(resolved \ Cyclic(resolved, m), m)

(* The rows are selected without a lock on dataset and run. *)
MayOpenUnlocked(u) == TRUE

MayOpen(u) == ~Locked(u)

(* getImport has read the run, and then its dataset, at some time before: the
   mapping may be an earlier one, and so may the dataset's version, which the
   run's has to equal when both are locked.  Everything else that decides which
   rows are published is read now. *)
OpenPublication(q, u, mapping, version) ==
  /\ task[q] = NoTask
  /\ MayOpen(u)
  /\ upload[u].status \in {"review", "partially_published"}
  /\ version <= dataset[upload[u].of].version
  /\ upload[u].version = version
  /\ mapping # upload[u].mapping => version > 1
  /\ LET rows == Eligible(u, mapping) IN
    /\ rows # {}
    /\ task' = [task EXCEPT ![q] =
         [at |-> "open", upload |-> u, mapping |-> mapping, rows |-> rows,
          back |-> {r \in upload[u].rows : verdict[u][r] = "accept"} \ rows,
          pending |-> \E r \in upload[u].rows : verdict[u][r] = "pending",
          newcomers |-> {r.who : r \in rows} \ known]]
  /\ crossed' = (crossed \/ \E o \in OpenPublications :
                    upload[task[o].upload].of # upload[u].of)
  /\ edited' = (edited \/ mapping # upload[u].mapping)
  /\ UNCHANGED <<dataset, upload, verdict, known, reportsTo, again, output, decisions>>

(* The position's assignment: an absent supervisor keeps the one before, a row
   dated before the current assignment is history, an end leaves none. *)
Assigned(before, r, m) ==
  CASE r.dated = "ended" -> "unassigned"
    [] r.dated = "past" /\ before # "unassigned" -> before
    [] BossUnder(r, m) # Nobody -> BossUnder(r, m)
    [] OTHER -> IF before = "unassigned" THEN Nobody ELSE before

(* Everything is written and committed.  A number somebody else created breaks
   the unique index. *)
CommitPublication(q) ==
  LET t == task[q]
      RowOf(p) == CHOOSE r \in t.rows : r.who = p IN
    /\ q \in OpenPublications
    /\ t.newcomers \cap known = {}
    /\ known' = known \cup t.newcomers
    /\ reportsTo' = [p \in People |->
         IF \E r \in t.rows : r.who = p THEN Assigned(reportsTo[p], RowOf(p), t.mapping)
         ELSE reportsTo[p]]
    /\ verdict' = [verdict EXCEPT ![t.upload] =
         [r \in DOMAIN @ |-> IF r \in t.rows THEN "published"
                             ELSE IF r \in t.back THEN "pending" ELSE @[r]]]
    /\ upload' = [upload EXCEPT ![t.upload].status =
         IF t.back = {} /\ ~t.pending THEN "published" ELSE "partially_published"]
    /\ again' = (again \/ \E r \in t.rows, x \in output : x[1] = t.upload /\ x[2] = r.line)
    /\ output' = output \cup {<<t.upload, r.line, t.mapping>> : r \in t.rows}
    /\ EndTask(q)
    /\ UNCHANGED <<dataset, crossed, edited, decisions>>

(* A refusal, an error or the end of the process: the transaction is undone,
   the rows it returned to review included. *)
AbandonPublication(q) ==
  /\ q \in OpenPublications
  /\ EndTask(q)
  /\ UNCHANGED <<dataset, upload, verdict, known, reportsTo, crossed, edited, again, output, decisions>>

ImportNext ==
  \/ \E u \in Uploads, d \in Datasets, rows \in Sheets, m \in Mappings :
       \E v \in 1..dataset[d].version : CreateImportRun(u, d, rows, v, m)
  \/ \E u \in Uploads :
       \/ \E m \in Mappings, v \in 1..MaxMapping : SaveImportMapping(u, m, v)
       \/ \E rows \in SUBSET upload[u].rows, v \in {"accept", "exclude"} :
            SetImportDecisions(u, rows, v)
  \/ \E q \in Requesters :
       \/ \E u \in Uploads, m \in Mappings, v \in 1..MaxMapping : OpenPublication(q, u, m, v)
       \/ CommitPublication(q) \/ AbandonPublication(q)

ImportSpec == ImportInit /\ [][ImportNext]_importVars

-----------------------------------------------------------------------------
ImportTypeOK ==
  /\ dataset \in [Datasets -> [mapping : Mappings, version : 1..MaxMapping]]
  /\ \A u \in Uploads :
       /\ upload[u].status \in {"none", "review", "partially_published", "published"}
       /\ upload[u].mapping \in Mappings /\ upload[u].rows \subseteq FileRows
       /\ DOMAIN verdict[u] = upload[u].rows
       /\ \A r \in upload[u].rows :
            verdict[u][r] \in {"pending", "accept", "exclude", "published"}
  /\ known \subseteq People
  /\ reportsTo \in [People -> People \cup {Nobody, "unassigned"}]
  /\ crossed \in BOOLEAN /\ edited \in BOOLEAN /\ again \in BOOLEAN

(* Nobody is reached by going up from themselves. *)
NoCircle == \A S \in (SUBSET People) \ {{}} : \E p \in S : reportsTo[p] \notin S

(* All of a run is published under the mapping the run still records. *)
OneMapping == \A x \in output : x[3] = upload[x[1]].mapping

(* Going up the reporting lines ends, with people who exist, whatever files
   come in which order, are mapped anew, published in parts or by two officers
   at once; only publications of two datasets of the local, which lock nothing
   in common, may close a circle between them.  No row is published twice and no
   run under two mappings, unless a change of the run's mapping or of its
   decisions was read before a publication of it and written after, or came in
   between its reads.  service.ts:285, 349-395. *)
PublishedLinesAreSound ==
  /\ \A p \in People : reportsTo[p] \in known \cup {Nobody, "unassigned"}
  /\ ~crossed => NoCircle
  /\ ~edited => ~again /\ OneMapping

=============================================================================
