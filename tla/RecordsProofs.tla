---------------------------- MODULE RecordsProofs ----------------------------
(***************************************************************************)
(* Proofs about Records, for any number of handlers that run at the same   *)
(* time, of records, tokens and writes.                                    *)
(***************************************************************************)
EXTENDS Records, TLAPS

(***************************************************************************)
(* What the calls of the storage do to the ids of a table.                 *)
(***************************************************************************)

\* Without removes one row.
LEMMA WithoutRow ==
  ASSUME NEW S, NEW table \in Seq(S), UniqueIds(table), NEW id, Has(table, id)
  PROVE  /\ Without(table, id) \in Seq(S) /\ UniqueIds(Without(table, id))
         /\ Ids(Without(table, id)) = Ids(table) \ {id}
<1> DEFINE k == RowAt(table, id)
           n == Len(table)
           new == Without(table, id)
<1>1. k \in DOMAIN table /\ table[k].id = id
  BY Zenon DEF Has, Ids, RowAt
<1>2. n \in Nat /\ DOMAIN table = 1..n /\ \A i \in 1..n : table[i] \in S
  OBVIOUS
<1>3. new = [i \in 1..(n - 1) |-> table[IF i < k THEN i ELSE i + 1]]
  BY Zenon DEF Without
<1> HIDE DEF k, n, new
<1>4. \A i \in 1..(n - 1) : (IF i < k THEN i ELSE i + 1) \in 1..n
  BY <1>2
<1>5. new \in Seq(S) /\ DOMAIN new = 1..(n - 1)
  <2>1. n - 1 \in Nat
    BY <1>1, <1>2
  <2>2. QED BY <1>2, <1>3, <1>4, <2>1
<1>6. \A i \in 1..(n - 1) : new[i] = table[IF i < k THEN i ELSE i + 1]
  BY <1>3, Zenon
<1>7. UniqueIds(new)
  <2> SUFFICES ASSUME NEW i \in 1..(n - 1), NEW j \in 1..(n - 1), new[i].id = new[j].id
               PROVE  i = j
    BY <1>5, Zenon DEF UniqueIds
  <2>1. PICK a \in 1..n : a = (IF i < k THEN i ELSE i + 1) /\ new[i] = table[a]
    BY <1>4, <1>6, Zenon
  <2>2. PICK b \in 1..n : b = (IF j < k THEN j ELSE j + 1) /\ new[j] = table[b]
    BY <1>4, <1>6, Zenon
  <2>3. a = b
    BY <1>2, <2>1, <2>2, Zenon DEF UniqueIds
  <2>4. QED BY <1>1, <1>2, <2>1, <2>2, <2>3
<1>8. \A i \in 1..(n - 1) : new[i].id \in Ids(table) \ {id}
  <2> SUFFICES ASSUME NEW i \in 1..(n - 1) PROVE new[i].id \in Ids(table) \ {id}
    BY Zenon
  <2> DEFINE j == IF i < k THEN i ELSE i + 1
  <2>1. j \in 1..n /\ j # k /\ new[i] = table[j]
    BY <1>1, <1>2, <1>4, <1>6
  <2> HIDE DEF j
  <2>2. QED BY <1>1, <1>2, <2>1, Zenon DEF UniqueIds, Ids
<1>9. \A j \in 1..n : table[j].id # id => \E i \in 1..(n - 1) : new[i] = table[j]
  <2> SUFFICES ASSUME NEW j \in 1..n, table[j].id # id PROVE \E i \in 1..(n - 1) : new[i] = table[j]
    BY Zenon
  <2> DEFINE i == IF j < k THEN j ELSE j - 1
  <2>1. i \in 1..(n - 1) /\ j = IF i < k THEN i ELSE i + 1
    BY <1>1, <1>2
  <2>2. new[i] = table[j]
    BY <1>6, <2>1, Zenon
  <2>3. QED BY <2>1, <2>2, Zenon
<1>10. Ids(new) = Ids(table) \ {id}
  <2>1. ASSUME NEW x \in Ids(new) PROVE x \in Ids(table) \ {id}
    BY <1>5, <1>8, Zenon DEF Ids
  <2>2. ASSUME NEW x \in Ids(table), x # id PROVE x \in Ids(new)
    <3>1. PICK j \in 1..n : x = table[j].id
      BY <1>2, Zenon DEF Ids
    <3>2. PICK i \in 1..(n - 1) : new[i] = table[j]
      BY <1>9, <2>2, <3>1, Zenon
    <3>3. QED BY <1>5, <3>1, <3>2, Zenon DEF Ids
  <2>3. QED BY <2>1, <2>2, Zenon
<1>11. QED BY <1>5, <1>7, <1>10, Zenon DEF new

\* Append adds one row.
LEMMA AppendRow ==
  ASSUME NEW S, NEW table \in Seq(S), UniqueIds(table), NEW row \in S, ~Has(table, row.id)
  PROVE  /\ Append(table, row) \in Seq(S) /\ UniqueIds(Append(table, row))
         /\ Ids(Append(table, row)) = Ids(table) \cup {row.id}
<1> DEFINE n == Len(table)
           new == Append(table, row)
<1>1. /\ n \in Nat /\ DOMAIN table = 1..n /\ new \in Seq(S) /\ DOMAIN new = 1..(n + 1)
      /\ new[n + 1] = row /\ \A i \in 1..n : new[i] = table[i]
  OBVIOUS
<1> HIDE DEF n, new
<1>2. \A i \in 1..(n + 1) : i \in 1..n \/ i = n + 1
  BY <1>1
<1>3. \A i \in 1..n : i \in 1..(n + 1) /\ i # n + 1
  BY <1>1
<1>a. n + 1 \in 1..(n + 1)
  BY <1>1
<1>4. \A i \in 1..n : table[i].id # row.id
  BY <1>1, Zenon DEF Has, Ids
<1>5. UniqueIds(new)
  BY <1>1, <1>2, <1>4, Zenon DEF UniqueIds
<1>6. Ids(new) = Ids(table) \cup {row.id}
  BY <1>1, <1>2, <1>3, <1>a, Zenon DEF Ids
<1>7. QED BY <1>1, <1>5, <1>6, Zenon DEF new

\* Save leaves a table with the rows it had and the one that is saved.
LEMMA SavedRow ==
  ASSUME NEW S, NEW table \in Seq(S), UniqueIds(table), NEW row \in S, NEW new \in Save(table, row)
  PROVE  new \in Seq(S) /\ UniqueIds(new) /\ Ids(new) = Ids(table) \cup {row.id}
<1>1. CASE ~Has(table, row.id)
  <2>1. new = Append(table, row)
    BY <1>1, Zenon DEF Save, Update, Create
  <2>2. /\ Append(table, row) \in Seq(S) /\ UniqueIds(Append(table, row))
        /\ Ids(Append(table, row)) = Ids(table) \cup {row.id}
    BY <1>1, AppendRow, Zenon
  <2>3. QED BY <2>1, <2>2, Zenon
<1>2. CASE Has(table, row.id) /\ new = Append(Without(table, row.id), row)
  <2>1. /\ Without(table, row.id) \in Seq(S) /\ UniqueIds(Without(table, row.id))
        /\ Ids(Without(table, row.id)) = Ids(table) \ {row.id}
    BY <1>2, WithoutRow, Zenon
  <2>2. ~Has(Without(table, row.id), row.id)
    BY <2>1, Zenon DEF Has
  <2>3. \A rest \in Seq(S) : UniqueIds(rest) /\ ~Has(rest, row.id) =>
          /\ Append(rest, row) \in Seq(S) /\ UniqueIds(Append(rest, row))
          /\ Ids(Append(rest, row)) = Ids(rest) \cup {row.id}
    BY AppendRow, Zenon
  <2>4. /\ new \in Seq(S) /\ UniqueIds(new)
        /\ Ids(new) = Ids(Without(table, row.id)) \cup {row.id}
    BY <1>2, <2>1, <2>2, <2>3, Zenon
  <2>5. QED BY <1>2, <2>1, <2>4, Zenon DEF Has
<1>3. CASE /\ Has(table, row.id)
           /\ new = [i \in DOMAIN table |-> IF table[i].id = row.id THEN row ELSE table[i]]
  <2>1. new \in Seq(S) /\ DOMAIN new = DOMAIN table
    BY <1>3
  <2>2. ASSUME NEW i \in DOMAIN table PROVE new[i].id = table[i].id
    <3>1. new[i] = IF table[i].id = row.id THEN row ELSE table[i]
      BY <1>3, Zenon
    <3>2. QED BY <3>1, Zenon
  <2>3. UniqueIds(new)
    BY <2>1, <2>2, Zenon DEF UniqueIds
  <2>a. Ids(new) = Ids(table)
    BY <2>1, <2>2, Zenon DEF Ids
  <2>4. QED BY <1>3, <2>1, <2>3, <2>a, Zenon DEF Has
<1>4. QED BY <1>1, <1>2, <1>3, Zenon DEF Save, Update, Create

-----------------------------------------------------------------------------
(***************************************************************************)
(* The invariant: what a handler has yet to do is of its type, and a       *)
(* record that it counted and has yet to save is there, or was removed     *)
(* meanwhile.                                                              *)
(***************************************************************************)
Task ==
  {Idle} \cup [pc : {"saveService"}, row : [id : Services]]
         \cup [pc : {"saveCertificate"}, row : Rows]
         \cup [pc : {"authorize", "delete"}, row : [id : Certificates, token : Tokens]]

Saves(w, pc, id) == work[w].pc = pc /\ work[w].row.id = id

Counted ==
  \A w \in Workers : \A id :
    /\ Saves(w, "saveService", id) => id \in used /\ id \in cloud_service \cup overlapped
    /\ Saves(w, "saveCertificate", id) => id \in Ids(certificate) \cup overlapped

HandlersOK == work \in [Workers -> Task] /\ "pc" \in DOMAIN listing

RecordsInv == TypeOK /\ HandlersOK /\ Counted /\ RevivedOnlyByOverlap /\ TargetsHaveParents

\* A task has one of the program counters; to save a certificate, it holds a row.
LEMMA TaskRow ==
  /\ Idle \in Task /\ Idle.pc = "idle"
  /\ \A t \in Task : t.pc \in {"idle", "saveService", "saveCertificate", "authorize", "delete"}
  /\ \A t \in Task : t.pc = "saveCertificate" => t.row \in Rows /\ t.row.id \in Certificates
  /\ \A t \in Task : t.pc = "saveService" => t.row.id \in Services
  /\ \A t \in Task : t.pc = "authorize" => [t EXCEPT !.pc = "delete"] \in Task
BY DEF Task, Idle, Rows

\* What a step that gives a worker another task does.
LEMMA NewTask ==
  ASSUME HandlersOK, NEW w \in Workers, NEW t \in Task, work' = [work EXCEPT ![w] = t]
  PROVE  /\ work' \in [Workers -> Task] /\ work'[w] = t
         /\ \A v \in Workers : v # w => work'[v] = work[v]
BY Zenon DEF HandlersOK

\* Catalogs and targets of evaluation.
LEMMA CatalogSteps ==
  ASSUME RecordsInv, NEW w \in Workers,
         \/ CreateCatalog(w) \/ UpdateCatalog(w) \/ RemoveCatalog(w)
         \/ \E token \in Tokens :
              \/ CreateTargetOfEvaluation(w, token) \/ UpdateTargetOfEvaluation(w, token)
              \/ RemoveTargetOfEvaluation(w, token)
  PROVE  RecordsInv'
<1> DEFINE CatalogOK == DOMAIN catalog \subseteq Catalogs /\ \A k \in DOMAIN catalog : catalog[k] \in Levels
           ToeOK == DOMAIN toe \subseteq Services \X Catalogs /\ \A t \in DOMAIN toe : toe[t] \in Levels
<1>1. ASSUME writes' \in 0..MaxWrites, CatalogOK', ToeOK', TargetsHaveParents',
             UNCHANGED <<cloud_service, used, certificate, work, listing, overlapped, revived>>
      PROVE  RecordsInv'
  <2>1. TypeOK'
    BY <1>1, Zenon DEF RecordsInv, TypeOK
  <2>2. HandlersOK' /\ Counted' /\ RevivedOnlyByOverlap'
    BY <1>1, Zenon DEF RecordsInv, HandlersOK, Counted, Saves, RevivedOnlyByOverlap
  <2>3. QED BY <1>1, <2>1, <2>2, Zenon DEF RecordsInv
<1>2. CatalogOK /\ ToeOK /\ TargetsHaveParents /\ cloud_service \subseteq Services
  BY Zenon DEF RecordsInv, TypeOK
<1>3. ASSUME Counts PROVE writes' \in 0..MaxWrites
  BY <1>3, RecordsAssumption DEF Counts, RecordsInv, TypeOK
<1>4. CASE CreateCatalog(w)
  BY <1>1, <1>2, <1>3, <1>4, Zenon DEF CreateCatalog, TargetsHaveParents, Levels, Added
<1>5. CASE UpdateCatalog(w)
  BY <1>1, <1>2, <1>3, <1>5, Zenon DEF UpdateCatalog, TargetsHaveParents, Levels
<1>6. CASE RemoveCatalog(w)
  BY <1>1, <1>2, <1>3, <1>6, Zenon DEF RemoveCatalog, TargetsHaveParents, Levels, Omit
<1>7. ASSUME NEW token \in Tokens, CreateTargetOfEvaluation(w, token) PROVE RecordsInv'
  BY <1>1, <1>2, <1>3, <1>7, Zenon DEF CreateTargetOfEvaluation, TargetsHaveParents, Levels, Added
<1>8. ASSUME NEW token \in Tokens, UpdateTargetOfEvaluation(w, token) PROVE RecordsInv'
  BY <1>1, <1>2, <1>3, <1>8, Zenon DEF UpdateTargetOfEvaluation, TargetsHaveParents, Levels
<1>9. ASSUME NEW token \in Tokens, RemoveTargetOfEvaluation(w, token) PROVE RecordsInv'
  BY <1>1, <1>2, <1>3, <1>9 DEF RemoveTargetOfEvaluation, TargetsHaveParents, Levels, Omit
<1>10. QED BY <1>4, <1>5, <1>6, <1>7, <1>8, <1>9, Zenon

\* A handler begins or goes on, and leaves the tables alone.
LEMMA TaskSteps ==
  ASSUME RecordsInv, NEW w \in Workers,
         \/ CheckAuthorization(w)
         \/ \E token \in Tokens :
              UpdateCloudService(w, token) \/ UpdateCertificate(w, token) \/ RemoveCertificate(w, token)
  PROVE  RecordsInv'
<1>1. ASSUME NEW t \in Task, work' = [work EXCEPT ![w] = t], writes' \in 0..MaxWrites,
             UNCHANGED <<tables, listing, overlapped, revived>>,
             \A id : /\ t.pc = "saveService" /\ t.row.id = id => id \in used /\ id \in cloud_service
                     /\ t.pc = "saveCertificate" /\ t.row.id = id => id \in Ids(certificate)
      PROVE  RecordsInv'
  <2>1. /\ work' \in [Workers -> Task] /\ work'[w] = t
        /\ \A v \in Workers : v # w => work'[v] = work[v]
    BY <1>1, NewTask, Zenon DEF RecordsInv
  <2>2. Counted'
    BY <1>1, <2>1, Zenon DEF RecordsInv, Counted, Saves, tables
  <2>3. \A v \in Workers : work'[v].pc \in {"idle", "saveService", "saveCertificate", "authorize", "delete"}
    BY <2>1, TaskRow, Zenon
  <2>4. TypeOK'
    BY <1>1, <2>3, Zenon DEF RecordsInv, TypeOK, tables
  <2>5. HandlersOK' /\ RevivedOnlyByOverlap' /\ TargetsHaveParents'
    BY <1>1, <2>1, Zenon DEF RecordsInv, HandlersOK, RevivedOnlyByOverlap, TargetsHaveParents, tables
  <2>6. QED BY <2>2, <2>4, <2>5, Zenon DEF RecordsInv
<1>2. ASSUME Counts PROVE writes' \in 0..MaxWrites
  BY <1>2, RecordsAssumption DEF Counts, RecordsInv, TypeOK
<1>3. ASSUME NEW token \in Tokens, UpdateCloudService(w, token) PROVE RecordsInv'
  <2>1. PICK s \in cloud_service : Begins(w, "saveService", [id |-> s])
    BY <1>3, Zenon DEF UpdateCloudService
  <2>2. s \in used /\ s \in Services
    BY Zenon DEF RecordsInv, TypeOK
  <2> DEFINE t == [pc |-> "saveService", row |-> [id |-> s]]
  <2>3. t \in Task /\ t.pc = "saveService" /\ t.row.id = s
    BY <2>2, Zenon DEF Task
  <2>4. Counts /\ work' = [work EXCEPT ![w] = t] /\ UNCHANGED <<tables, listing, overlapped, revived>>
    BY <1>3, <2>1, Zenon DEF UpdateCloudService, Begins
  <2> HIDE DEF t
  <2>5. t.pc # "saveCertificate"
    BY <2>3, Zenon
  <2>6. QED BY <1>1, <1>2, <2>2, <2>3, <2>4, <2>5, Zenon
<1>4. ASSUME NEW token \in Tokens, UpdateCertificate(w, token) PROVE RecordsInv'
  <2>1. PICK row \in Rows : Has(certificate, row.id) /\ Begins(w, "saveCertificate", row)
    BY <1>4, Zenon DEF UpdateCertificate
  <2> DEFINE t == [pc |-> "saveCertificate", row |-> row]
  <2>2. t \in Task /\ t.pc = "saveCertificate" /\ t.row = row
    BY Zenon DEF Task
  <2>3. Counts /\ work' = [work EXCEPT ![w] = t] /\ UNCHANGED <<tables, listing, overlapped, revived>>
    BY <1>4, <2>1, Zenon DEF UpdateCertificate, Begins
  <2> HIDE DEF t
  <2>4. t.pc # "saveService"
    BY <2>2, Zenon
  <2>5. QED BY <1>1, <1>2, <2>1, <2>2, <2>3, <2>4, Zenon DEF Has
<1>5. ASSUME NEW token \in Tokens, RemoveCertificate(w, token) PROVE RecordsInv'
  <2>1. PICK id \in Ids(certificate) : Begins(w, "authorize", [id |-> id, token |-> token])
    BY <1>5, Zenon DEF RemoveCertificate
  <2>2. id \in Certificates
    <3>1. \A i \in DOMAIN certificate : certificate[i] \in Rows
      BY DEF RecordsInv, TypeOK
    <3>2. \A row \in Rows : row.id \in Certificates
      BY Zenon DEF Rows
    <3>3. QED BY <3>1, <3>2, Zenon DEF Ids
  <2> DEFINE t == [pc |-> "authorize", row |-> [id |-> id, token |-> token]]
  <2>3. t \in Task /\ t.pc = "authorize"
    BY <2>2, Zenon DEF Task
  <2>4. Counts /\ work' = [work EXCEPT ![w] = t] /\ UNCHANGED <<tables, listing, overlapped, revived>>
    BY <1>5, <2>1, Zenon DEF RemoveCertificate, Begins
  <2> HIDE DEF t
  <2>5. t.pc # "saveService" /\ t.pc # "saveCertificate"
    BY <2>3, Zenon
  <2>6. QED BY <1>1, <1>2, <2>3, <2>4, <2>5, Zenon
<1>6. CASE CheckAuthorization(w)
  <2>1. work[w] \in Task /\ work[w].pc = "authorize"
    BY <1>6, Zenon DEF CheckAuthorization, RecordsInv, HandlersOK
  <2>2. [work[w] EXCEPT !.pc = "delete"] \in Task /\ [work[w] EXCEPT !.pc = "delete"].pc = "delete"
    BY <2>1 DEF Task, Idle
  <2>3. PICK t \in {Idle, [work[w] EXCEPT !.pc = "delete"]} : work' = [work EXCEPT ![w] = t]
    BY <1>6, Zenon DEF CheckAuthorization
  <2>4. t \in Task /\ t.pc \in {"idle", "delete"}
    BY <2>2, <2>3, TaskRow, Zenon
  <2>5. writes' \in 0..MaxWrites /\ UNCHANGED <<tables, listing, overlapped, revived>>
    BY <1>6, Zenon DEF CheckAuthorization, RecordsInv, TypeOK
  <2>6. t.pc # "saveService" /\ t.pc # "saveCertificate"
    BY <2>4, Zenon
  <2>7. QED BY <1>1, <2>3, <2>4, <2>5, <2>6, Zenon
<1>7. QED BY <1>3, <1>4, <1>5, <1>6, Zenon

\* The table of cloud services changes.
LEMMA ServiceSteps ==
  ASSUME RecordsInv, NEW w \in Workers,
         \/ RegisterCloudService(w) \/ SaveCloudService(w)
         \/ \E token \in Tokens : RemoveCloudService(w, token)
  PROVE  RecordsInv'
<1>1. ASSUME writes' \in 0..MaxWrites, UNCHANGED <<catalog, toe, certificate, listing>>,
             used' \subseteq Services, cloud_service' \subseteq used',
             work' \in [Workers -> Task], Counted', RevivedOnlyByOverlap', TargetsHaveParents'
      PROVE  RecordsInv'
  <2>1. \A v \in Workers : work'[v].pc \in {"idle", "saveService", "saveCertificate", "authorize", "delete"}
    BY <1>1, TaskRow, Zenon
  <2>2. TypeOK'
    BY <1>1, <2>1, Zenon DEF RecordsInv, TypeOK
  <2>3. HandlersOK'
    BY <1>1, Zenon DEF RecordsInv, HandlersOK
  <2>4. QED BY <1>1, <2>2, <2>3, Zenon DEF RecordsInv
<1>2. ASSUME Counts PROVE writes' \in 0..MaxWrites
  BY <1>2, RecordsAssumption DEF Counts, RecordsInv, TypeOK
<1>3. /\ used \subseteq Services /\ cloud_service \subseteq used /\ work \in [Workers -> Task]
      /\ Counted /\ revived \subseteq overlapped /\ writes \in 0..MaxWrites
      /\ \A t \in DOMAIN toe : t[1] \in cloud_service /\ t[2] \in DOMAIN catalog
  BY Zenon DEF RecordsInv, TypeOK, HandlersOK, RevivedOnlyByOverlap, TargetsHaveParents
<1>4. CASE RegisterCloudService(w)
  <2>1. PICK s \in Services \ used : cloud_service' = cloud_service \cup {s} /\ used' = used \cup {s}
    BY <1>4, Zenon DEF RegisterCloudService
  <2>2. Counts /\ UNCHANGED <<catalog, toe, certificate, work, listing, overlapped, revived>>
    BY <1>4, Zenon DEF RegisterCloudService
  <2>3. Counted'
    BY <1>3, <2>1, <2>2, Zenon DEF Counted, Saves
  <2>4. RevivedOnlyByOverlap' /\ TargetsHaveParents'
    BY <1>3, <2>1, <2>2, Zenon DEF RevivedOnlyByOverlap, TargetsHaveParents
  <2>5. QED BY <1>1, <1>2, <1>3, <2>1, <2>2, <2>3, <2>4, Zenon
<1>5. CASE SaveCloudService(w)
  <2>1. /\ work[w].pc = "saveService" /\ cloud_service' = cloud_service \cup {work[w].row.id}
        /\ revived' = revived \cup ({work[w].row.id} \ cloud_service)
        /\ work' = [work EXCEPT ![w] = Idle]
        /\ UNCHANGED <<used, catalog, toe, certificate, writes, listing, overlapped>>
    BY <1>5, Zenon DEF SaveCloudService, Ends
  <2>2. work[w].row.id \in used /\ work[w].row.id \in cloud_service \cup overlapped
    BY <1>3, <2>1, Zenon DEF Counted, Saves
  <2>3. /\ work' \in [Workers -> Task] /\ work'[w].pc = "idle"
        /\ \A v \in Workers : v # w => work'[v] = work[v]
    BY <2>1, NewTask, TaskRow, Zenon DEF RecordsInv
  <2>4. Counted'
    BY <1>3, <2>1, <2>3, Zenon DEF Counted, Saves
  <2>5. RevivedOnlyByOverlap' /\ TargetsHaveParents'
    BY <1>3, <2>1, <2>2, Zenon DEF RevivedOnlyByOverlap, TargetsHaveParents
  <2>6. QED BY <1>1, <1>3, <2>1, <2>2, <2>3, <2>4, <2>5, Zenon
<1>6. ASSUME NEW token \in Tokens, RemoveCloudService(w, token) PROVE RecordsInv'
  <2>1. PICK s \in cloud_service :
          /\ ~Referenced(s) /\ cloud_service' = cloud_service \ {s}
          /\ overlapped' = overlapped \cup Overlapped(w, "saveService", s)
    BY <1>6, Zenon DEF RemoveCloudService
  <2>2. Counts /\ work[w] = Idle /\ UNCHANGED <<used, catalog, toe, certificate, work, listing, revived>>
    BY <1>6, Zenon DEF RemoveCloudService
  <2>3. \A v \in Workers : Saves(v, "saveService", s) => s \in overlapped'
    <3>1. work[w].pc # "saveService"
      BY <2>2, TaskRow, Zenon
    <3>2. QED BY <2>1, <3>1, Zenon DEF Overlapped, Saves
  <2>4. Counted'
    <3> SUFFICES ASSUME NEW v \in Workers, NEW id
                 PROVE  /\ Saves(v, "saveService", id)' => id \in used' /\ id \in cloud_service' \cup overlapped'
                        /\ Saves(v, "saveCertificate", id)' => id \in Ids(certificate)' \cup overlapped'
      BY Zenon DEF Counted
    <3>1. CASE id = s
      BY <1>3, <2>1, <2>2, <2>3, <3>1, Zenon DEF Counted, Saves
    <3>2. CASE id # s
      BY <1>3, <2>1, <2>2, <3>2, Zenon DEF Counted, Saves
    <3>3. QED BY <3>1, <3>2, Zenon
  <2>5. TargetsHaveParents'
    BY <1>3, <2>1, <2>2, Zenon DEF Referenced, TargetsHaveParents
  <2>6. RevivedOnlyByOverlap'
    BY <1>3, <2>1, <2>2, Zenon DEF RevivedOnlyByOverlap
  <2>7. cloud_service' \subseteq used'
    BY <1>3, <2>1, <2>2, Zenon
  <2>8. QED BY <1>1, <1>2, <1>3, <2>2, <2>4, <2>5, <2>6, <2>7, Zenon
<1>7. QED BY <1>4, <1>5, <1>6, Zenon

\* The table of certificates changes.
LEMMA CertificateSteps ==
  ASSUME RecordsInv, NEW w \in Workers,
         \/ SaveCertificate(w) \/ DeleteCertificate(w)
         \/ \E token \in Tokens : CreateCertificate(w, token)
  PROVE  RecordsInv'
<1>1. ASSUME writes' \in 0..MaxWrites, UNCHANGED <<cloud_service, used, catalog, toe>>,
             certificate' \in Seq(Rows), UniqueIds(certificate'), listing'.pc = listing.pc,
             "pc" \in DOMAIN listing', work' \in [Workers -> Task], Counted', RevivedOnlyByOverlap'
      PROVE  RecordsInv'
  <2>1. \A v \in Workers : work'[v].pc \in {"idle", "saveService", "saveCertificate", "authorize", "delete"}
    BY <1>1, TaskRow, Zenon
  <2>2. TypeOK'
    BY <1>1, <2>1, Zenon DEF RecordsInv, TypeOK
  <2>3. HandlersOK' /\ TargetsHaveParents'
    BY <1>1, Zenon DEF RecordsInv, HandlersOK, TargetsHaveParents
  <2>4. QED BY <1>1, <2>2, <2>3, Zenon DEF RecordsInv
<1>2. ASSUME NEW id, NEW new, Changes(id, new)
      PROVE  certificate' = new /\ "pc" \in DOMAIN listing' /\ listing'.pc = listing.pc
  <2>1. "pc" \in DOMAIN listing
    BY Zenon DEF RecordsInv, HandlersOK
  <2>2. \/ listing' = listing
        \/ listing' = [listing EXCEPT !.shifts = @ + 1, !.stayed = @ \ {id}]
    BY <1>2, Zenon DEF Changes
  <2>3. certificate' = new
    BY <1>2, Zenon DEF Changes
  <2>4. QED BY <2>1, <2>2, <2>3, Zenon
<1>3. /\ certificate \in Seq(Rows) /\ UniqueIds(certificate) /\ work \in [Workers -> Task]
      /\ Counted /\ revived \subseteq overlapped /\ writes \in 0..MaxWrites
  BY Zenon DEF RecordsInv, TypeOK, HandlersOK, RevivedOnlyByOverlap
<1>a. \A row \in Rows : \A new \in Save(certificate, row) :
        new \in Seq(Rows) /\ UniqueIds(new) /\ Ids(new) = Ids(certificate) \cup {row.id}
  BY <1>3, SavedRow, Zenon
<1>4. ASSUME NEW token \in Tokens, CreateCertificate(w, token) PROVE RecordsInv'
  <2>a. PICK row \in Rows : \E new \in Create(certificate, row) : Changes(row.id, new)
    BY <1>4, Zenon DEF CreateCertificate
  <2>1. PICK new \in Create(certificate, row) : Changes(row.id, new)
    BY <2>a, Zenon
  <2>2. new \in Seq(Rows) /\ UniqueIds(new) /\ Ids(new) = Ids(certificate) \cup {row.id}
    <3>1. new \in Save(certificate, row)
      BY Zenon DEF Save
    <3>2. QED BY <1>a, <3>1, Zenon
  <2>3. /\ writes' \in 0..MaxWrites
        /\ UNCHANGED <<cloud_service, used, catalog, toe, work, overlapped, revived>>
    BY <1>3, <1>4, RecordsAssumption DEF CreateCertificate, Counts
  <2>4. certificate' = new /\ "pc" \in DOMAIN listing' /\ listing'.pc = listing.pc
    BY <1>2, <2>1, Zenon
  <2>5. Counted'
    BY <1>3, <2>2, <2>3, <2>4, Zenon DEF Counted, Saves
  <2>6. QED BY <1>1, <1>3, <2>2, <2>3, <2>4, <2>5, Zenon DEF RevivedOnlyByOverlap
<1>5. CASE SaveCertificate(w)
  <2>1. PICK row, new : row = work[w].row /\ new \in Save(certificate, row) /\ Changes(row.id, new)
    BY <1>5, Zenon DEF SaveCertificate
  <2>2. /\ work[w].pc = "saveCertificate" /\ work' = [work EXCEPT ![w] = Idle]
        /\ revived' = revived \cup ({row.id} \ Ids(certificate))
        /\ UNCHANGED <<cloud_service, used, catalog, toe, writes, overlapped>>
    BY <1>5, <2>1, Zenon DEF SaveCertificate, Ends
  <2>3. row \in Rows
    BY <1>3, <2>1, <2>2, TaskRow, Zenon
  <2>4. new \in Seq(Rows) /\ UniqueIds(new) /\ Ids(new) = Ids(certificate) \cup {row.id}
    BY <1>a, <2>1, <2>3, Zenon
  <2>5. certificate' = new /\ "pc" \in DOMAIN listing' /\ listing'.pc = listing.pc
    BY <1>2, <2>1, Zenon
  <2>6. /\ work' \in [Workers -> Task] /\ work'[w].pc = "idle"
        /\ \A v \in Workers : v # w => work'[v] = work[v]
    BY <2>2, NewTask, TaskRow, Zenon DEF RecordsInv
  <2>7. Counted'
    BY <1>3, <2>2, <2>4, <2>5, <2>6, Zenon DEF Counted, Saves
  <2>8. row.id \in Ids(certificate) \cup overlapped
    BY <1>3, <2>1, <2>2, Zenon DEF Counted, Saves
  <2>9. RevivedOnlyByOverlap'
    BY <1>3, <2>2, <2>8, Zenon DEF RevivedOnlyByOverlap
  <2>10. QED BY <1>1, <1>3, <2>2, <2>4, <2>5, <2>6, <2>7, <2>9, Zenon
<1>6. CASE DeleteCertificate(w)
  <2>1. PICK id : id = work[w].row.id
    BY Zenon
  <2>2. /\ work[w].pc = "delete" /\ work' = [work EXCEPT ![w] = Idle]
        /\ UNCHANGED <<cloud_service, used, catalog, toe, writes, revived>>
    BY <1>6, Zenon DEF DeleteCertificate, Ends
  <2>3. /\ work' \in [Workers -> Task] /\ work'[w].pc = "idle"
        /\ \A v \in Workers : v # w => work'[v] = work[v]
    BY <2>2, NewTask, TaskRow, Zenon DEF RecordsInv
  <2>4. CASE UNCHANGED <<certificate, listing, overlapped>>
    <3>1. Counted'
      BY <1>3, <2>2, <2>3, <2>4, Zenon DEF Counted, Saves
    <3>2. "pc" \in DOMAIN listing'
      BY <2>4, Zenon DEF RecordsInv, HandlersOK
    <3>3. QED BY <1>1, <1>3, <2>2, <2>3, <2>4, <3>1, <3>2, Zenon DEF RevivedOnlyByOverlap
  <2>5. CASE /\ \E new \in Delete(certificate, id) : Changes(id, new)
             /\ overlapped' = overlapped \cup Overlapped(w, "saveCertificate", id)
    <3>1. PICK new \in Delete(certificate, id) : Changes(id, new)
      BY <2>5, Zenon
    <3>2. Has(certificate, id) /\ new = Without(certificate, id)
      BY <3>1, Zenon DEF Delete
    <3>3. new \in Seq(Rows) /\ UniqueIds(new) /\ Ids(new) = Ids(certificate) \ {id}
      BY <1>3, <3>2, WithoutRow, Zenon
    <3>4. certificate' = new /\ "pc" \in DOMAIN listing' /\ listing'.pc = listing.pc
      BY <1>2, <3>1, Zenon
    <3>5. \A v \in Workers : Saves(v, "saveCertificate", id)' => id \in overlapped'
      BY <2>2, <2>3, <2>5, Zenon DEF Overlapped, Saves
    <3>6. \A v \in Workers : \A x :
            /\ Saves(v, "saveService", x)' => Saves(v, "saveService", x)
            /\ Saves(v, "saveCertificate", x)' => Saves(v, "saveCertificate", x)
      BY <2>3, Zenon DEF Saves
    <3>7. Counted'
      <4> SUFFICES ASSUME NEW v \in Workers, NEW x
                   PROVE  /\ Saves(v, "saveService", x)' => x \in used' /\ x \in cloud_service' \cup overlapped'
                          /\ Saves(v, "saveCertificate", x)' => x \in Ids(certificate') \cup overlapped'
        BY Zenon DEF Counted
      <4>1. Saves(v, "saveService", x)' => x \in used' /\ x \in cloud_service' \cup overlapped'
        <5>1. Saves(v, "saveService", x)' => x \in used /\ x \in cloud_service \cup overlapped
          BY <1>3, <3>6, Zenon DEF Counted
        <5>2. QED BY <2>2, <2>5, <5>1, Zenon
      <4>2. Saves(v, "saveCertificate", x)' => x \in Ids(certificate') \cup overlapped'
        BY <1>3, <2>5, <3>3, <3>4, <3>5, <3>6, Zenon DEF Counted
      <4>3. QED BY <4>1, <4>2, Zenon
    <3>8. RevivedOnlyByOverlap'
      BY <1>3, <2>2, <2>5, Zenon DEF RevivedOnlyByOverlap
    <3>9. QED BY <1>1, <1>3, <2>2, <2>3, <3>3, <3>4, <3>7, <3>8, Zenon
  <2>6. QED BY <1>6, <2>1, <2>4, <2>5, Zenon DEF DeleteCertificate
<1>7. QED BY <1>4, <1>5, <1>6, Zenon

\* The client lists certificates.
LEMMA ListingSteps ==
  ASSUME RecordsInv, ListAllPaginated \/ ListCertificates
  PROVE  RecordsInv'
<1>1. UNCHANGED <<tables, work, writes, overlapped, revived>>
  BY Zenon DEF ListAllPaginated, ListCertificates
<1>2. "pc" \in DOMAIN listing' /\ listing'.pc \in {"page", "done"}
  <2>1. CASE ListAllPaginated
    BY <2>1 DEF ListAllPaginated
  <2>2. CASE ListCertificates
    <3>1. "pc" \in DOMAIN listing
      BY Zenon DEF RecordsInv, HandlersOK
    <3>2. PICK page : listing' = Paginated(page)
      BY <2>2, Zenon DEF ListCertificates
    <3>3. QED BY <3>1, <3>2, Zenon DEF Paginated
  <2>3. QED BY <2>1, <2>2, Zenon
<1>3. TypeOK'
  BY <1>1, <1>2, Zenon DEF RecordsInv, TypeOK, tables
<1>4. HandlersOK' /\ Counted' /\ RevivedOnlyByOverlap' /\ TargetsHaveParents'
  BY <1>1, <1>2, Zenon
     DEF RecordsInv, HandlersOK, Counted, Saves, RevivedOnlyByOverlap, TargetsHaveParents, tables
<1>5. QED BY <1>3, <1>4, Zenon DEF RecordsInv

\* Every step preserves the invariant.
LEMMA StepRecordsInv == RecordsInv /\ [Next]_vars => RecordsInv'
<1> SUFFICES ASSUME RecordsInv, [Next]_vars PROVE RecordsInv'
  BY Zenon
<1>1. CASE Next
  BY <1>1, CatalogSteps, TaskSteps, ServiceSteps, CertificateSteps, ListingSteps, Zenon
     DEF Next, Handles
<1>2. CASE UNCHANGED vars
  <2>1. TypeOK' /\ HandlersOK'
    BY <1>2, Zenon DEF RecordsInv, TypeOK, HandlersOK, vars
  <2>2. Counted' /\ RevivedOnlyByOverlap' /\ TargetsHaveParents'
    BY <1>2, Zenon DEF RecordsInv, Counted, Saves, RevivedOnlyByOverlap, TargetsHaveParents, vars
  <2>3. QED BY <2>1, <2>2, Zenon DEF RecordsInv
<1>3. QED BY <1>1, <1>2, Zenon

\* The handlers find the tables in order whenever they run.
LEMMA RecordsInvariant == Spec => []RecordsInv
<1>1. Init => RecordsInv
  <2> SUFFICES ASSUME Init PROVE RecordsInv
    BY Zenon
  <2>1. /\ used = {DefaultTargetCloudServiceId} /\ cloud_service = used
        /\ DOMAIN catalog = Catalogs /\ (\A k \in Catalogs : catalog[k] = 1) /\ DOMAIN toe = {}
        /\ certificate = Stored /\ (\A w \in Workers : work[w] = Idle) /\ writes = 0
        /\ work \in [Workers -> {Idle}] /\ listing = [pc |-> "idle"] /\ revived = {}
    BY Zenon DEF Init, NotListing
  <2>2. TypeOK
    BY <2>1, RecordsAssumption, TaskRow DEF TypeOK, Levels
  <2>3. HandlersOK
    BY <2>1, TaskRow, Zenon DEF HandlersOK
  <2>4. Counted
    BY <2>1, TaskRow, Zenon DEF Counted, Saves
  <2>5. RevivedOnlyByOverlap /\ TargetsHaveParents
    BY <2>1, Zenon DEF RevivedOnlyByOverlap, TargetsHaveParents
  <2>6. QED BY <2>2, <2>3, <2>4, <2>5, Zenon DEF RecordsInv
<1>2. QED BY <1>1, StepRecordsInv, PTL DEF Spec

\* The tables keep their types, and ids stay unique, although Save inserts
\* and handlers act on what they counted some steps before.
THEOREM TablesStayInOrder == Spec => []TypeOK
<1>1. RecordsInv => TypeOK
  BY Zenon DEF RecordsInv
<1>2. QED BY <1>1, RecordsInvariant, PTL

\* A record that was removed comes back by an update only if the update had
\* counted it before the removal (cloud_service.go, certificates.go: Count, then
\* Save, without a transaction around them).
THEOREM OnlyOverlappingUpdatesRevive == Spec => []RevivedOnlyByOverlap
<1>1. RecordsInv => RevivedOnlyByOverlap
  BY Zenon DEF RecordsInv
<1>2. QED BY <1>1, RecordsInvariant, PTL

\* Every target of evaluation has its cloud service and its catalog, whatever
\* is removed and revived meanwhile (toe.go, the foreign keys of the join table).
THEOREM TargetsKeepTheirParents == Spec => []TargetsHaveParents
<1>1. RecordsInv => TargetsHaveParents
  BY Zenon DEF RecordsInv
<1>2. QED BY <1>1, RecordsInvariant, PTL
=============================================================================
