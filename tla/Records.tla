------------------------------- MODULE Records -------------------------------
(***************************************************************************)
(* The records of the orchestrator (service/orchestrator: cloud_service.go,*)
(* certificates.go, toe.go, catalogs.go) under concurrent calls, and a     *)
(* client that lists the certificates page by page (service/paginate.go,   *)
(* api/pagination.go).  A handler makes one storage call per step; what    *)
(* comes before its first storage call (validation, CheckAccess) reads     *)
(* only the request and belongs to the first step.  A handler that returns *)
(* an error leaves the tables alone and is not a step.  The hooks that     *)
(* handlers inform are not registered by the engine.                       *)
(***************************************************************************)
EXTENDS Storage, FiniteSets, Functions

CONSTANTS Workers,           \* handlers that run at the same time
          Services, Catalogs, Certificates,
          DefaultTargetCloudServiceId,
          Stored,            \* the certificates at the beginning
          Tokens,            \* sets of the cloud services that a token names
          PageSizes,         \* the page sizes that the client asks for
          DefaultPageSize, MaxPageSize,
          MaxWrites,         \* bound on the calls that change a table
          None

VARIABLES cloud_service,     \* ids of cloud services
          used,              \* history: ids that were given to a cloud service
          catalog,           \* catalog -> version
          toe,               \* <<cloud service, catalog>> -> assurance level
          certificate,       \* table with rows [id, cloud_service_id]
          work,              \* worker -> the rest of its handler
          writes,
          listing,           \* the client's ListAllPaginated
          overlapped,        \* history: records removed between a Count and its Save
          revived            \* history: records that an update inserted

vars == <<cloud_service, used, catalog, toe, certificate, work, writes, listing, overlapped, revived>>
tables == <<cloud_service, used, catalog, toe, certificate>>

Levels == {1, 2}
Idle == [pc |-> "idle", row |-> None]
NotListing == [pc |-> "idle"]
Rows == [id : Certificates, cloud_service_id : Services]
UniqueIds(table) == \A i, j \in DOMAIN table : table[i].id = table[j].id => i = j

ASSUME RecordsAssumption ==
  /\ DefaultTargetCloudServiceId \in Services
  /\ Stored \in Seq(Rows) /\ UniqueIds(Stored)
  /\ Tokens \subseteq SUBSET Services
  /\ PageSizes \subseteq Nat /\ DefaultPageSize \in Nat \ {0} /\ MaxPageSize \in Nat \ {0}
  /\ MaxWrites \in Nat

\* Type invariant; the ids of services and certificates are unique.
TypeOK ==
  /\ used \subseteq Services /\ cloud_service \subseteq used
  /\ DOMAIN catalog \subseteq Catalogs /\ \A k \in DOMAIN catalog : catalog[k] \in Levels
  /\ DOMAIN toe \subseteq Services \X Catalogs /\ \A t \in DOMAIN toe : toe[t] \in Levels
  /\ certificate \in Seq(Rows) /\ UniqueIds(certificate)
  /\ \A w \in Workers : work[w].pc \in {"idle", "saveService", "saveCertificate", "authorize", "delete"}
  /\ writes \in 0..MaxWrites
  /\ listing.pc \in {"idle", "page", "done"}

Init ==
  /\ cloud_service = {DefaultTargetCloudServiceId} /\ used = cloud_service
  /\ catalog = [k \in Catalogs |-> 1]
  /\ toe = [t \in {} |-> 1]
  /\ certificate = Stored
  /\ work = [w \in Workers |-> Idle]
  /\ writes = 0
  /\ listing = NotListing
  /\ overlapped = {} /\ revived = {}

-----------------------------------------------------------------------------
(***************************************************************************)
(* Authorization (service/authorization.go): a token names cloud services; *)
(* CheckAccess looks at the one that the request is about.                 *)
(***************************************************************************)
CheckAccess(token, s) == s \in token

(***************************************************************************)
(* A handler's steps and what the other variables remember of them.        *)
(***************************************************************************)
Counts == writes < MaxWrites /\ writes' = writes + 1
Begins(w, pc, row) ==
  /\ work[w] = Idle /\ Counts
  /\ work' = [work EXCEPT ![w] = [pc |-> pc, row |-> row]]
Ends(w) == work' = [work EXCEPT ![w] = Idle]

\* a removal while another handler is between its Count and its Save
Overlapped(w, pc, id) ==
  IF \E v \in Workers \ {w} : work[v].pc = pc /\ work[v].row.id = id THEN {id} ELSE {}

\* the listing that is under way notes that the change of row id is more than
\* rows added at the end of what it lists
InScope(scope, table) == SelectSeq(table, LAMBDA row : row.cloud_service_id \in scope)
IdsOf(rows) == [i \in DOMAIN rows |-> rows[i].id]
OnlyAdds(old, new) == Len(old) <= Len(new) /\ SubSeq(IdsOf(new), 1, Len(old)) = IdsOf(old)

Changes(id, new) ==
  /\ certificate' = new
  /\ listing' =
       IF listing.pc # "page"
            \/ OnlyAdds(InScope(listing.scope, certificate), InScope(listing.scope, new))
       THEN listing
       ELSE [listing EXCEPT !.shifts = @ + 1, !.stayed = @ \ {id}]

-----------------------------------------------------------------------------
(***************************************************************************)
(* cloud_service.go.  A registered service gets a new id.  UpdateCloudService *)
(* counts the record and saves it; Save inserts a record that is gone.     *)
(* A service in a target of evaluation cannot be deleted (foreign key).    *)
(***************************************************************************)
RegisterCloudService(w) ==
  /\ work[w] = Idle /\ Counts
  /\ \E s \in Services \ used :
       cloud_service' = cloud_service \cup {s} /\ used' = used \cup {s}
  /\ UNCHANGED <<catalog, toe, certificate, work, listing, overlapped, revived>>

UpdateCloudService(w, token) ==
  /\ \E s \in cloud_service :
       CheckAccess(token, s) /\ Begins(w, "saveService", [id |-> s])
  /\ UNCHANGED <<tables, listing, overlapped, revived>>

SaveCloudService(w) ==
  /\ work[w].pc = "saveService"
  /\ cloud_service' = cloud_service \cup {work[w].row.id}
  /\ revived' = revived \cup ({work[w].row.id} \ cloud_service)
  /\ Ends(w)
  /\ UNCHANGED <<used, catalog, toe, certificate, writes, listing, overlapped>>

Referenced(s) == \E t \in DOMAIN toe : t[1] = s

RemoveCloudService(w, token) ==
  /\ work[w] = Idle /\ Counts
  /\ \E s \in cloud_service :
       /\ CheckAccess(token, s)
       /\ ~Referenced(s)
       /\ cloud_service' = cloud_service \ {s}
       /\ overlapped' = overlapped \cup Overlapped(w, "saveService", s)
  /\ UNCHANGED <<used, catalog, toe, certificate, work, listing, revived>>

(***************************************************************************)
(* catalogs.go: one storage call each.                                     *)
(***************************************************************************)
Added(f, x) == [y \in DOMAIN f \cup {x} |-> IF y = x THEN 1 ELSE f[y]]
Omit(f, x) == [y \in DOMAIN f \ {x} |-> f[y]]

CreateCatalog(w) ==
  /\ work[w] = Idle /\ Counts
  /\ \E k \in Catalogs \ DOMAIN catalog : catalog' = Added(catalog, k)
  /\ UNCHANGED <<cloud_service, used, toe, certificate, work, listing, overlapped, revived>>

UpdateCatalog(w) ==
  /\ work[w] = Idle /\ Counts
  /\ \E k \in DOMAIN catalog : catalog' = [catalog EXCEPT ![k] = 2]
  /\ UNCHANGED <<cloud_service, used, toe, certificate, work, listing, overlapped, revived>>

\* mutant: the foreign keys are not enforced
RemoveCatalogUnchecked(w) ==
  /\ work[w] = Idle /\ Counts
  /\ \E k \in DOMAIN catalog : catalog' = Omit(catalog, k)
  /\ UNCHANGED <<cloud_service, used, toe, certificate, work, listing, overlapped, revived>>

RemoveCatalog(w) ==
  /\ work[w] = Idle /\ Counts
  /\ \E k \in DOMAIN catalog :
       /\ \A t \in DOMAIN toe : t[2] # k
       /\ catalog' = Omit(catalog, k)
  /\ UNCHANGED <<cloud_service, used, toe, certificate, work, listing, overlapped, revived>>

(***************************************************************************)
(* toe.go: one storage call each.  Create fails without the cloud service  *)
(* or the catalog (foreign keys); Update does not insert.                  *)
(***************************************************************************)
CreateTargetOfEvaluation(w, token) ==
  /\ work[w] = Idle /\ Counts
  /\ \E t \in (cloud_service \X DOMAIN catalog) \ DOMAIN toe :
       CheckAccess(token, t[1]) /\ toe' = Added(toe, t)
  /\ UNCHANGED <<cloud_service, used, catalog, certificate, work, listing, overlapped, revived>>

UpdateTargetOfEvaluation(w, token) ==
  /\ work[w] = Idle /\ Counts
  /\ \E t \in DOMAIN toe : CheckAccess(token, t[1]) /\ toe' = [toe EXCEPT ![t] = 2]
  /\ UNCHANGED <<cloud_service, used, catalog, certificate, work, listing, overlapped, revived>>

RemoveTargetOfEvaluation(w, token) ==
  /\ work[w] = Idle /\ Counts
  /\ \E t \in DOMAIN toe : CheckAccess(token, t[1]) /\ toe' = Omit(toe, t)
  /\ UNCHANGED <<cloud_service, used, catalog, certificate, work, listing, overlapped, revived>>

-----------------------------------------------------------------------------
(***************************************************************************)
(* certificates.go.  UpdateCertificate counts the record and saves it.     *)
(* RemoveCertificate counts it (checkExistence), counts it among those of  *)
(* the token (checkAuthorization), and deletes it.                         *)
(***************************************************************************)
CreateCertificate(w, token) ==
  /\ work[w] = Idle /\ Counts
  /\ \E row \in Rows :
       /\ CheckAccess(token, row.cloud_service_id)
       /\ \E new \in Create(certificate, row) : Changes(row.id, new)
  /\ UNCHANGED <<cloud_service, used, catalog, toe, work, overlapped, revived>>

\* mutant: the record is saved without a look for it
UpdateCertificateBlindly(w, token) ==
  /\ \E row \in Rows :
       CheckAccess(token, row.cloud_service_id) /\ Begins(w, "saveCertificate", row)
  /\ UNCHANGED <<tables, listing, overlapped, revived>>

UpdateCertificate(w, token) ==
  /\ \E row \in Rows :
       /\ CheckAccess(token, row.cloud_service_id)
       /\ Has(certificate, row.id)
       /\ Begins(w, "saveCertificate", row)
  /\ UNCHANGED <<tables, listing, overlapped, revived>>

SaveCertificate(w) ==
  /\ work[w].pc = "saveCertificate"
  /\ \E new \in Save(certificate, work[w].row) : Changes(work[w].row.id, new)
  /\ revived' = revived \cup ({work[w].row.id} \ Ids(certificate))
  /\ Ends(w)
  /\ UNCHANGED <<cloud_service, used, catalog, toe, writes, overlapped>>

RemoveCertificate(w, token) ==
  /\ \E id \in Ids(certificate) : Begins(w, "authorize", [id |-> id, token |-> token])
  /\ UNCHANGED <<tables, listing, overlapped, revived>>

CheckAuthorization(w) ==
  /\ work[w].pc = "authorize"
  /\ LET row == work[w].row
     IN work' = [work EXCEPT ![w] =
                   IF Has(certificate, row.id)
                        /\ RowOf(certificate, row.id).cloud_service_id \in row.token
                   THEN [@ EXCEPT !.pc = "delete"] ELSE Idle]
  /\ UNCHANGED <<tables, writes, listing, overlapped, revived>>

DeleteCertificate(w) ==
  /\ work[w].pc = "delete"
  /\ LET id == work[w].row.id
     IN \/ /\ \E new \in Delete(certificate, id) : Changes(id, new)
           /\ overlapped' = overlapped \cup Overlapped(w, "saveCertificate", id)
        \/ ~Has(certificate, id) /\ UNCHANGED <<certificate, listing, overlapped>>
  /\ Ends(w)
  /\ UNCHANGED <<cloud_service, used, catalog, toe, writes, revived>>

-----------------------------------------------------------------------------
(***************************************************************************)
(* ListAllPaginated over ListCertificates: pages of one size, each with    *)
(* the token of the one before.  The token says where the next page        *)
(* starts; there is none after a page that is not full.                    *)
(***************************************************************************)
Size(asked) ==
  IF asked = 0 THEN DefaultPageSize ELSE IF asked > MaxPageSize THEN MaxPageSize ELSE asked

ListAllPaginated ==
  /\ listing.pc = "idle"
  /\ \E asked \in PageSizes, scope \in Tokens :
       listing' = [pc |-> "page", size |-> Size(asked), scope |-> scope, start |-> 0,
                   results |-> <<>>, shifts |-> 0,
                   stayed |-> Ids(InScope(scope, certificate))]
  /\ UNCHANGED <<tables, work, writes, overlapped, revived>>

\* mutant: the token points behind the next row
PaginatedOneOff(page) ==
  [listing EXCEPT !.results = @ \o IdsOf(page),
                  !.start = @ + Len(page) + 1,
                  !.pc = IF Len(page) < listing.size THEN "done" ELSE "page"]

\* mutant: the token stays where it was
PaginatedInPlace(page) ==
  [listing EXCEPT !.results = IF Len(@) < MaxPageSize THEN @ \o IdsOf(page) ELSE @,
                  !.pc = IF Len(page) < listing.size THEN "done" ELSE "page"]

Paginated(page) ==
  [listing EXCEPT !.results = @ \o IdsOf(page),
                  !.start = @ + Len(page),
                  !.pc = IF Len(page) < listing.size THEN "done" ELSE "page"]

ListCertificates ==
  /\ listing.pc = "page"
  /\ listing' = Paginated(List(InScope(listing.scope, certificate), listing.start, listing.size))
  /\ UNCHANGED <<tables, work, writes, overlapped, revived>>

-----------------------------------------------------------------------------
Handles(w) == SaveCloudService(w) \/ SaveCertificate(w) \/ CheckAuthorization(w) \/ DeleteCertificate(w)

Next ==
  \/ \E w \in Workers :
       \/ RegisterCloudService(w) \/ CreateCatalog(w) \/ UpdateCatalog(w) \/ RemoveCatalog(w)
       \/ Handles(w)
       \/ \E token \in Tokens :
            \/ UpdateCloudService(w, token) \/ RemoveCloudService(w, token)
            \/ CreateTargetOfEvaluation(w, token) \/ UpdateTargetOfEvaluation(w, token)
            \/ RemoveTargetOfEvaluation(w, token)
            \/ CreateCertificate(w, token) \/ UpdateCertificate(w, token)
            \/ RemoveCertificate(w, token)
  \/ ListAllPaginated \/ ListCertificates

Spec == Init /\ [][Next]_vars

(***************************************************************************)
(* A handler that began goes on, and so does the client.                   *)
(***************************************************************************)
FairSpec ==
  /\ Spec
  /\ WF_vars(ListCertificates)
  /\ \A w \in Workers : WF_vars(Handles(w))

-----------------------------------------------------------------------------
(***************************************************************************)
(* A record that was removed comes back by an update only if the update    *)
(* had looked for it before the removal (cloud_service.go:178,             *)
(* certificates.go:159: Save inserts what is not there).                   *)
(***************************************************************************)
RevivedOnlyByOverlap == revived \subseteq overlapped

(***************************************************************************)
(* Every target of evaluation has its cloud service and its catalog,       *)
(* although services and catalogs are removed concurrently and a service   *)
(* may be revived (the foreign keys of the join table, toe.go:61).         *)
(***************************************************************************)
TargetsHaveParents == \A t \in DOMAIN toe : t[1] \in cloud_service /\ t[2] \in DOMAIN catalog

(***************************************************************************)
(* What a client that follows the page tokens misses or sees twice: at     *)
(* most as many of the certificates as rows were removed, moved or changed *)
(* their cloud service while it listed, and nothing if there was no such   *)
(* change; certificates that are added do no harm (paginate.go:144).       *)
(***************************************************************************)
ListingOffByShifts ==
  listing.pc = "done" =>
    /\ Cardinality(listing.stayed \ Range(listing.results)) <= listing.shifts
    /\ Len(listing.results) - Cardinality(Range(listing.results)) <= listing.shifts

(***************************************************************************)
(* A client that lists all certificates comes to the last page although    *)
(* certificates are added and removed (pagination.go:100, the loop of       *)
(* ListAllPaginated).                                                      *)
(***************************************************************************)
ListingEnds == listing.pc = "page" ~> listing.pc = "done"
=============================================================================
