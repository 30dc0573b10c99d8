------------------------------ MODULE Certificates ------------------------------
(***************************************************************************)
(* Certificates: rows of a table, the files of each domain, and the pair   *)
(* the subscription listener holds in memory.  Requests, renewals,         *)
(* revocations and deletions hold the mutex of the service; an upload and  *)
(* the handlers that show certificates, which write the status back, do    *)
(* not.                                                                    *)
(*                                                                         *)
(* Certificates are numbered as they are issued, and one issued later      *)
(* expires later.  A renewal keeps the private key; a key has the number   *)
(* of the first certificate made with it.  A file a write was cut in is    *)
(* number 0.                                                               *)
(*                                                                         *)
(* Sources: services/certificate_service.go, acme/acme.go,                 *)
(* api/certificates.go, app/sub_listener.go.                               *)
(***************************************************************************)
EXTENDS Naturals, FiniteSets

CONSTANTS
  Domains,
  MaxRows,   \* bound on the ids of the table
  MaxIssued, \* bound on certificates
  MaxRestarts,
  NoRow,     \* no row
  NoPair     \* no files, or nothing in memory

VARIABLES
  rows,      \* certificates: NoRow or [domain, dir, cert, key, status] for each id
  nextRow,
  files,     \* in each directory NoPair or [cert, key]
  cached,    \* the listener's pair
  issued,    \* number of certificates issued
  keyOf,     \* the key each was made for
  age,       \* of each: "valid", "due" for renewal (30 days) or "expired"
  op,        \* the holder of the mutex
  upload,    \* an upload
  view,      \* a handler that shows certificates
  disturbed, \* history: a directory had two rows or two writers, or a row moved
             \* to another; a status was written back over a change; or an
             \* operation was cut, or failed after its first write began
  restarts

vars == <<rows, nextRow, files, cached, issued, keyOf, age, op, upload, view, disturbed, restarts>>
acme    == <<issued, keyOf, age>>

Id   == 1..MaxRows
Cert == 1..MaxIssued
Idle == [at |-> "idle", kind |-> "none", id |-> 0, row |-> NoRow]

\* A domain as it was asked for: alone, or after a path.  Either is also the
\* name of a directory, but uploads go to the directory of the base name.
Names   == Domains \X {"alone", "path"}
Base(n) == <<n[1], "alone">>

Present   == {i \in Id : rows[i] # NoRow}
Of(d)     == {i \in Present : rows[i].dir = d}
Pair(row) == [cert |-> row.cert, key |-> row.key]

\* Who is at work on directory d.
Writers(d) == {o \in {op, upload} : o.at # "idle" /\ o.row.dir = d}

Begin(kind, at, id, row) == [at |-> at, kind |-> kind, id |-> id, row |-> row]
\* The authority issues a certificate for a key.
Issue(key) == issued' = issued + 1 /\ keyOf' = [keyOf EXCEPT ![issued + 1] = key] /\ UNCHANGED age

NewRow(n, d, key) ==
  [domain |-> n, dir |-> d, cert |-> issued + 1, key |-> key, status |-> "active"]

Init ==
  /\ rows = [i \in Id |-> NoRow] /\ nextRow = 1
  /\ files = [d \in Names |-> NoPair] /\ cached = NoPair
  /\ issued = 0 /\ keyOf = [n \in Cert |-> 0] /\ age = [n \in Cert |-> "valid"]
  /\ op = Idle /\ upload = Idle /\ view = Idle
  /\ disturbed = FALSE /\ restarts = 0
-----------------------------------------------------------------------------
(***************************************************************************)
(* Under the mutex.  The certificate comes from the authority before       *)
(* anything is written.                                                    *)
(***************************************************************************)
RequestCertificate(n) ==
  /\ op = Idle /\ issued < MaxIssued
  /\ n = Base(n) /\ \A i \in Present : rows[i].domain # n
  /\ Issue(issued + 1)
  /\ op' = Begin("request", "cert", 0, NewRow(n, n, issued + 1))
  /\ disturbed' = (disturbed \/ Writers(n) # {} \/ Of(n) # {})
  /\ UNCHANGED <<rows, nextRow, files, cached, upload, view, restarts>>

\* Without a certificate there is nothing to renew; without a key there is a
\* new one.  The files go to the directory of the whole name.
RenewCertificate(i) ==
  /\ op = Idle /\ i \in Present /\ issued < MaxIssued
  /\ LET n == rows[i].domain
         old == files[rows[i].dir]
         key == IF old.key = 0 THEN issued + 1 ELSE old.key IN
       /\ old # NoPair /\ old.cert # 0
       /\ Issue(key)
       /\ op' = Begin("renew", "cert", i, NewRow(n, n, key))
       /\ disturbed' = (disturbed \/ Writers(n) # {} \/ rows[i].dir # n)
  /\ UNCHANGED <<rows, nextRow, files, cached, upload, view, restarts>>

NeedsRenewal(n) == age[n] # "valid"

\* checkAndRenewCertificates, a day after the start and then daily.
CheckAndRenew(i) ==
  /\ i \in Present /\ rows[i].status \in {"active", "expiring"} /\ NeedsRenewal(rows[i].cert)
  /\ RenewCertificate(i)

RevokeCertificate(i) ==
  /\ op = Idle /\ i \in Present
  /\ files[rows[i].dir] # NoPair /\ files[rows[i].dir].cert # 0
  /\ op' = Begin("revoke", "row", i, [rows[i] EXCEPT !.status = "revoked"])
  /\ disturbed' = (disturbed \/ Writers(rows[i].dir) # {})
  /\ UNCHANGED <<rows, nextRow, files, cached, acme, upload, view, restarts>>

\* SaveCertificate writes one file after the other; an upload does the same.
Written(f, o) == [f EXCEPT ![o.row.dir] =
                    IF o.at = "key" THEN [@ EXCEPT !.key = o.row.key]
                    ELSE [cert |-> o.row.cert, key |-> IF @ = NoPair THEN 0 ELSE @.key]]

\* The directory may be gone by the second file.
CanWrite(f, o) == o.at = "cert" \/ (o.at = "key" /\ f[o.row.dir] # NoPair)

(***************************************************************************)
(* What a write leaves that fails or is cut: os.WriteFile truncates before *)
(* it writes.  After the key a third file may fail, the issuer's.          *)
(***************************************************************************)
Torn(f, o) == [f EXCEPT ![o.row.dir] =
                 IF o.at = "key" THEN [@ EXCEPT !.key = 0]
                 ELSE [cert |-> 0, key |-> IF @ = NoPair THEN 0 ELSE @.key]]
Left(f, o) == {f} \cup IF CanWrite(f, o) THEN {Torn(f, o), Written(f, o)} ELSE {}

SaveCertificate ==
  /\ CanWrite(files, op)
  /\ files' = Written(files, op)
  /\ op' = [op EXCEPT !.at = IF @ = "cert" THEN "key" ELSE "row"]
  /\ UNCHANGED <<rows, nextRow, cached, acme, upload, view, disturbed, restarts>>

\* Save or Create.
SaveRow ==
  /\ op.at = "row"
  /\ IF op.kind = "request"
     THEN /\ nextRow <= MaxRows
          /\ rows' = [rows EXCEPT ![nextRow] = op.row]
          /\ nextRow' = nextRow + 1
          /\ disturbed' = (disturbed \/ Of(op.row.dir) # {})
     ELSE /\ rows' = [rows EXCEPT ![op.id] = op.row]
          /\ UNCHANGED <<nextRow, disturbed>>
  /\ op' = [op EXCEPT !.at = "notify"]
  /\ UNCHANGED <<files, cached, acme, upload, view, restarts>>

\* The removal of the directory may stop half way.
DeleteCertificate(i) ==
  /\ op = Idle /\ i \in Present
  /\ LET d == rows[i].dir IN
       \/ /\ files' = [files EXCEPT ![d] = NoPair]
          /\ op' = Begin("delete", "delete", i, rows[i])
          /\ disturbed' = (disturbed \/ Writers(d) # {})
       \/ /\ files[d] # NoPair
          /\ files' \in {[files EXCEPT ![d].cert = 0], [files EXCEPT ![d].key = 0]}
          /\ disturbed' = TRUE
          /\ UNCHANGED op
  /\ UNCHANGED <<rows, nextRow, cached, acme, upload, view, restarts>>

DeleteRow ==
  /\ op.at = "delete"
  /\ rows' = [rows EXCEPT ![op.id] = NoRow]
  /\ op' = [op EXCEPT !.at = "notify"]
  /\ UNCHANGED <<nextRow, files, cached, acme, upload, view, disturbed, restarts>>

\* Mutant: a renewal tells nobody.
NotifyOthers ==
  /\ op.at = "notify"
  /\ cached' = IF op.kind = "renew" THEN cached ELSE NoPair
  /\ op' = Idle
  /\ UNCHANGED <<rows, nextRow, files, acme, upload, view, disturbed, restarts>>

\* notifyCertChange: InvalidateCertCache.
Notify ==
  /\ op.at = "notify"
  /\ cached' = NoPair
  /\ op' = Idle
  /\ UNCHANGED <<rows, nextRow, files, acme, upload, view, disturbed, restarts>>

\* A write fails.  A request whose row cannot be made takes its files away.
OperationFails ==
  /\ op.at \in {"cert", "key", "row", "delete"}
  /\ IF op.kind = "request" /\ op.at = "row"
     THEN files' = [files EXCEPT ![op.row.dir] = NoPair] /\ UNCHANGED disturbed
     ELSE /\ files' \in Left(files, op)
          /\ disturbed' = (disturbed \/ files' # files \/ (op.at # "cert" /\ op.kind # "revoke"))
  /\ op' = Idle
  /\ UNCHANGED <<rows, nextRow, cached, acme, upload, view, restarts>>
-----------------------------------------------------------------------------
(***************************************************************************)
(* UploadCertificate: any domain, whatever is there, and a key that may be *)
(* that of another certificate.  AutoRenew is FALSE in the request and     *)
(* TRUE in the row: Create replaces a zero value by the default of the     *)
(* column.                                                                 *)
(***************************************************************************)
OtherKey == MaxIssued + 1

UploadCertificate(n) ==
  /\ upload = Idle /\ issued < MaxIssued
  /\ Issue(issued + 1)
  /\ \E key \in {issued + 1, OtherKey} :
       upload' = Begin("upload", "cert", 0, NewRow(n, Base(n), key))
  /\ disturbed' = (disturbed \/ Writers(Base(n)) # {} \/ Of(Base(n)) # {})
  /\ UNCHANGED <<rows, nextRow, files, cached, op, view, restarts>>

UploadFile ==
  /\ CanWrite(files, upload)
  /\ files' = Written(files, upload)
  /\ upload' = [upload EXCEPT !.at = IF @ = "cert" THEN "key" ELSE "row"]
  /\ UNCHANGED <<rows, nextRow, cached, acme, op, view, disturbed, restarts>>

UploadRow ==
  /\ upload.at = "row" /\ nextRow <= MaxRows
  /\ rows' = [rows EXCEPT ![nextRow] = upload.row]
  /\ nextRow' = nextRow + 1
  /\ upload' = [upload EXCEPT !.at = "notify"]
  /\ UNCHANGED <<files, cached, acme, op, view, disturbed, restarts>>

UploadNotify ==
  /\ upload.at = "notify"
  /\ cached' = NoPair
  /\ upload' = Idle
  /\ UNCHANGED <<rows, nextRow, files, acme, op, view, disturbed, restarts>>

UploadFails ==
  /\ upload.at \in {"cert", "key", "row"}
  /\ upload' = Idle
  /\ IF upload.at = "row"
     THEN files' = [files EXCEPT ![upload.row.dir] = NoPair] /\ UNCHANGED disturbed
     ELSE /\ files' \in Left(files, upload)
          /\ disturbed' = (disturbed \/ files' # files \/ upload.at = "key")
  /\ UNCHANGED <<rows, nextRow, cached, acme, op, view, restarts>>
-----------------------------------------------------------------------------
(***************************************************************************)
(* ListCertificates and GetCertificate write the status back, with the     *)
(* whole row as it was read: a revoked certificate is active again.        *)
(***************************************************************************)
View(i) ==
  /\ view = Idle /\ i \in Present
  /\ view' = Begin("view", "save", i, rows[i])
  /\ UNCHANGED <<rows, nextRow, files, cached, acme, op, upload, disturbed, restarts>>

Status(n) == CASE age[n] = "valid" -> "active" [] age[n] = "due" -> "expiring"
               [] age[n] = "expired" -> "expired"

UpdateCertificateStatus ==
  /\ view.at = "save"
  /\ rows' = [rows EXCEPT ![view.id] = [view.row EXCEPT !.status = Status(view.row.cert)]]
  /\ disturbed' = (disturbed \/ rows[view.id] # view.row)
  /\ view' = Idle
  /\ UNCHANGED <<nextRow, files, cached, acme, op, upload, restarts>>

\* getCachedCertificate: the row that expires last, its files, if they fit.
Newest == CHOOSE i \in Present : \A j \in Present : rows[i].cert >= rows[j].cert

LoadPair ==
  /\ cached = NoPair /\ Present # {}
  /\ LET pair == files[rows[Newest].dir] IN
       /\ pair # NoPair /\ pair.cert # 0
       /\ pair.key = keyOf[pair.cert]
       /\ cached' = pair
  /\ UNCHANGED <<rows, nextRow, files, acme, op, upload, view, disturbed, restarts>>

\* After a minute.
CacheExpires ==
  /\ cached # NoPair /\ cached' = NoPair
  /\ UNCHANGED <<rows, nextRow, files, acme, op, upload, view, disturbed, restarts>>

Ages(n) ==
  /\ n <= issued /\ age[n] # "expired"
  /\ age' = [age EXCEPT ![n] = IF @ = "valid" THEN "due" ELSE "expired"]
  /\ UNCHANGED <<rows, nextRow, files, cached, issued, keyOf, op, upload, view, disturbed, restarts>>

Restart ==
  /\ restarts < MaxRestarts
  /\ restarts' = restarts + 1
  /\ \E f \in Left(files, op) : files' \in Left(f, upload)
  /\ disturbed' = (disturbed \/ files' # files \/ upload.at \in {"key", "row"}
                       \/ (op.at \in {"key", "row", "delete"} /\ op.kind # "revoke"))
  /\ op' = Idle /\ upload' = Idle /\ view' = Idle
  /\ cached' = NoPair
  /\ UNCHANGED <<rows, nextRow, acme>>

\* The handlers that need the mutex.
Handle ==
  \/ \E n \in Names : RequestCertificate(n)
  \/ \E i \in Id : RenewCertificate(i) \/ RevokeCertificate(i) \/ DeleteCertificate(i)

Next ==
  \/ SaveCertificate \/ SaveRow \/ DeleteRow \/ Notify \/ OperationFails \/ UploadFile
  \/ UploadRow \/ UploadNotify \/ UploadFails \/ UpdateCertificateStatus \/ LoadPair
  \/ CacheExpires \/ Restart
  \/ Handle \/ \E n \in Names : UploadCertificate(n)
  \/ \E i \in Id : CheckAndRenew(i) \/ View(i)
  \/ \E n \in Cert : Ages(n)

Spec == Init /\ [][Next]_vars
-----------------------------------------------------------------------------
Rows  == [domain : Names, dir : Names, cert : Cert, key : 1..OtherKey,
          status : {"active", "expiring", "expired", "revoked"}]
Pairs == [cert : 0..MaxIssued, key : 0..OtherKey]

TypeOK ==
  /\ \A i \in Id : rows[i] \in Rows \cup {NoRow}
  /\ nextRow \in 1..(MaxRows + 1) /\ issued \in 0..MaxIssued /\ restarts \in 0..MaxRestarts
  /\ \A d \in Names : files[d] \in Pairs \cup {NoPair}
  /\ cached \in Pairs \cup {NoPair}

\* With nobody at work a directory holds the certificate its row tells of and
\* the key that came with it, a directory without a row holds none, and the
\* listener has nothing but the files of the row that expires last; unless two
\* rows share a directory, whose files the deletion of either takes away, or a
\* renewal moved a row to another, a view wrote back over a change, or an
\* operation was cut or failed once it had begun to write.
CertificatesStand ==
  op = Idle /\ upload = Idle /\ ~disturbed =>
    /\ \A i \in Present : files[rows[i].dir] = Pair(rows[i])
    /\ \A d \in Names : Of(d) = {} => files[d] = NoPair
    /\ cached # NoPair => Present # {} /\ cached = Pair(rows[Newest])
===============================================================================
