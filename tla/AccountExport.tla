--------------------------- MODULE AccountExport ---------------------------
(***************************************************************************)
(* Exporting the data of an account that may be deleted meanwhile          *)
(* (createExport and downloadExport of account-lifecycle-repository.ts,    *)
(* the /me/exports routes, the privacy page), over AccountDeletion.  The   *)
(* page asks for an archive and then downloads it.  Each request passes    *)
(* the tombstone check once and then works in several transactions, while  *)
(* a deletion revokes the archives and purges the account.  What is in an  *)
(* archive is left out: it is read in one repeatable-read transaction.     *)
(***************************************************************************)
EXTENDS AccountDeletion

VARIABLES
  row,       \* the identifier of the users row: a row that is made again is another one
  stored,    \* account_exports: [request -> the users row its archive belongs to, 0 for none]
  export,    \* [request -> how far its export is]
  owner      \* [request -> the users row it has read]

exportVars == <<row, stored, export, owner>>
allVars == <<vars, exportVars>>

ExportStages == {"none", "provision", "snapshot", "store", "granted", "find", "record",
                 "delivered", "refused"}

ExportTypeOK ==
  /\ row \in Nat \ {0}
  /\ stored \in [Requests -> Nat] /\ owner \in [Requests -> Nat]
  /\ export \in [Requests -> ExportStages]

ExportInit ==
  /\ Init /\ row = 1
  /\ stored = [q \in Requests |-> 0] /\ owner = [q \in Requests |-> 0]
  /\ export = [q \in Requests |-> "none"]

\* The account as the next step leaves it: its row is the same, or a new one.
Provisioned == row' = IF ~account /\ account' THEN row + 1 ELSE row
Present(user) == account /\ user = row

\* Deletion: a new tombstone deletes the archives with it, and the purge
\* takes along whatever belongs to the users row.
Deletion ==
  /\ Next /\ Provisioned
  /\ stored' = IF tombstone # tombstone' \/ (account /\ ~account')
               THEN [q \in Requests |-> 0] ELSE stored
  /\ UNCHANGED <<export, owner>>

Step(q, stage) == export' = [export EXCEPT ![q] = stage]

-----------------------------------------------------------------------------
\* POST /me/exports, let in by requireAuthentication.
AdmitExport(q) ==
  /\ request[q] = "idle" /\ ~tombstone
  /\ request' = [request EXCEPT ![q] = "done"]
  /\ Step(q, "provision")
  /\ UNCHANGED <<account, identity, sessions, tombstone, receipt, job, queued, handler, call,
                 effects, faults, row, stored, owner>>

ProvisionExport(q) ==
  /\ export[q] = "provision"
  /\ account' = TRUE /\ Provisioned
  /\ Step(q, "snapshot")
  /\ UNCHANGED <<identity, sessions, tombstone, receipt, job, queued, handler, call, request,
                 effects, faults, stored, owner>>

\* exportFiles: one snapshot of the account and everything that is its own.
Snapshot(q) ==
  /\ export[q] = "snapshot"
  /\ owner' = IF account THEN [owner EXCEPT ![q] = row] ELSE owner
  /\ Step(q, IF account THEN "store" ELSE "refused")
  /\ UNCHANGED <<vars, row, stored>>

\* Mutant: the archive is not tied to the row of the account.
StoreAnyway(q) ==
  /\ export[q] = "store"
  /\ stored' = [stored EXCEPT ![q] = owner[q]]
  /\ Step(q, "granted")
  /\ UNCHANGED <<vars, row, owner>>
\* The archive is stored with its event, for the account that was read: the
\* foreign keys refuse a users row that has gone.
Store(q) ==
  /\ export[q] = "store"
  /\ stored' = IF Present(owner[q]) THEN [stored EXCEPT ![q] = owner[q]] ELSE stored
  /\ Step(q, IF Present(owner[q]) THEN "granted" ELSE "refused")
  /\ UNCHANGED <<vars, row, owner>>

\* GET /me/exports/:exportId/download, with the grant of the answer.
AdmitDownload(q) ==
  /\ export[q] = "granted"
  /\ Step(q, IF tombstone THEN "refused" ELSE "find")
  /\ UNCHANGED <<vars, row, stored, owner>>

\* downloadExport reads and decrypts the archive, if it is there ...
Find(q) ==
  /\ export[q] = "find"
  /\ Step(q, IF stored[q] # 0 /\ Present(stored[q]) THEN "record" ELSE "refused")
  /\ UNCHANGED <<vars, row, stored, owner>>

\* ... and then records the download, whether or not the archive is still
\* there: its event names the account as the actor, a foreign key.
Record(q) ==
  /\ export[q] = "record"
  /\ Step(q, IF Present(owner[q]) THEN "delivered" ELSE "refused")
  /\ UNCHANGED <<vars, row, stored, owner>>

\* After 23 hours; createExport and the retention monitor delete the archive.
Expire(q) ==
  /\ stored[q] # 0
  /\ stored' = [stored EXCEPT ![q] = 0]
  /\ UNCHANGED <<vars, row, export, owner>>

Export(q) ==
  \/ AdmitExport(q) \/ ProvisionExport(q) \/ Snapshot(q) \/ Store(q)
  \/ AdmitDownload(q) \/ Find(q) \/ Record(q) \/ Expire(q)

ExportNext == Deletion \/ \E q \in Requests : Export(q)

ExportSpec == ExportInit /\ [][ExportNext]_allVars

-----------------------------------------------------------------------------
\* An archive lives and dies with the row of its account, and none leaves the
\* server once the account was purged, however the requests cross the
\* deletion and although a late one may provision the account again
\* (account-lifecycle-repository.ts:622-717).
ExportsEndWithAccount ==
  [][\A q \in Requests :
       /\ stored'[q] # 0 => account' /\ stored'[q] = row'
       /\ export[q] # "delivered" /\ export'[q] = "delivered" => Present(owner[q])]_allVars

=============================================================================
