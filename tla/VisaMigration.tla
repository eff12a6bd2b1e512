---------------------------- MODULE VisaMigration ----------------------------
(***************************************************************************)
(* scripts/migrate_visa_source.py: execute, verify and rollback, against a *)
(* bucket without versioning that other operators and a rebuild of the     *)
(* index (app/services/build_index.py) write at the same time.             *)
(*                                                                         *)
(* A metadata object is the build its rows come from and the names under   *)
(* which they cite the Visa filing; its ETag is its content.  Every call   *)
(* to S3 is a step.  One that raises ends its process ("gone"), and so     *)
(* does the death of the process; a write whose answer is lost is a write  *)
(* and then "gone", or is repeated by botocore.                            *)
(***************************************************************************)
EXTENDS Naturals, FiniteSets

CONSTANTS Operators,   \* processes of "execute"
          Verifiers,   \* processes of "verify"
          Restorers,   \* processes of "rollback"
          Seconds,     \* bound: the seconds the clock goes through
          Builds       \* bound: rebuilds of the index

ASSUME DisjointAssumption ==
    /\ Operators \cap Restorers = {}
    /\ Verifiers \cap (Operators \cup Restorers) = {}
ASSUME BoundsAssumption == Seconds \in Nat \ {0} /\ Builds \in Nat

VARIABLES
    meta, index, newPdf, backups,   \* the bucket
    clock, builder, built,          \* the second, a rebuild, and their number
    pc, etag, bytes, vectors,       \* what each process has read
    pdfSeen, key                    \* its view of the new PDF, its backup key or 0

bucket == <<meta, index, newPdf, backups>>
build == <<builder, built>>
reads == <<etag, bytes, vectors, pdfSeen>>
vars == <<bucket, clock, build, pc, reads, key>>
-----------------------------------------------------------------------------
(* Shapes *)

Names == {"old", "new"}
Metadata == [build : 0..Builds, names : SUBSET Names]
Published == {m \in Metadata : m.names # {}}   \* no document without rows
Unread == [build |-> 0, names |-> {}]
Processes == Operators \cup Verifiers \cup Restorers
PdfStates == {"absent", "same", "other"}

ExecutePlaces == {"headMeta", "getMeta", "getIndex", "headNew", "backup",
                  "checkBackup", "copyPdf", "checkPdf", "put", "checkMeta",
                  "checkIndex"}
VerifyPlaces == {"readLive", "readBackup", "readIndex", "readPdfs"}
RollbackPlaces == {"getBackup", "restore", "checkRestored"}

TypeOK ==
    /\ meta \in Published /\ index \in 0..Builds /\ newPdf \in PdfStates
    /\ backups \in [1..Seconds -> Metadata]
    /\ clock \in 1..Seconds /\ built \in 0..Builds
    /\ builder \in [place : {"idle", "listed", "half", "torn"}, names : SUBSET Names]
    /\ pc \in [Processes -> ExecutePlaces \cup VerifyPlaces \cup RollbackPlaces
                           \cup {"done", "gone"}]
    /\ etag \in [Processes -> Metadata] /\ bytes \in [Processes -> Metadata]
    /\ vectors \in [Processes -> 0..Builds]
    /\ pdfSeen \in [Processes -> PdfStates]
    /\ key \in [Processes -> 0..Seconds]

\* Where each mode of main begins.
Mode(p) == CASE p \in Operators -> "headMeta" [] p \in Verifiers -> "readLive"
             [] OTHER -> "getBackup"

Init ==
    /\ meta = [build |-> 0, names |-> {"old"}] /\ index = 0
    /\ newPdf \in PdfStates
    /\ backups = [k \in 1..Seconds |-> Unread]
    /\ clock = 1 /\ built = 0
    /\ builder = [place |-> "idle", names |-> {}]
    /\ pc = [p \in Processes |-> Mode(p)]
    /\ etag = [p \in Processes |-> Unread] /\ bytes = etag
    /\ vectors = [p \in Processes |-> 0]
    /\ pdfSeen = [p \in Processes |-> "absent"]
    /\ key = [p \in Processes |-> 0]

Goto(p, place) == pc' = [pc EXCEPT ![p] = place]
Written == {k \in 1..Seconds : backups[k] # Unread}
-----------------------------------------------------------------------------
(* load_state: the ETag is read before the bytes it is to protect *)

HeadMeta(p) ==
    /\ pc[p] = "headMeta" /\ Goto(p, "getMeta")
    /\ etag' = [etag EXCEPT ![p] = meta]
    /\ UNCHANGED <<bucket, clock, build, bytes, vectors, pdfSeen, key>>

GetMeta(p) ==
    /\ pc[p] = "getMeta" /\ Goto(p, "getIndex")
    /\ bytes' = [bytes EXCEPT ![p] = meta]
    /\ UNCHANGED <<bucket, clock, build, etag, vectors, pdfSeen, key>>

GetIndex(p) ==
    /\ pc[p] = "getIndex" /\ Goto(p, "headNew")
    /\ vectors' = [vectors EXCEPT ![p] = index]
    /\ UNCHANGED <<bucket, clock, build, etag, bytes, pdfSeen, key>>

\* migrate_metadata refuses what cites the new name, or not the old one.
Migratable(m) == m.names = {"old"}

Migrated(m) == [m EXCEPT !.names = {"new"}]

\* The last read, check_preconditions, and the backup's key for this second.
HeadNew(p) ==
    /\ pc[p] = "headNew"
    /\ Goto(p, IF newPdf # "other" /\ Migratable(bytes[p]) THEN "backup" ELSE "gone")
    /\ pdfSeen' = [pdfSeen EXCEPT ![p] = newPdf]
    /\ key' = [key EXCEPT ![p] = clock]
    /\ UNCHANGED <<bucket, clock, build, etag, bytes, vectors>>
-----------------------------------------------------------------------------
(* execute *)

\* CopyObject of whatever is live now; botocore may repeat it.
CopyBackup(p) ==
    /\ pc[p] = "backup" /\ pc' \in {pc, [pc EXCEPT ![p] = "checkBackup"]}
    /\ backups' = [backups EXCEPT ![key[p]] = meta]
    /\ UNCHANGED <<meta, index, newPdf, clock, build, reads, key>>

\* Mutant: the copy is not compared with what was read.
BackupUnchecked(p) == TRUE

BackupMatches(p) == backups[key[p]] = bytes[p]

CheckBackup(p) ==
    /\ pc[p] = "checkBackup"
    /\ Goto(p, IF BackupMatches(p) THEN "copyPdf" ELSE "gone")
    /\ UNCHANGED <<bucket, clock, build, reads, key>>

CopyPdf(p) ==
    /\ pc[p] = "copyPdf" /\ Goto(p, "checkPdf")
    /\ newPdf' = IF pdfSeen[p] = "absent" THEN "same" ELSE newPdf
    /\ UNCHANGED <<meta, index, backups, clock, build, reads, key>>

CheckPdf(p) ==
    /\ pc[p] = "checkPdf"
    /\ Goto(p, IF newPdf = "same" THEN "put" ELSE "gone")
    /\ UNCHANGED <<bucket, clock, build, reads, key>>

\* Mutant: the object is replaced whatever it is now.
MatchesAnything(p) == TRUE

\* If-Match on the ETag of load_state.
Matches(p) == meta = etag[p]

PutMigrated(p) ==
    /\ pc[p] = "put"
    /\ IF Matches(p) THEN meta' = Migrated(bytes[p]) /\ Goto(p, "checkMeta")
       ELSE UNCHANGED meta /\ Goto(p, "gone")
    /\ UNCHANGED <<index, newPdf, backups, clock, build, reads, key>>

\* The checks after the write: a failure asks for a rollback.
CheckMeta(p) ==
    /\ pc[p] = "checkMeta"
    /\ Goto(p, IF meta = Migrated(bytes[p]) THEN "checkIndex" ELSE "gone")
    /\ UNCHANGED <<bucket, clock, build, reads, key>>

CheckIndex(p) ==
    /\ pc[p] = "checkIndex"
    /\ Goto(p, IF index = vectors[p] THEN "done" ELSE "gone")
    /\ UNCHANGED <<bucket, clock, build, reads, key>>
-----------------------------------------------------------------------------
(* verify, with the key and the index hash that an execute reported: it    *)
(* only reads, and fails ("gone") on any problem                           *)

ReadLive(p) ==
    /\ pc[p] = "readLive"
    /\ Goto(p, IF meta.names = {"new"} THEN "readBackup" ELSE "gone")
    /\ bytes' = [bytes EXCEPT ![p] = meta]
    /\ \E q \in Operators :
          /\ pc[q] = "done"
          /\ key' = [key EXCEPT ![p] = key[q]]
          /\ vectors' = [vectors EXCEPT ![p] = vectors[q]]
    /\ UNCHANGED <<bucket, clock, build, etag, pdfSeen>>

\* validate_migration: the live rows are the backup's, renamed.
ReadBackup(p) ==
    /\ pc[p] = "readBackup"
    /\ Goto(p, IF Migrated(backups[key[p]]) = bytes[p] THEN "readIndex" ELSE "gone")
    /\ UNCHANGED <<bucket, clock, build, reads, key>>

ReadIndex(p) ==
    /\ pc[p] = "readIndex"
    /\ Goto(p, IF index = vectors[p] THEN "readPdfs" ELSE "gone")
    /\ UNCHANGED <<bucket, clock, build, reads, key>>

ReadPdfs(p) ==
    /\ pc[p] = "readPdfs"
    /\ Goto(p, IF newPdf = "same" THEN "done" ELSE "gone")
    /\ UNCHANGED <<bucket, clock, build, reads, key>>
-----------------------------------------------------------------------------
(* rollback *)

\* --backup-key is that of an execute that has ended, however it did.
GetBackup(p) ==
    /\ pc[p] = "getBackup" /\ Goto(p, "restore")
    /\ \E q \in Operators :
          /\ pc[q] \in {"done", "gone"} /\ key[q] \in Written
          /\ bytes' = [bytes EXCEPT ![p] = backups[key[q]]]
    /\ UNCHANGED <<bucket, clock, build, etag, vectors, pdfSeen, key>>

\* PutObject without a condition; botocore may repeat it.
Restore(p) ==
    /\ pc[p] = "restore" /\ pc' \in {pc, [pc EXCEPT ![p] = "checkRestored"]}
    /\ meta' = bytes[p]
    /\ UNCHANGED <<index, newPdf, backups, clock, build, reads, key>>

CheckRestored(p) ==
    /\ pc[p] = "checkRestored"
    /\ Goto(p, IF meta = bytes[p] THEN "done" ELSE "gone")
    /\ UNCHANGED <<bucket, clock, build, reads, key>>

\* A call raises, or the process dies.
Gone(p) ==
    /\ pc[p] \notin {"done", "gone"} /\ Goto(p, "gone")
    /\ UNCHANGED <<bucket, clock, build, reads, key>>
-----------------------------------------------------------------------------
(* build_and_save_index, and the clock *)

\* The documents are listed, read and embedded.
ListDocuments ==
    /\ builder.place = "idle" /\ built < Builds
    /\ built' = built + 1
    /\ builder' = [place |-> "listed",
                   names |-> IF newPdf = "absent" THEN {"old"} ELSE Names]
    /\ UNCHANGED <<bucket, clock, pc, reads, key>>

UploadIndex ==
    /\ builder.place = "listed"
    /\ index' = built /\ builder' = [builder EXCEPT !.place = "half"]
    /\ UNCHANGED <<meta, newPdf, backups, clock, built, pc, reads, key>>

UploadMetadata ==
    /\ builder.place = "half"
    /\ meta' = [build |-> built, names |-> builder.names]
    /\ builder' = [builder EXCEPT !.place = "idle"]
    /\ UNCHANGED <<index, newPdf, backups, clock, built, pc, reads, key>>

\* The rebuild fails: between its uploads it leaves a torn pair (bound: the
\* last rebuild).
BuildFails ==
    /\ builder.place \in {"listed", "half"}
    /\ builder' = [builder EXCEPT !.place = IF @ = "half" THEN "torn" ELSE "idle"]
    /\ UNCHANGED <<bucket, clock, built, pc, reads, key>>

Tick == /\ clock < Seconds /\ clock' = clock + 1
        /\ UNCHANGED <<bucket, build, pc, reads, key>>

Execute(p) ==
    \/ HeadMeta(p) \/ GetMeta(p) \/ GetIndex(p) \/ HeadNew(p)
    \/ CopyBackup(p) \/ CheckBackup(p) \/ CopyPdf(p) \/ CheckPdf(p)
    \/ PutMigrated(p) \/ CheckMeta(p) \/ CheckIndex(p)
\* Through ReadOnlyS3, which refuses whatever is not a read.
Verify(p) == ReadLive(p) \/ ReadBackup(p) \/ ReadIndex(p) \/ ReadPdfs(p)
Rollback(p) == GetBackup(p) \/ Restore(p) \/ CheckRestored(p)
Rebuild == ListDocuments \/ UploadIndex \/ UploadMetadata \/ BuildFails

Next ==
    \/ \E p \in Operators : Execute(p) \/ Gone(p)
    \/ \E p \in Verifiers : Verify(p) \/ Gone(p)
    \/ \E p \in Restorers : Rollback(p) \/ Gone(p)
    \/ Rebuild \/ Tick

Spec == Init /\ [][Next]_vars
-----------------------------------------------------------------------------
(* Properties *)

\* No two operators computed the key of their backup in the same second.
DistinctKeys == \A p, q \in Operators : p # q /\ key[p] # 0 => key[p] # key[q]

Original(m) == [m EXCEPT !.names = {"old"}]

\* The key that a successful execute returned, and that a verify passed, holds
\* what it says.
BackupsKept ==
    /\ \A p \in Operators : pc[p] = "done" => backups[key[p]] = bytes[p]
    /\ \A p \in Verifiers : pc[p] = "done" => backups[key[p]] = Original(bytes[p])

\* The bucket keeps no versions, yet whenever migrated metadata is live, what
\* it was made from is in a backup, and a backup that execute or verify vouched
\* for stays what it was: also when execute raised or died right after its
\* write, and when rollbacks and rebuilds came in between.
OriginalRecoverable == TypeOK /\ (DistinctKeys =>
    /\ meta.names = {"new"} => \E k \in Written : backups[k] = Original(meta)
    /\ BackupsKept)

\* A backup holds the version, or what a migrated one was made from.
Recoverable(m) == \E k \in Written :
    backups[k] = m \/ (m.names = {"new"} /\ backups[k] = Original(m))

\* execute never replaces a version that cannot be had back from a backup,
\* whoever published it.  The ETag is older than the bytes: a version that
\* comes back under an old ETag comes back from a backup, or is what another
\* execute made of the same original.
Replaces(p) == pc[p] = "put" /\ pc'[p] = "checkMeta"
NothingLost == [][\A p \in Operators :
                      DistinctKeys /\ Replaces(p) => Recoverable(meta)]_vars

\* Rows and vectors stay those of one build: no interleaving of execute with
\* the two uploads of a rebuild leaves migrated rows of another build.
RowsAligned == builder.place = "idle" /\ (\A r \in Restorers : pc[r] = "getBackup")
                   => meta.build = index

\* The claim of the runbook: the backup of a successful execute stays in
\* place, so that the rollback restores the original metadata.
BackupStays == \A p \in Operators : pc[p] = "done" => backups[key[p]] = bytes[p]
=============================================================================
