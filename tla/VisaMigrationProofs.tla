------------------------ MODULE VisaMigrationProofs ------------------------
(***************************************************************************)
(* Proofs about VisaMigration, for every set of operators, verifies and    *)
(* rollbacks, every number of rebuilds and of seconds.                     *)
(***************************************************************************)
EXTENDS VisaMigration, TLAPS

-----------------------------------------------------------------------------
(* The inductive invariant *)

Early == {"headMeta", "getMeta", "getIndex", "headNew"}
Checked == {"copyPdf", "checkPdf", "put", "checkMeta", "checkIndex", "done"}
Settled == {"checkBackup", "gone"} \cup Checked
HasBytes == {"getIndex", "headNew", "backup", "checkBackup", "copyPdf", "checkPdf", "put"}
HasTag == {"getMeta"} \cup HasBytes
Vouching == {"readIndex", "readPdfs", "done"}

\* Every process keeps to its mode; an operator's key is set by its last read.
Shape ==
    /\ \A p \in Operators :
          /\ pc[p] \in ExecutePlaces \cup {"done", "gone"}
          /\ pc[p] \in Early => key[p] = 0
          /\ pc[p] \in {"backup", "checkBackup"} \cup Checked =>
                key[p] \in 1..Seconds /\ Migratable(bytes[p])
    /\ \A v \in Verifiers : pc[v] \in VerifyPlaces \cup {"done", "gone"}
    /\ \A r \in Restorers : /\ pc[r] \in RollbackPlaces \cup {"done", "gone"}
                            /\ pc[r] \in {"restore", "checkRestored"} => bytes[r] \in Published
    /\ \A k \in 1..Seconds : backups[k] \in Published \cup {Unread}
    /\ builder.place \in {"listed", "half"} => builder.names \in {{"old"}, Names}

\* What a rebuild publishes has never been seen before.
Known(m) == /\ m.build <= built
            /\ builder.place \in {"listed", "half"} => m.build < built
Seen == /\ Known(meta)
        /\ \A k \in 1..Seconds : Known(backups[k])
        /\ \A p \in Processes : Known(etag[p]) /\ Known(bytes[p])

\* Without a rollback the builds only go up, so that an ETag that still
\* matches covers bytes of its own build.
Untouched == \A r \in Restorers : pc[r] = "getBackup"
Ordered == Untouched =>
    /\ builder.place \in {"idle", "listed"} => meta.build = index
    /\ builder.place = "half" => index = built
    /\ \A p \in Operators : pc[p] \in HasTag => etag[p].build <= meta.build
    /\ \A p \in Operators : pc[p] \in HasBytes =>
          etag[p].build <= bytes[p].build /\ bytes[p].build <= meta.build

\* A backup that its operator has left alone for good.
Held(m) == \E q \in Operators :
    pc[q] \in Settled /\ key[q] \in 1..Seconds /\ backups[key[q]] = m

Safe == DistinctKeys =>
    /\ \A p \in Operators : pc[p] \in Checked => backups[key[p]] = bytes[p]
    /\ meta.names = {"new"} => Held(Original(meta))
    /\ \A k \in 1..Seconds : backups[k].names = {"new"} => Held(Original(backups[k]))
    /\ \A r \in Restorers : pc[r] \in {"restore", "checkRestored"} => Held(bytes[r])
    /\ \A p \in Operators : pc[p] \in HasBytes /\ meta = etag[p] /\ meta.names # {"new"} =>
          etag[p] = bytes[p] \/ Held(meta)
    /\ \A v \in Verifiers : pc[v] \in {"readBackup"} \cup Vouching =>
          \E q \in Operators : pc[q] = "done" /\ key[v] = key[q]
    /\ \A v \in Verifiers : pc[v] \in Vouching => Migrated(backups[key[v]]) = bytes[v]

IInv == TypeOK /\ Shape /\ Seen /\ Ordered /\ Safe
-----------------------------------------------------------------------------
(* What a step may disturb *)

\* A settled backup stays while its operator does, and nobody writes its key.
LEMMA HeldStays ==
    ASSUME \A q \in Operators : pc[q] \in Settled /\ key[q] \in 1..Seconds =>
              /\ pc'[q] \in Settled /\ key'[q] = key[q]
              /\ backups'[key[q]] = backups[key[q]]
    PROVE  \A m : Held(m) => Held(m)'
BY DEF Held

\* While the bucket's metadata stays, so does what its backups hold.
LEMMA BackupsSafe ==
    ASSUME IInv, DistinctKeys, UNCHANGED <<meta, backups>>, \A m : Held(m) => Held(m)'
    PROVE  /\ meta'.names = {"new"} => Held(Original(meta))'
           /\ \A k \in 1..Seconds : backups'[k].names = {"new"} => Held(Original(backups[k]))'
<1>1. meta.names = {"new"} => Held(Original(meta))
  BY DEF IInv, Safe
<1>2. \A k \in 1..Seconds : backups[k].names = {"new"} => Held(Original(backups[k]))
  BY DEF IInv, Safe
<1>3. meta'.names = {"new"} => Held(Original(meta))'
  <2> SUFFICES ASSUME meta.names = {"new"} PROVE Held(Original(meta))'
    OBVIOUS
  <2> PICK m : m = Original(meta)
    OBVIOUS
  <2>1. Held(m)' /\ m = Original(meta')
    BY <1>1
  <2> QED BY <2>1 DEF Held
<1>4. ASSUME NEW k \in 1..Seconds, backups'[k].names = {"new"}
      PROVE  Held(Original(backups[k]))'
  <2> PICK m : m = Original(backups[k])
    OBVIOUS
  <2>1. Held(m)' /\ m = Original(backups'[k])
    BY <1>2, <1>4
  <2> QED BY <2>1 DEF Held
<1> QED BY <1>3, <1>4

Later == {"backup", "checkBackup"} \cup Checked
Restoring == {"restore", "checkRestored"}
Verifying == {"readBackup"} \cup Vouching

\* Where a process may go while it reads, compares and gives up.
Steps(p, w) ==
    /\ p \in Operators =>
          /\ w \in ExecutePlaces \cup {"done", "gone"}
          /\ w \in Early => pc[p] \in Early
          /\ w \in Later => pc[p] \in Later
          /\ w \in HasTag => pc[p] \in HasTag
          /\ w \in HasBytes => pc[p] \in HasBytes
          /\ pc[p] \in Settled => w \in Settled
          /\ w \in Checked => pc[p] \in Checked \/ backups[key[p]] = bytes[p]
          /\ pc[p] # "done"
    /\ p \in Verifiers =>
          /\ w \in VerifyPlaces \cup {"done", "gone"}
          /\ w \in Verifying => pc[p] \in Verifying
          /\ w \in Vouching => pc[p] \in Vouching \/ Migrated(backups[key[p]]) = bytes[p]
    /\ p \in Restorers =>
          /\ w \in RollbackPlaces \cup {"done", "gone"} /\ w # "getBackup"
          /\ w \in Restoring => pc[p] \in Restoring

\* A step that changes nothing the invariant speaks of but a place.
LEMMA QuietStep ==
    ASSUME IInv, NEW p \in Processes, NEW w, pc' = [pc EXCEPT ![p] = w], Steps(p, w), TypeOK',
           UNCHANGED <<meta, index, backups, built, builder, etag, bytes, key>>
    PROVE  IInv'
<1>1. pc'[p] = w /\ \A q \in Processes : q # p => pc'[q] = pc[q]
  BY DEF IInv, TypeOK
<1>2. Operators \subseteq Processes /\ Verifiers \subseteq Processes /\ Restorers \subseteq Processes
  BY DEF Processes
<1>3. Shape'
  BY <1>1, <1>2 DEF IInv, Shape, Steps, Later, Restoring
<1>4. Seen'
  BY DEF IInv, Seen, Known
<1>5. Ordered'
  BY <1>1, <1>2 DEF IInv, Ordered, Untouched, Steps
<1>6. \A m : Held(m) => Held(m)'
  <2>1. \A q \in Operators : pc[q] \in Settled => pc'[q] \in Settled
    BY <1>1, <1>2 DEF Steps
  <2> QED BY <2>1, HeldStays
<1>7. Safe'
  <2> SUFFICES ASSUME DistinctKeys' PROVE Safe'
    BY DEF Safe
  <2>1. DistinctKeys
    BY DEF DistinctKeys
  <2>2. \A q \in Operators : pc'[q] \in Checked => backups'[key'[q]] = bytes'[q]
    BY <1>1, <1>2, <2>1 DEF IInv, Safe, Steps
  <2>3. /\ meta'.names = {"new"} => Held(Original(meta))'
        /\ \A k \in 1..Seconds : backups'[k].names = {"new"} => Held(Original(backups[k]))'
    BY <1>6, <2>1, BackupsSafe
  <2>4. \A r \in Restorers : pc'[r] \in Restoring => Held(bytes[r])'
    BY <1>1, <1>2, <1>6, <2>1 DEF IInv, Safe, Held, Steps, Restoring
  <2>5. \A q \in Operators : pc'[q] \in HasBytes /\ meta' = etag'[q] /\ meta'.names # {"new"} =>
           etag'[q] = bytes'[q] \/ Held(meta)'
    BY <1>1, <1>2, <1>6, <2>1 DEF IInv, Safe, Held, Steps
  <2>6. \A v \in Verifiers : pc'[v] \in Verifying =>
           \E q \in Operators : pc'[q] = "done" /\ key'[v] = key'[q]
    BY <1>1, <1>2, <2>1 DEF IInv, Safe, Steps, Verifying
  <2>7. \A v \in Verifiers : pc'[v] \in Vouching => Migrated(backups'[key'[v]]) = bytes'[v]
    BY <1>1, <1>2, <2>1 DEF IInv, Safe, Steps, Vouching
  <2> QED BY <2>2, <2>3, <2>4, <2>5, <2>6, <2>7 DEF Safe, Restoring, Verifying
<1> QED BY <1>3, <1>4, <1>5, <1>7 DEF IInv

Anywhere == ExecutePlaces \cup VerifyPlaces \cup RollbackPlaces \cup {"done", "gone"}

\* A comparison of what was read: it goes on, or gives up.
LEMMA CompareStep ==
    ASSUME IInv, NEW p \in Processes, NEW w \in Anywhere, pc' = [pc EXCEPT ![p] = w], Steps(p, w),
           UNCHANGED <<bucket, clock, build, reads, key>>
    PROVE  IInv'
<1>1. UNCHANGED <<meta, index, newPdf, backups, clock, built, builder, etag, bytes, vectors, pdfSeen, key>>
  BY DEF bucket, build, reads
<1>2. TypeOK'
  BY <1>1 DEF IInv, TypeOK, Anywhere
<1> QED BY <1>1, <1>2, QuietStep

\* The comparisons of execute.
LEMMA ExecuteCompares ==
    ASSUME IInv, NEW p \in Operators,
           CheckBackup(p) \/ CheckPdf(p) \/ CheckMeta(p) \/ CheckIndex(p)
    PROVE  IInv'
<1> USE DisjointAssumption
<1>1. PICK w \in {"copyPdf", "put", "checkIndex", "done", "gone"} :
         /\ pc' = [pc EXCEPT ![p] = w]
         /\ \/ pc[p] = "checkBackup" /\ w \in {"copyPdf", "gone"}
            \/ pc[p] = "checkPdf" /\ w \in {"put", "gone"}
            \/ pc[p] = "checkMeta" /\ w \in {"checkIndex", "gone"}
            \/ pc[p] = "checkIndex" /\ w \in {"done", "gone"}
         /\ pc[p] = "checkBackup" /\ w = "copyPdf" => backups[key[p]] = bytes[p]
  BY DEF CheckBackup, CheckPdf, CheckMeta, CheckIndex, Goto, BackupMatches
<1>2. p \in Processes /\ p \notin Verifiers /\ p \notin Restorers
  BY DEF Processes
<1>3. Steps(p, w)
  BY <1>1, <1>2 DEF Steps, ExecutePlaces, Early, Later, Checked, HasTag, HasBytes, Settled
<1>4. w \in Anywhere
  BY DEF Anywhere, ExecutePlaces
<1>5. UNCHANGED <<bucket, clock, build, reads, key>>
  BY DEF CheckBackup, CheckPdf, CheckMeta, CheckIndex
<1> QED BY <1>1, <1>2, <1>3, <1>4, <1>5, CompareStep

\* The comparisons of verify.
LEMMA VerifyCompares ==
    ASSUME IInv, NEW p \in Verifiers, ReadBackup(p) \/ ReadIndex(p) \/ ReadPdfs(p)
    PROVE  IInv'
<1> USE DisjointAssumption
<1>1. PICK w \in {"readIndex", "readPdfs", "done", "gone"} :
         /\ pc' = [pc EXCEPT ![p] = w]
         /\ \/ pc[p] = "readBackup" /\ w \in {"readIndex", "gone"}
            \/ pc[p] = "readIndex" /\ w \in {"readPdfs", "gone"}
            \/ pc[p] = "readPdfs" /\ w \in {"done", "gone"}
         /\ pc[p] = "readBackup" /\ w = "readIndex" => Migrated(backups[key[p]]) = bytes[p]
  BY DEF ReadBackup, ReadIndex, ReadPdfs, Goto
<1>2. p \in Processes /\ p \notin Operators /\ p \notin Restorers
  BY DEF Processes
<1>3. Steps(p, w)
  BY <1>1, <1>2 DEF Steps, VerifyPlaces, Verifying, Vouching
<1>4. w \in Anywhere
  BY DEF Anywhere, VerifyPlaces
<1>5. UNCHANGED <<bucket, clock, build, reads, key>>
  BY DEF ReadBackup, ReadIndex, ReadPdfs
<1> QED BY <1>1, <1>2, <1>3, <1>4, <1>5, CompareStep

\* The comparison of rollback.
LEMMA RollbackCompares ==
    ASSUME IInv, NEW p \in Restorers, CheckRestored(p)
    PROVE  IInv'
<1> USE DisjointAssumption
<1>1. PICK w \in {"done", "gone"} : pc' = [pc EXCEPT ![p] = w]
  BY DEF CheckRestored, Goto
<1>2. p \in Processes /\ p \notin Operators /\ p \notin Verifiers
  BY DEF Processes
<1>3. Steps(p, w)
  BY <1>1, <1>2 DEF Steps, RollbackPlaces, Restoring
<1>4. w \in Anywhere
  BY DEF Anywhere
<1>5. UNCHANGED <<bucket, clock, build, reads, key>>
  BY DEF CheckRestored
<1> QED BY <1>1, <1>2, <1>3, <1>4, <1>5, CompareStep

\* A process that dies, or whose call raises, leaves the bucket as it is.
LEMMA GoneStep ==
    ASSUME IInv, NEW p \in Processes, Gone(p)
    PROVE  IInv'
<1>1. /\ pc' = [pc EXCEPT ![p] = "gone"] /\ pc[p] # "done"
      /\ UNCHANGED <<bucket, clock, build, reads, key>>
  BY DEF Gone, Goto
<1>2. Steps(p, "gone")
  BY <1>1 DEF Steps, Early, Later, Checked, HasTag, HasBytes, Settled, Verifying, Vouching, Restoring
<1>3. "gone" \in Anywhere
  BY DEF Anywhere
<1> QED BY <1>1, <1>2, <1>3, CompareStep

\* The old vectors are read, and the new PDF is copied.
LEMMA AsideStep ==
    ASSUME IInv, NEW p \in Operators, GetIndex(p) \/ CopyPdf(p)
    PROVE  IInv'
<1> USE DisjointAssumption
<1>1. PICK w \in {"headNew", "checkPdf"} :
         /\ pc' = [pc EXCEPT ![p] = w]
         /\ \/ pc[p] = "getIndex" /\ w = "headNew"
            \/ pc[p] = "copyPdf" /\ w = "checkPdf"
  BY DEF GetIndex, CopyPdf, Goto
<1>2. p \in Processes /\ p \notin Verifiers /\ p \notin Restorers
  BY DEF Processes
<1>3. Steps(p, w)
  BY <1>1, <1>2 DEF Steps, ExecutePlaces, Early, Later, Checked, HasTag, HasBytes, Settled
<1>4. UNCHANGED <<meta, index, backups, clock, built, builder, etag, bytes, pdfSeen, key>>
  BY DEF GetIndex, CopyPdf, bucket, build, reads
<1>5. TypeOK'
  <2>1. /\ newPdf' \in PdfStates /\ vectors' \in [Processes -> 0..Builds]
    <3>1. CASE GetIndex(p)
      BY <3>1 DEF GetIndex, bucket, IInv, TypeOK
    <3>2. CASE CopyPdf(p)
      BY <3>2 DEF CopyPdf, reads, IInv, TypeOK, PdfStates
    <3> QED BY <3>1, <3>2
  <2>2. pc' \in [Processes -> Anywhere]
    BY <1>1, <1>2 DEF IInv, TypeOK, Anywhere, ExecutePlaces
  <2> QED BY <1>4, <2>1, <2>2 DEF IInv, TypeOK, Anywhere
<1> QED BY <1>1, <1>2, <1>3, <1>4, <1>5, QuietStep
-----------------------------------------------------------------------------
(* The steps of execute *)

\* What an operator reads before its backup is settled disturbs no backup.
LEMMA OperatorSafe ==
    ASSUME IInv, NEW p \in Operators, DistinctKeys, UNCHANGED <<meta, backups>>,
           \A q \in Processes : q # p => /\ pc'[q] = pc[q] /\ bytes'[q] = bytes[q]
                                       /\ etag'[q] = etag[q] /\ key'[q] = key[q],
           pc[p] \notin Settled, pc'[p] \notin Checked,
           pc'[p] \in HasBytes /\ meta = etag'[p] /\ meta.names # {"new"} =>
              etag'[p] = bytes'[p] \/ Held(meta)
    PROVE  Safe'
<1> USE DisjointAssumption
<1>1. p \in Processes /\ p \notin Verifiers /\ p \notin Restorers
      /\ Operators \subseteq Processes /\ Verifiers \subseteq Processes /\ Restorers \subseteq Processes
  BY DEF Processes
<1>2. \A m : Held(m) => Held(m)'
  BY <1>1, HeldStays
<1>3. \A q \in Operators : pc'[q] \in Checked => backups'[key'[q]] = bytes'[q]
  BY <1>1 DEF IInv, Safe
<1>4. /\ meta'.names = {"new"} => Held(Original(meta))'
      /\ \A k \in 1..Seconds : backups'[k].names = {"new"} => Held(Original(backups[k]))'
  BY <1>2, BackupsSafe
<1>5. \A r \in Restorers : pc'[r] \in {"restore", "checkRestored"} => Held(bytes[r])'
  <2> SUFFICES ASSUME NEW r \in Restorers, pc'[r] \in {"restore", "checkRestored"}
               PROVE  Held(bytes[r])'
    OBVIOUS
  <2>1. Held(bytes[r]) /\ bytes'[r] = bytes[r]
    BY <1>1 DEF IInv, Safe
  <2> QED BY <1>2, <2>1 DEF Held
<1>6. \A q \in Operators : pc'[q] \in HasBytes /\ meta' = etag'[q] /\ meta'.names # {"new"} =>
         etag'[q] = bytes'[q] \/ Held(meta)'
  <2> SUFFICES ASSUME NEW q \in Operators, pc'[q] \in HasBytes, meta' = etag'[q],
                      meta'.names # {"new"}
               PROVE  etag'[q] = bytes'[q] \/ Held(meta)'
    OBVIOUS
  <2>1. etag'[q] = bytes'[q] \/ Held(meta)
    BY <1>1 DEF IInv, Safe
  <2> QED BY <1>2, <2>1 DEF Held
<1>7. \A v \in Verifiers : pc'[v] \in {"readBackup"} \cup Vouching =>
         \E q \in Operators : pc'[q] = "done" /\ key'[v] = key'[q]
  <2>1. pc[p] # "done"
    BY DEF Settled, Checked
  <2> QED BY <1>1, <2>1 DEF IInv, Safe
<1>8. \A v \in Verifiers : pc'[v] \in Vouching => Migrated(backups'[key'[v]]) = bytes'[v]
  BY <1>1 DEF IInv, Safe
<1> QED BY <1>3, <1>4, <1>5, <1>6, <1>7, <1>8 DEF Safe

\* The ETag is that of what is live.
LEMMA HeadMetaStep ==
    ASSUME IInv, NEW p \in Operators, HeadMeta(p)
    PROVE  IInv'
<1> USE DisjointAssumption
<1>1. /\ pc[p] = "headMeta" /\ pc' = [pc EXCEPT ![p] = "getMeta"]
      /\ etag' = [etag EXCEPT ![p] = meta]
      /\ UNCHANGED <<meta, index, newPdf, backups, clock, built, builder>>
      /\ UNCHANGED <<bytes, vectors, pdfSeen, key>>
  BY DEF HeadMeta, Goto, bucket, build
<1>2. p \in Processes /\ p \notin Verifiers /\ p \notin Restorers
      /\ Operators \subseteq Processes /\ Verifiers \subseteq Processes /\ Restorers \subseteq Processes
  BY DEF Processes
<1>3. pc'[p] = "getMeta" /\ \A q \in Processes : q # p => pc'[q] = pc[q]
  BY <1>1, <1>2 DEF IInv, TypeOK
<1>4. meta \in Metadata /\ meta.build \in Nat
  BY BoundsAssumption DEF IInv, TypeOK, Published, Metadata
<1>5. etag' \in [Processes -> Metadata] /\ etag'[p] = meta /\ \A q \in Processes : q # p => etag'[q] = etag[q]
  BY <1>1, <1>2, <1>4 DEF IInv, TypeOK
<1>6. TypeOK'
  <2>1. pc' \in [Processes -> Anywhere]
    BY <1>1, <1>2 DEF IInv, TypeOK, Anywhere, ExecutePlaces
  <2> QED BY <1>1, <1>5, <2>1 DEF IInv, TypeOK, Anywhere
<1>7. Shape'
  BY <1>1, <1>2, <1>3 DEF IInv, Shape, ExecutePlaces, Early, Checked
<1>8. Seen'
  BY <1>1, <1>2, <1>5 DEF IInv, Seen, Known
<1>9. Ordered'
  BY <1>1, <1>2, <1>3, <1>4, <1>5 DEF IInv, Ordered, Untouched, HasTag, HasBytes
<1>10. Safe'
  <2> SUFFICES ASSUME DistinctKeys' PROVE Safe'
    BY DEF Safe
  <2>1. DistinctKeys
    BY <1>1 DEF DistinctKeys
  <2>2. "getMeta" \notin Checked \cup HasBytes /\ pc[p] \notin Settled
    BY <1>1 DEF Checked, HasBytes, Settled
  <2> QED BY <1>1, <1>3, <1>5, <2>1, <2>2, OperatorSafe
<1> QED BY <1>6, <1>7, <1>8, <1>9, <1>10 DEF IInv

\* The bytes are those of what is live, whose ETag may be another one by now.
LEMMA GetMetaStep ==
    ASSUME IInv, NEW p \in Operators, GetMeta(p)
    PROVE  IInv'
<1> USE DisjointAssumption
<1>1. /\ pc[p] = "getMeta" /\ pc' = [pc EXCEPT ![p] = "getIndex"]
      /\ bytes' = [bytes EXCEPT ![p] = meta]
      /\ UNCHANGED <<meta, index, newPdf, backups, clock, built, builder>>
      /\ UNCHANGED <<etag, vectors, pdfSeen, key>>
  BY DEF GetMeta, Goto, bucket, build
<1>2. p \in Processes /\ p \notin Verifiers /\ p \notin Restorers
      /\ Operators \subseteq Processes /\ Verifiers \subseteq Processes /\ Restorers \subseteq Processes
  BY DEF Processes
<1>3. pc'[p] = "getIndex" /\ \A q \in Processes : q # p => pc'[q] = pc[q]
  BY <1>1, <1>2 DEF IInv, TypeOK
<1>4. meta \in Metadata /\ meta.build \in Nat
  BY BoundsAssumption DEF IInv, TypeOK, Published, Metadata
<1>5. bytes' \in [Processes -> Metadata] /\ bytes'[p] = meta
      /\ \A q \in Processes : q # p => bytes'[q] = bytes[q]
  BY <1>1, <1>2, <1>4 DEF IInv, TypeOK
<1>6. TypeOK'
  <2>1. pc' \in [Processes -> Anywhere]
    BY <1>1, <1>2 DEF IInv, TypeOK, Anywhere, ExecutePlaces
  <2> QED BY <1>1, <1>5, <2>1 DEF IInv, TypeOK, Anywhere
<1>7. Shape'
  BY <1>1, <1>2, <1>3, <1>5 DEF IInv, Shape, ExecutePlaces, Early, Checked
<1>8. Seen'
  BY <1>1, <1>2, <1>5 DEF IInv, Seen, Known
<1>9. Ordered'
  BY <1>1, <1>2, <1>3, <1>4, <1>5 DEF IInv, Ordered, Untouched, HasTag, HasBytes
<1>10. Safe'
  <2> SUFFICES ASSUME DistinctKeys' PROVE Safe'
    BY DEF Safe
  <2>1. DistinctKeys
    BY <1>1 DEF DistinctKeys
  <2>2. "getIndex" \notin Checked /\ pc[p] \notin Settled
    BY <1>1 DEF Checked, Settled
  <2> QED BY <1>1, <1>3, <1>5, <2>1, <2>2, OperatorSafe
<1> QED BY <1>6, <1>7, <1>8, <1>9, <1>10 DEF IInv

\* The preconditions hold, and the key of the backup is that of this second.
LEMMA HeadNewStep ==
    ASSUME IInv, NEW p \in Operators, HeadNew(p)
    PROVE  IInv'
<1> USE DisjointAssumption
<1>1. PICK w \in {"backup", "gone"} :
         pc' = [pc EXCEPT ![p] = w] /\ (w = "backup" => Migratable(bytes[p]))
  BY DEF HeadNew, Goto
<1>2. /\ pc[p] = "headNew" /\ pdfSeen' = [pdfSeen EXCEPT ![p] = newPdf]
      /\ key' = [key EXCEPT ![p] = clock]
      /\ UNCHANGED <<meta, index, newPdf, backups, clock, built, builder>>
      /\ UNCHANGED <<etag, bytes, vectors>>
  BY DEF HeadNew, bucket, build
<1>3. p \in Processes /\ p \notin Verifiers /\ p \notin Restorers
      /\ Operators \subseteq Processes /\ Verifiers \subseteq Processes /\ Restorers \subseteq Processes
  BY DEF Processes
<1>4. pc'[p] = w /\ \A q \in Processes : q # p => pc'[q] = pc[q]
  BY <1>1, <1>3 DEF IInv, TypeOK
<1>5. /\ clock \in 1..Seconds /\ key' \in [Processes -> 0..Seconds] /\ key'[p] = clock
      /\ \A q \in Processes : q # p => key'[q] = key[q]
  BY <1>2, <1>3, BoundsAssumption DEF IInv, TypeOK
<1>6. TypeOK'
  <2>1. pc' \in [Processes -> Anywhere]
    BY <1>1, <1>3 DEF IInv, TypeOK, Anywhere, ExecutePlaces
  <2>2. pdfSeen' \in [Processes -> PdfStates]
    BY <1>2, <1>3 DEF IInv, TypeOK
  <2> QED BY <1>2, <1>5, <2>1, <2>2 DEF IInv, TypeOK, Anywhere
<1>7. Shape'
  BY <1>1, <1>2, <1>3, <1>4, <1>5 DEF IInv, Shape, ExecutePlaces, Early, Checked
<1>8. Seen'
  BY <1>2 DEF IInv, Seen, Known
<1>9. Ordered'
  BY <1>1, <1>2, <1>3, <1>4 DEF IInv, Ordered, Untouched, HasTag, HasBytes
<1>10. key[p] = 0 /\ pc[p] \notin Settled
  BY <1>2 DEF IInv, Shape, Early, Settled, Checked
<1>11. Safe'
  <2> SUFFICES ASSUME DistinctKeys' PROVE Safe'
    BY DEF Safe
  <2>1. DistinctKeys
    BY <1>3, <1>5, <1>10 DEF DistinctKeys
  <2>2. w \notin Checked /\ pc[p] \in HasBytes
    BY <1>2 DEF Checked, HasBytes
  <2>3. meta = etag[p] /\ meta.names # {"new"} => etag[p] = bytes[p] \/ Held(meta)
    BY <2>1, <2>2 DEF IInv, Safe
  <2> QED BY <1>2, <1>4, <1>5, <1>10, <2>1, <2>2, <2>3, OperatorSafe
<1> QED BY <1>6, <1>7, <1>8, <1>9, <1>11 DEF IInv

\* A copy under a key of its own disturbs no settled backup.
LEMMA CopyBackupStep ==
    ASSUME IInv, NEW p \in Operators, CopyBackup(p)
    PROVE  IInv'
<1> USE DisjointAssumption
<1> PICK k0 : k0 = key[p]
  OBVIOUS
<1>1. PICK w \in {"backup", "checkBackup"} : pc' = [pc EXCEPT ![p] = w]
  <2>1. pc[p] = "backup" /\ (pc' = pc \/ pc' = [pc EXCEPT ![p] = "checkBackup"])
    BY DEF CopyBackup
  <2>2. pc = [pc EXCEPT ![p] = "backup"]
    BY <2>1 DEF IInv, TypeOK
  <2> QED BY <2>1, <2>2
<1>2. /\ pc[p] = "backup" /\ backups' = [backups EXCEPT ![k0] = meta]
      /\ UNCHANGED <<meta, index, newPdf, clock, built, builder>>
      /\ UNCHANGED <<etag, bytes, vectors, pdfSeen, key>>
  BY DEF CopyBackup, build, reads
<1>3. p \in Processes /\ p \notin Verifiers /\ p \notin Restorers
      /\ Operators \subseteq Processes /\ Verifiers \subseteq Processes /\ Restorers \subseteq Processes
  BY DEF Processes
<1>4. pc'[p] = w /\ \A q \in Processes : q # p => pc'[q] = pc[q]
  BY <1>1, <1>3 DEF IInv, TypeOK
<1>5. /\ k0 \in 1..Seconds /\ meta \in Published /\ meta \in Metadata
      /\ backups \in [1..Seconds -> Metadata]
  BY <1>2 DEF IInv, Shape, TypeOK, Published
<1>6. /\ backups' \in [1..Seconds -> Metadata] /\ backups'[k0] = meta
      /\ \A k \in 1..Seconds : k # k0 => backups'[k] = backups[k]
  BY <1>2, <1>5
<1>7. TypeOK'
  <2>1. pc' \in [Processes -> Anywhere]
    BY <1>1, <1>3 DEF IInv, TypeOK, Anywhere, ExecutePlaces
  <2> QED BY <1>2, <1>6, <2>1 DEF IInv, TypeOK, Anywhere
<1>8. Shape'
  BY <1>1, <1>2, <1>3, <1>4, <1>5, <1>6 DEF IInv, Shape, ExecutePlaces, Early, Checked
<1>9. Seen'
  BY <1>2, <1>5, <1>6 DEF IInv, Seen, Known
<1>10. Ordered'
  BY <1>1, <1>2, <1>3, <1>4 DEF IInv, Ordered, Untouched, HasTag, HasBytes
<1>11. Safe'
  <2> SUFFICES ASSUME DistinctKeys' PROVE Safe'
    BY DEF Safe
  <2>1. DistinctKeys
    BY <1>2 DEF DistinctKeys
  <2>2. \A q \in Operators : q # p /\ key[q] \in 1..Seconds =>
           key[q] # k0 /\ backups'[key[q]] = backups[key[q]]
    BY <1>5, <1>6, <2>1 DEF DistinctKeys
  <2>3. pc[p] \notin Settled /\ pc[p] \notin Checked /\ w \notin Checked
    BY <1>2 DEF Settled, Checked
  <2>4. \A m : Held(m) => Held(m)'
    BY <1>2, <1>3, <1>4, <2>2, <2>3, HeldStays
  <2>5. \A q \in Operators : pc'[q] \in Checked => backups'[key'[q]] = bytes'[q]
    BY <1>2, <1>3, <1>4, <2>1, <2>2, <2>3 DEF IInv, Safe, Shape
  <2>6. meta'.names = {"new"} => Held(Original(meta))'
    <3> SUFFICES ASSUME meta'.names = {"new"} PROVE Held(Original(meta))'
      OBVIOUS
    <3> PICK m : m = Original(meta)
      OBVIOUS
    <3>1. Held(m)
      BY <1>2, <2>1 DEF IInv, Safe
    <3>2. Held(m)' /\ m = Original(meta')
      BY <1>2, <2>4, <3>1
    <3> QED BY <3>2 DEF Held
  <2>7. \A k \in 1..Seconds : backups'[k].names = {"new"} => Held(Original(backups[k]))'
    <3> SUFFICES ASSUME NEW k \in 1..Seconds, backups'[k].names = {"new"}
                 PROVE  Held(Original(backups[k]))'
      OBVIOUS
    <3>1. CASE k = k0
      BY <1>2, <1>6, <2>6, <3>1 DEF Held
    <3>2. CASE k # k0
      <4> PICK m : m = Original(backups[k])
        OBVIOUS
      <4>1. backups'[k] = backups[k]
        BY <1>6, <3>2
      <4>2. Held(m)
        BY <2>1, <4>1 DEF IInv, Safe
      <4>3. Held(m)' /\ m = Original(backups'[k])
        BY <2>4, <4>1, <4>2
      <4> QED BY <4>3 DEF Held
    <3> QED BY <3>1, <3>2
  <2>8. \A r \in Restorers : pc'[r] \in {"restore", "checkRestored"} => Held(bytes[r])'
    BY <1>2, <1>3, <1>4, <2>1, <2>4 DEF IInv, Safe, Held
  <2>9. \A q \in Operators : pc'[q] \in HasBytes /\ meta' = etag'[q] /\ meta'.names # {"new"} =>
           etag'[q] = bytes'[q] \/ Held(meta)'
    <3>1. pc[p] \in HasBytes
      BY <1>2 DEF HasBytes
    <3> QED BY <1>2, <1>3, <1>4, <2>1, <2>4, <3>1 DEF IInv, Safe, Held
  <2>10. \A v \in Verifiers : pc'[v] \in {"readBackup"} \cup Vouching =>
            \E q \in Operators : q # p /\ pc[q] = "done" /\ pc'[q] = "done" /\ key'[v] = key'[q]
                              /\ key[v] = key[q]
    BY <1>2, <1>3, <1>4, <2>1 DEF IInv, Safe
  <2>11. \A v \in Verifiers : pc'[v] \in Vouching => Migrated(backups'[key'[v]]) = bytes'[v]
    <3> SUFFICES ASSUME NEW v \in Verifiers, pc'[v] \in Vouching
                 PROVE  Migrated(backups'[key'[v]]) = bytes'[v]
      OBVIOUS
    <3>1. PICK q \in Operators : q # p /\ pc[q] = "done" /\ key[v] = key[q]
      BY <2>10
    <3>2. key[q] \in 1..Seconds
      BY <3>1 DEF IInv, Shape, Checked
    <3>3. Migrated(backups[key[v]]) = bytes[v]
      BY <1>3, <1>4, <2>1 DEF IInv, Safe
    <3> QED BY <1>2, <2>2, <3>1, <3>2, <3>3
  <2> QED BY <2>5, <2>6, <2>7, <2>8, <2>9, <2>10, <2>11 DEF Safe
<1> QED BY <1>7, <1>8, <1>9, <1>10, <1>11 DEF IInv

\* The bytes that a backup was compared with come back from what they become.
LEMMA MigratedFacts ==
    ASSUME NEW m \in Metadata
    PROVE  /\ Migrated(m) \in Published /\ Migrated(m).names = {"new"}
           /\ Migrated(m).build = m.build
           /\ Migratable(m) => Original(Migrated(m)) = m
BY DEF Migrated, Migratable, Original, Published, Metadata, Names

\* The replacement is of a version whose original a settled backup holds.
LEMMA PutMigratedStep ==
    ASSUME IInv, NEW p \in Operators, PutMigrated(p)
    PROVE  IInv'
<1> USE DisjointAssumption
<1> PICK b : b = bytes[p]
  OBVIOUS
<1>1. p \in Processes /\ p \notin Verifiers /\ p \notin Restorers
      /\ Operators \subseteq Processes /\ Verifiers \subseteq Processes /\ Restorers \subseteq Processes
  BY DEF Processes
<1>2. CASE UNCHANGED meta /\ pc' = [pc EXCEPT ![p] = "gone"]
  <2>1. UNCHANGED <<bucket, clock, build, reads, key>> /\ pc[p] = "put"
    BY <1>2 DEF PutMigrated, bucket
  <2>2. Steps(p, "gone") /\ "gone" \in Anywhere
    BY <1>1, <2>1 DEF Steps, Anywhere, Early, Later, Checked, HasTag, HasBytes, Settled
  <2> QED BY <1>1, <1>2, <2>1, <2>2, CompareStep
<1>3. CASE Matches(p) /\ meta' = Migrated(b) /\ pc' = [pc EXCEPT ![p] = "checkMeta"]
  <2>1. /\ pc[p] = "put" /\ meta = etag[p]
        /\ UNCHANGED <<index, newPdf, backups, clock, built, builder>>
        /\ UNCHANGED <<etag, bytes, vectors, pdfSeen, key>>
    BY <1>3 DEF PutMigrated, Matches, build, reads
  <2>2. /\ b \in Metadata /\ Migratable(b) /\ key[p] \in 1..Seconds
        /\ meta'.build = b.build /\ meta'.names = {"new"} /\ meta' \in Published
        /\ Original(meta') = b
    BY <1>1, <1>3, <2>1, MigratedFacts DEF IInv, TypeOK, Shape, Checked
  <2>3. pc'[p] = "checkMeta" /\ \A q \in Processes : q # p => pc'[q] = pc[q]
    BY <1>1, <1>3 DEF IInv, TypeOK
  <2>4. TypeOK'
    <3>1. pc' \in [Processes -> Anywhere]
      BY <1>1, <1>3 DEF IInv, TypeOK, Anywhere, ExecutePlaces
    <3> QED BY <2>1, <2>2, <3>1 DEF IInv, TypeOK, Anywhere
  <2>5. Shape'
    BY <1>1, <2>1, <2>2, <2>3 DEF IInv, Shape, ExecutePlaces, Early, Checked
  <2>6. Seen'
    <3>1. Known(b)
      BY <1>1 DEF IInv, Seen
    <3> QED BY <2>1, <2>2, <3>1 DEF IInv, Seen, Known
  <2>7. Ordered'
    <3> SUFFICES ASSUME Untouched' PROVE Ordered'
      BY DEF Ordered
    <3>1. Untouched
      BY <1>1, <2>3 DEF Untouched
    <3>2. pc[p] \in HasBytes /\ "checkMeta" \notin HasTag \cup HasBytes
      BY <2>1 DEF HasBytes, HasTag
    <3>3. meta.build <= b.build /\ b.build <= meta.build
      BY <2>1, <3>1, <3>2 DEF IInv, Ordered
    <3>4. meta.build \in Nat /\ b.build \in Nat
      BY <2>2, BoundsAssumption DEF IInv, TypeOK, Published, Metadata
    <3>5. meta'.build = meta.build
      BY <2>2, <3>3, <3>4
    <3> QED BY <1>1, <2>1, <2>3, <3>1, <3>2, <3>5 DEF IInv, Ordered
  <2>8. Safe'
    <3> SUFFICES ASSUME DistinctKeys' PROVE Safe'
      BY DEF Safe
    <3>1. DistinctKeys
      BY <2>1 DEF DistinctKeys
    <3>2. backups[key[p]] = b
      BY <2>1, <3>1 DEF IInv, Safe, Checked
    <3>3. pc'[p] \in Settled /\ pc[p] \in Settled /\ pc[p] # "done" /\ pc'[p] \in Checked
      BY <2>1, <2>3 DEF Settled, Checked
    <3>4. \A m : Held(m) => Held(m)'
      BY <1>1, <2>1, <2>3, <3>3, HeldStays
    <3>5. \A q \in Operators : pc'[q] \in Checked => backups'[key'[q]] = bytes'[q]
      BY <1>1, <2>1, <2>3, <3>1, <3>2 DEF IInv, Safe
    <3>6. Held(Original(meta))'
      BY <2>1, <2>2, <3>2, <3>3 DEF Held
    <3>7. \A k \in 1..Seconds : backups'[k].names = {"new"} => Held(Original(backups[k]))'
      BY <2>1, <3>1, <3>4 DEF IInv, Safe, Held
    <3>8. \A r \in Restorers : pc'[r] \in {"restore", "checkRestored"} => Held(bytes[r])'
      BY <1>1, <2>1, <2>3, <3>1, <3>4 DEF IInv, Safe, Held
    <3>9. \A v \in Verifiers : pc'[v] \in {"readBackup"} \cup Vouching =>
             \E q \in Operators : pc'[q] = "done" /\ key'[v] = key'[q]
      BY <1>1, <2>1, <2>3, <3>1, <3>3 DEF IInv, Safe
    <3>10. \A v \in Verifiers : pc'[v] \in Vouching => Migrated(backups'[key'[v]]) = bytes'[v]
      BY <1>1, <2>1, <2>3, <3>1 DEF IInv, Safe
    <3> QED BY <2>2, <3>5, <3>6, <3>7, <3>8, <3>9, <3>10 DEF Safe
  <2> QED BY <2>4, <2>5, <2>6, <2>7, <2>8 DEF IInv
<1> QED BY <1>2, <1>3 DEF PutMigrated, Goto
-----------------------------------------------------------------------------
(* The steps of verify and of rollback *)

\* A verify starts from the key that a finished execute reported.
LEMMA ReadLiveStep ==
    ASSUME IInv, NEW p \in Verifiers, ReadLive(p)
    PROVE  IInv'
<1> USE DisjointAssumption
<1>1. PICK w \in {"readBackup", "gone"} : pc' = [pc EXCEPT ![p] = w]
  BY DEF ReadLive, Goto
<1>2. PICK q0 \in Operators : /\ pc[q0] = "done" /\ key' = [key EXCEPT ![p] = key[q0]]
                              /\ vectors' = [vectors EXCEPT ![p] = vectors[q0]]
  BY DEF ReadLive
<1>3. /\ bytes' = [bytes EXCEPT ![p] = meta]
      /\ UNCHANGED <<meta, index, newPdf, backups, clock, built, builder, etag, pdfSeen>>
  BY DEF ReadLive, bucket, build
<1>4. p \in Processes /\ p \notin Operators /\ p \notin Restorers
      /\ Operators \subseteq Processes /\ Verifiers \subseteq Processes /\ Restorers \subseteq Processes
  BY DEF Processes
<1>5. pc'[p] = w /\ \A q \in Processes : q # p => pc'[q] = pc[q]
  BY <1>1, <1>4 DEF IInv, TypeOK
<1>6. meta \in Metadata
  BY DEF IInv, TypeOK, Published
<1>7. /\ bytes' \in [Processes -> Metadata] /\ bytes'[p] = meta
      /\ \A q \in Processes : q # p => bytes'[q] = bytes[q]
  BY <1>3, <1>4, <1>6 DEF IInv, TypeOK
<1>8. /\ key' \in [Processes -> 0..Seconds] /\ key'[p] = key[q0]
      /\ \A q \in Processes : q # p => key'[q] = key[q]
  BY <1>2, <1>4 DEF IInv, TypeOK
<1>9. vectors' \in [Processes -> 0..Builds]
  BY <1>2, <1>4 DEF IInv, TypeOK
<1>10. TypeOK'
  <2>1. pc' \in [Processes -> Anywhere]
    BY <1>1, <1>4 DEF IInv, TypeOK, Anywhere, VerifyPlaces
  <2> QED BY <1>3, <1>7, <1>8, <1>9, <2>1 DEF IInv, TypeOK, Anywhere
<1>11. Shape'
  BY <1>3, <1>4, <1>5, <1>7, <1>8 DEF IInv, Shape, VerifyPlaces
<1>12. Seen'
  BY <1>3, <1>4, <1>7 DEF IInv, Seen, Known
<1>13. Ordered'
  BY <1>3, <1>4, <1>5, <1>7 DEF IInv, Ordered, Untouched
<1>14. Safe'
  <2> SUFFICES ASSUME DistinctKeys' PROVE Safe'
    BY DEF Safe
  <2>1. DistinctKeys
    BY <1>4, <1>8 DEF DistinctKeys
  <2>2. \A q \in Operators : pc'[q] = pc[q] /\ key'[q] = key[q] /\ bytes'[q] = bytes[q]
    BY <1>4, <1>5, <1>7, <1>8
  <2>3. \A m : Held(m) => Held(m)'
    BY <1>3, <2>2, HeldStays
  <2>4. \A q \in Operators : pc'[q] \in Checked => backups'[key'[q]] = bytes'[q]
    BY <1>3, <2>1, <2>2 DEF IInv, Safe
  <2>5. /\ meta'.names = {"new"} => Held(Original(meta))'
        /\ \A k \in 1..Seconds : backups'[k].names = {"new"} => Held(Original(backups[k]))'
    BY <1>3, <2>1, <2>3 DEF IInv, Safe, Held
  <2>6. \A r \in Restorers : pc'[r] \in {"restore", "checkRestored"} => Held(bytes[r])'
    BY <1>4, <1>5, <1>7, <2>1, <2>3 DEF IInv, Safe, Held
  <2>7. \A q \in Operators : pc'[q] \in HasBytes /\ meta' = etag'[q] /\ meta'.names # {"new"} =>
           etag'[q] = bytes'[q] \/ Held(meta)'
    BY <1>3, <2>1, <2>2, <2>3 DEF IInv, Safe, Held
  <2>8. \A v \in Verifiers : pc'[v] \in {"readBackup"} \cup Vouching =>
           \E q \in Operators : pc'[q] = "done" /\ key'[v] = key'[q]
    <3> SUFFICES ASSUME NEW v \in Verifiers, pc'[v] \in {"readBackup"} \cup Vouching
                 PROVE  \E q \in Operators : pc'[q] = "done" /\ key'[v] = key'[q]
      OBVIOUS
    <3>1. CASE v = p
      BY <1>2, <1>8, <2>2, <3>1
    <3>2. CASE v # p
      BY <1>4, <1>5, <1>8, <2>1, <2>2, <3>2 DEF IInv, Safe
    <3> QED BY <3>1, <3>2
  <2>9. \A v \in Verifiers : pc'[v] \in Vouching => Migrated(backups'[key'[v]]) = bytes'[v]
    <3>1. w \notin Vouching
      BY DEF Vouching
    <3> QED BY <1>3, <1>4, <1>5, <1>7, <1>8, <2>1, <3>1 DEF IInv, Safe
  <2> QED BY <2>4, <2>5, <2>6, <2>7, <2>8, <2>9 DEF Safe
<1> QED BY <1>10, <1>11, <1>12, <1>13, <1>14 DEF IInv

\* A rollback reads the backup of an execute that has ended.
LEMMA GetBackupStep ==
    ASSUME IInv, NEW p \in Restorers, GetBackup(p)
    PROVE  IInv'
<1> USE DisjointAssumption
<1>1. PICK q0 \in Operators : /\ pc[q0] \in {"done", "gone"} /\ key[q0] \in Written
                              /\ bytes' = [bytes EXCEPT ![p] = backups[key[q0]]]
  BY DEF GetBackup
<1> PICK b : b = backups[key[q0]]
  OBVIOUS
<1>2. /\ pc[p] = "getBackup" /\ pc' = [pc EXCEPT ![p] = "restore"]
      /\ UNCHANGED <<meta, index, newPdf, backups, clock, built, builder>>
      /\ UNCHANGED <<etag, vectors, pdfSeen, key>>
  BY DEF GetBackup, Goto, bucket, build
<1>3. p \in Processes /\ p \notin Operators /\ p \notin Verifiers
      /\ Operators \subseteq Processes /\ Verifiers \subseteq Processes /\ Restorers \subseteq Processes
  BY DEF Processes
<1>4. pc'[p] = "restore" /\ \A q \in Processes : q # p => pc'[q] = pc[q]
  BY <1>2, <1>3 DEF IInv, TypeOK
<1>5. key[q0] \in 1..Seconds /\ b \in Published /\ b \in Metadata /\ Known(b) /\ Held(b)
  BY <1>1 DEF Written, IInv, Shape, Published, Seen, Held, Settled, Checked
<1>6. /\ bytes' \in [Processes -> Metadata] /\ bytes'[p] = b
      /\ \A q \in Processes : q # p => bytes'[q] = bytes[q]
  BY <1>1, <1>3, <1>5 DEF IInv, TypeOK
<1>7. TypeOK'
  <2>1. pc' \in [Processes -> Anywhere]
    BY <1>2, <1>3 DEF IInv, TypeOK, Anywhere, RollbackPlaces
  <2> QED BY <1>2, <1>6, <2>1 DEF IInv, TypeOK, Anywhere
<1>8. Shape'
  BY <1>2, <1>3, <1>4, <1>5, <1>6 DEF IInv, Shape, RollbackPlaces
<1>9. Seen'
  BY <1>2, <1>3, <1>5, <1>6 DEF IInv, Seen, Known
<1>10. Ordered'
  BY <1>4 DEF Ordered, Untouched
<1>11. Safe'
  <2> SUFFICES ASSUME DistinctKeys' PROVE Safe'
    BY DEF Safe
  <2>1. DistinctKeys
    BY <1>2 DEF DistinctKeys
  <2>2. \A q \in Operators : pc'[q] = pc[q] /\ bytes'[q] = bytes[q]
    BY <1>3, <1>4, <1>6
  <2>3. \A m : Held(m) => Held(m)'
    BY <1>2, <2>2, HeldStays
  <2>4. /\ \A q \in Operators : pc'[q] \in Checked => backups'[key'[q]] = bytes'[q]
        /\ meta'.names = {"new"} => Held(Original(meta))'
        /\ \A k \in 1..Seconds : backups'[k].names = {"new"} => Held(Original(backups[k]))'
    BY <1>2, <2>1, <2>2, <2>3 DEF IInv, Safe, Held
  <2>5. \A r \in Restorers : pc'[r] \in {"restore", "checkRestored"} => Held(bytes[r])'
    <3> SUFFICES ASSUME NEW r \in Restorers, pc'[r] \in {"restore", "checkRestored"}
                 PROVE  Held(bytes[r])'
      OBVIOUS
    <3>1. Held(bytes'[r])
      BY <1>3, <1>4, <1>5, <1>6, <2>1 DEF IInv, Safe
    <3> QED BY <2>3, <3>1 DEF Held
  <2>6. \A q \in Operators : pc'[q] \in HasBytes /\ meta' = etag'[q] /\ meta'.names # {"new"} =>
           etag'[q] = bytes'[q] \/ Held(meta)'
    BY <1>2, <2>1, <2>2, <2>3 DEF IInv, Safe, Held
  <2>7. \A v \in Verifiers : pc'[v] = pc[v] /\ bytes'[v] = bytes[v]
    BY <1>3, <1>4, <1>6
  <2>8. /\ \A v \in Verifiers : pc'[v] \in {"readBackup"} \cup Vouching =>
              \E q \in Operators : pc'[q] = "done" /\ key'[v] = key'[q]
        /\ \A v \in Verifiers : pc'[v] \in Vouching => Migrated(backups'[key'[v]]) = bytes'[v]
    BY <1>2, <2>1, <2>2, <2>7 DEF IInv, Safe
  <2> QED BY <2>4, <2>5, <2>6, <2>8 DEF Safe
<1> QED BY <1>7, <1>8, <1>9, <1>10, <1>11 DEF IInv

\* What a rollback restores is a settled backup, wherever the bucket stood.
LEMMA RestoreStep ==
    ASSUME IInv, NEW p \in Restorers, Restore(p)
    PROVE  IInv'
<1> USE DisjointAssumption
<1> PICK b : b = bytes[p]
  OBVIOUS
<1>1. PICK w \in {"restore", "checkRestored"} : pc' = [pc EXCEPT ![p] = w]
  <2>1. pc[p] = "restore" /\ (pc' = pc \/ pc' = [pc EXCEPT ![p] = "checkRestored"])
    BY DEF Restore
  <2>2. pc = [pc EXCEPT ![p] = "restore"]
    BY <2>1 DEF IInv, TypeOK
  <2> QED BY <2>1, <2>2
<1>2. /\ pc[p] = "restore" /\ meta' = b
      /\ UNCHANGED <<index, newPdf, backups, clock, built, builder>>
      /\ UNCHANGED <<etag, bytes, vectors, pdfSeen, key>>
  BY DEF Restore, build, reads
<1>3. p \in Processes /\ p \notin Operators /\ p \notin Verifiers
      /\ Operators \subseteq Processes /\ Verifiers \subseteq Processes /\ Restorers \subseteq Processes
  BY DEF Processes
<1>4. pc'[p] = w /\ \A q \in Processes : q # p => pc'[q] = pc[q]
  BY <1>1, <1>3 DEF IInv, TypeOK
<1>5. b \in Published /\ Known(b)
  BY <1>2, <1>3 DEF IInv, Shape, Seen
<1>6. TypeOK'
  <2>1. pc' \in [Processes -> Anywhere]
    BY <1>1, <1>3 DEF IInv, TypeOK, Anywhere, RollbackPlaces
  <2> QED BY <1>2, <1>5, <2>1 DEF IInv, TypeOK, Anywhere
<1>7. Shape'
  BY <1>2, <1>3, <1>4 DEF IInv, Shape, RollbackPlaces
<1>8. Seen'
  BY <1>2, <1>5 DEF IInv, Seen, Known
<1>9. Ordered'
  BY <1>4 DEF Ordered, Untouched
<1>10. Safe'
  <2> SUFFICES ASSUME DistinctKeys' PROVE Safe'
    BY DEF Safe
  <2>1. DistinctKeys
    BY <1>2 DEF DistinctKeys
  <2>2. \A q \in Operators : pc'[q] = pc[q]
    BY <1>3, <1>4
  <2>3. \A m : Held(m) => Held(m)'
    BY <1>2, <2>2, HeldStays
  <2>4. Held(b)
    BY <1>2, <2>1 DEF IInv, Safe
  <2>5. /\ \A q \in Operators : pc'[q] \in Checked => backups'[key'[q]] = bytes'[q]
        /\ \A k \in 1..Seconds : backups'[k].names = {"new"} => Held(Original(backups[k]))'
    BY <1>2, <2>1, <2>2, <2>3 DEF IInv, Safe, Held
  <2>6. meta'.names = {"new"} => Held(Original(meta))'
    <3> SUFFICES ASSUME b.names = {"new"} PROVE Held(Original(meta))'
      BY <1>2
    <3>1. PICK k \in 1..Seconds : backups[k] = b
      BY <2>4 DEF Held
    <3>2. Held(Original(b))
      BY <2>1, <3>1 DEF IInv, Safe
    <3> QED BY <1>2, <2>3, <3>2 DEF Held
  <2>7. \A r \in Restorers : pc'[r] \in {"restore", "checkRestored"} => Held(bytes[r])'
    <3> SUFFICES ASSUME NEW r \in Restorers, pc'[r] \in {"restore", "checkRestored"}
                 PROVE  Held(bytes[r])'
      OBVIOUS
    <3>1. Held(bytes[r])
      BY <1>2, <1>3, <1>4, <2>1 DEF IInv, Safe
    <3> QED BY <1>2, <2>3, <3>1 DEF Held
  <2>8. Held(meta)'
    BY <1>2, <2>3, <2>4 DEF Held
  <2>9. \A v \in Verifiers : pc'[v] = pc[v]
    BY <1>3, <1>4
  <2>10. /\ \A v \in Verifiers : pc'[v] \in {"readBackup"} \cup Vouching =>
               \E q \in Operators : pc'[q] = "done" /\ key'[v] = key'[q]
         /\ \A v \in Verifiers : pc'[v] \in Vouching => Migrated(backups'[key'[v]]) = bytes'[v]
    BY <1>2, <2>1, <2>2, <2>9 DEF IInv, Safe
  <2> QED BY <2>5, <2>6, <2>7, <2>8, <2>10 DEF Safe
<1> QED BY <1>6, <1>7, <1>8, <1>9, <1>10 DEF IInv
-----------------------------------------------------------------------------
(* The rebuild and the clock *)

\* What is safe is a matter of the bucket's metadata and of the processes.
LEMMA BuilderSafe ==
    ASSUME IInv, UNCHANGED <<meta, backups, pc, etag, bytes, key>>
    PROVE  Safe'
<1> SUFFICES ASSUME DistinctKeys' PROVE Safe'
  BY DEF Safe
<1>1. DistinctKeys
  BY DEF DistinctKeys
<1>2. \A m : Held(m) => Held(m)'
  BY DEF Held
<1>3. /\ \A q \in Operators : pc'[q] \in Checked => backups'[key'[q]] = bytes'[q]
      /\ meta'.names = {"new"} => Held(Original(meta))'
      /\ \A k \in 1..Seconds : backups'[k].names = {"new"} => Held(Original(backups[k]))'
  BY <1>1, <1>2 DEF IInv, Safe, Held
<1>4. /\ \A r \in Restorers : pc'[r] \in {"restore", "checkRestored"} => Held(bytes[r])'
      /\ \A q \in Operators : pc'[q] \in HasBytes /\ meta' = etag'[q] /\ meta'.names # {"new"} =>
            etag'[q] = bytes'[q] \/ Held(meta)'
  BY <1>1, <1>2 DEF IInv, Safe, Held
<1>5. /\ \A v \in Verifiers : pc'[v] \in {"readBackup"} \cup Vouching =>
            \E q \in Operators : pc'[q] = "done" /\ key'[v] = key'[q]
      /\ \A v \in Verifiers : pc'[v] \in Vouching => Migrated(backups'[key'[v]]) = bytes'[v]
  BY <1>1 DEF IInv, Safe
<1> QED BY <1>3, <1>4, <1>5 DEF Safe

\* A rebuild that lists the documents takes a number nobody has seen.
LEMMA ListDocumentsStep ==
    ASSUME IInv, ListDocuments
    PROVE  IInv'
<1>1. /\ built < Builds /\ built' = built + 1 /\ builder.place = "idle"
      /\ builder'.place = "listed" /\ builder'.names \in {{"old"}, Names}
      /\ builder' \in [place : {"idle", "listed", "half", "torn"}, names : SUBSET Names]
      /\ UNCHANGED <<meta, index, newPdf, backups, clock, pc, etag, bytes, vectors, pdfSeen, key>>
  BY DEF ListDocuments, bucket, reads, Names
<1>2. built \in Nat /\ built' \in 0..Builds
  BY <1>1, BoundsAssumption DEF IInv, TypeOK
<1>3. TypeOK'
  BY <1>1, <1>2 DEF IInv, TypeOK
<1>4. Shape'
  BY <1>1 DEF IInv, Shape
<1>5. Seen'
  <2>1. \A m \in Metadata : Known(m) => Known(m)'
    BY <1>1, <1>2, BoundsAssumption DEF Known, Metadata
  <2>2. /\ meta \in Metadata /\ \A k \in 1..Seconds : backups[k] \in Metadata
        /\ \A p \in Processes : etag[p] \in Metadata /\ bytes[p] \in Metadata
    BY DEF IInv, TypeOK, Published
  <2>3. /\ Known(meta)' /\ \A k \in 1..Seconds : Known(backups[k])'
        /\ \A p \in Processes : Known(etag[p])' /\ Known(bytes[p])'
    BY <1>1, <2>1, <2>2 DEF IInv, Seen, Known
  <2> QED BY <2>3 DEF Seen
<1>6. Ordered'
  BY <1>1 DEF IInv, Ordered, Untouched
<1>7. Safe'
  BY <1>1, BuilderSafe
<1> QED BY <1>3, <1>4, <1>5, <1>6, <1>7 DEF IInv

\* The first of the two uploads of a rebuild.
LEMMA UploadIndexStep ==
    ASSUME IInv, UploadIndex
    PROVE  IInv'
<1>1. /\ builder.place = "listed" /\ builder' = [builder EXCEPT !.place = "half"]
      /\ index' = built
      /\ UNCHANGED <<meta, newPdf, backups, clock, built, pc, etag, bytes, vectors, pdfSeen, key>>
  BY DEF UploadIndex, reads
<1>2. /\ builder'.place = "half" /\ builder'.names = builder.names
      /\ builder' \in [place : {"idle", "listed", "half", "torn"}, names : SUBSET Names]
  BY <1>1 DEF IInv, TypeOK
<1>3. TypeOK'
  BY <1>1, <1>2 DEF IInv, TypeOK
<1>4. Shape'
  BY <1>1, <1>2 DEF IInv, Shape
<1>5. Seen'
  BY <1>1, <1>2 DEF IInv, Seen, Known
<1>6. Ordered'
  BY <1>1, <1>2 DEF IInv, Ordered, Untouched
<1>7. Safe'
  BY <1>1, BuilderSafe
<1> QED BY <1>3, <1>4, <1>5, <1>6, <1>7 DEF IInv

\* The second upload publishes what no ETag covers and no backup holds.
LEMMA UploadMetadataStep ==
    ASSUME IInv, UploadMetadata
    PROVE  IInv'
<1>1. /\ builder.place = "half" /\ builder' = [builder EXCEPT !.place = "idle"]
      /\ meta' = [build |-> built, names |-> builder.names]
      /\ UNCHANGED <<index, newPdf, backups, clock, built, pc, etag, bytes, vectors, pdfSeen, key>>
  BY DEF UploadMetadata, reads
<1>2. /\ builder'.place = "idle" /\ builder'.names = builder.names
      /\ builder' \in [place : {"idle", "listed", "half", "torn"}, names : SUBSET Names]
  BY <1>1 DEF IInv, TypeOK
<1>3. builder.names \in {{"old"}, Names}
  BY <1>1 DEF IInv, Shape
<1>4. meta'.build = built /\ meta'.names # {"new"} /\ meta' \in Published
  <2>1. built \in 0..Builds
    BY DEF IInv, TypeOK
  <2>2. {"old"} # {"new"} /\ Names # {"new"} /\ {"old"} # {} /\ Names # {}
        /\ {"old"} \in SUBSET Names /\ Names \in SUBSET Names
    BY DEF Names
  <2>3. meta'.build = built /\ meta'.names = builder.names
    BY <1>1
  <2>4. meta'.names # {"new"} /\ meta'.names # {}
    BY <1>3, <2>2, <2>3
  <2>5. meta' \in Metadata
    BY <1>1, <1>3, <2>1, <2>2 DEF Metadata
  <2> QED BY <2>3, <2>4, <2>5 DEF Published
<1>5. built \in Nat /\ \A p \in Processes : etag[p].build \in Nat /\ etag[p].build < built
      /\ bytes[p].build \in Nat /\ bytes[p].build < built
  BY <1>1, BoundsAssumption DEF IInv, TypeOK, Metadata, Seen, Known
<1>6. TypeOK'
  BY <1>1, <1>2, <1>4 DEF IInv, TypeOK
<1>7. Shape'
  BY <1>1, <1>2, <1>3 DEF IInv, Shape
<1>8. Seen'
  <2>1. Known(meta)'
    BY <1>1, <1>2, <1>4, <1>5 DEF Known
  <2> QED BY <1>1, <1>2, <2>1 DEF IInv, Seen, Known
<1>9. Ordered'
  <2> SUFFICES ASSUME Untouched' PROVE Ordered'
    BY DEF Ordered
  <2>1. Untouched
    BY <1>1 DEF Untouched
  <2>2. index = built
    BY <1>1, <2>1 DEF IInv, Ordered
  <2>3. Operators \subseteq Processes
    BY DEF Processes
  <2> QED BY <1>1, <1>2, <1>4, <1>5, <2>1, <2>2, <2>3 DEF IInv, Ordered
<1>10. Safe'
  <2> SUFFICES ASSUME DistinctKeys' PROVE Safe'
    BY DEF Safe
  <2>1. DistinctKeys
    BY <1>1 DEF DistinctKeys
  <2>2. \A m : Held(m) => Held(m)'
    BY <1>1 DEF Held
  <2>3. \A p \in Operators : meta' # etag'[p]
    BY <1>1, <1>4, <1>5 DEF Processes
  <2>4. /\ \A q \in Operators : pc'[q] \in Checked => backups'[key'[q]] = bytes'[q]
        /\ \A k \in 1..Seconds : backups'[k].names = {"new"} => Held(Original(backups[k]))'
        /\ \A r \in Restorers : pc'[r] \in {"restore", "checkRestored"} => Held(bytes[r])'
    BY <1>1, <2>1, <2>2 DEF IInv, Safe, Held
  <2>5. /\ \A v \in Verifiers : pc'[v] \in {"readBackup"} \cup Vouching =>
              \E q \in Operators : pc'[q] = "done" /\ key'[v] = key'[q]
        /\ \A v \in Verifiers : pc'[v] \in Vouching => Migrated(backups'[key'[v]]) = bytes'[v]
    BY <1>1, <2>1 DEF IInv, Safe
  <2> QED BY <1>4, <2>3, <2>4, <2>5 DEF Safe
<1> QED BY <1>6, <1>7, <1>8, <1>9, <1>10 DEF IInv

\* A rebuild that fails publishes nothing more, and the clock touches nothing.
LEMMA OutsideStep ==
    ASSUME IInv, BuildFails \/ Tick \/ UNCHANGED vars
    PROVE  IInv'
<1>1. UNCHANGED <<meta, index, newPdf, backups, built, pc, etag, bytes, vectors, pdfSeen, key>>
  BY DEF BuildFails, Tick, vars, bucket, build, reads
<1>2. PICK w \in {"idle", "torn"} :
         \/ builder' = builder
         \/ /\ builder.place \in {"listed", "half"} /\ builder' = [builder EXCEPT !.place = w]
            /\ builder.place = "half" => w = "torn"
  BY DEF BuildFails, Tick, vars, build
<1>3. /\ builder' \in [place : {"idle", "listed", "half", "torn"}, names : SUBSET Names]
      /\ builder' = builder \/ (builder'.place = w /\ builder.place \in {"listed", "half"}
                                /\ (builder.place = "half" => w = "torn"))
  BY <1>2 DEF IInv, TypeOK
<1>4. clock' \in 1..Seconds
  BY BoundsAssumption DEF BuildFails, Tick, vars, IInv, TypeOK
<1>5. TypeOK'
  BY <1>1, <1>3, <1>4 DEF IInv, TypeOK
<1>6. Shape'
  BY <1>1, <1>3 DEF IInv, Shape
<1>7. Seen'
  BY <1>1, <1>3 DEF IInv, Seen, Known
<1>8. Ordered'
  BY <1>1, <1>3 DEF IInv, Ordered, Untouched
<1>9. Safe'
  BY <1>1, BuilderSafe
<1> QED BY <1>5, <1>6, <1>7, <1>8, <1>9 DEF IInv
-----------------------------------------------------------------------------
(* The invariant, and the properties *)

\* The bucket before the migration, and processes that have read nothing.
LEMMA Initially == Init => IInv
<1> SUFFICES ASSUME Init PROVE IInv
  OBVIOUS
<1> USE DisjointAssumption, BoundsAssumption
<1>1. Unread \in Metadata /\ [build |-> 0, names |-> {"old"}] \in Published
  BY DEF Unread, Metadata, Published, Names
<1>2. \A p : Mode(p) = IF p \in Operators THEN "headMeta"
                       ELSE IF p \in Verifiers THEN "readLive" ELSE "getBackup"
  BY DEF Mode
<1>3. /\ \A p \in Operators : pc[p] = "headMeta" /\ key[p] = 0
      /\ \A p \in Verifiers : pc[p] = "readLive"
      /\ \A p \in Restorers : pc[p] = "getBackup"
      /\ \A p \in Processes : pc[p] \in {"headMeta", "readLive", "getBackup"}
  BY <1>2 DEF Init, Processes
<1>4. pc \in [Processes -> {"headMeta", "readLive", "getBackup"}]
  BY <1>2 DEF Init
<1>5. TypeOK
  <2>1. /\ backups \in [1..Seconds -> Metadata] /\ etag \in [Processes -> Metadata]
        /\ bytes \in [Processes -> Metadata] /\ vectors \in [Processes -> 0..Builds]
        /\ pdfSeen \in [Processes -> PdfStates] /\ key \in [Processes -> 0..Seconds]
    BY <1>1 DEF Init, PdfStates
  <2>2. builder \in [place : {"idle", "listed", "half", "torn"}, names : SUBSET Names]
    BY DEF Init
  <2> QED BY <1>1, <1>4, <2>1, <2>2 DEF Init, TypeOK, ExecutePlaces, VerifyPlaces, RollbackPlaces
<1>6. Shape
  BY <1>3 DEF Init, Shape, ExecutePlaces, VerifyPlaces, RollbackPlaces, Checked
<1>7. Seen
  BY DEF Init, Seen, Known, Unread
<1>8. Ordered
  BY <1>3 DEF Init, Ordered, HasTag, HasBytes
<1>9. Safe
  BY <1>3 DEF Init, Safe, Checked, HasBytes, Vouching, Unread
<1> QED BY <1>5, <1>6, <1>7, <1>8, <1>9 DEF IInv

\* Every step keeps it.
LEMMA Inductive == IInv /\ [Next]_vars => IInv'
<1> SUFFICES ASSUME IInv, [Next]_vars PROVE IInv'
  OBVIOUS
<1>1. ASSUME NEW p \in Operators, Execute(p) PROVE IInv'
  BY <1>1, HeadMetaStep, GetMetaStep, HeadNewStep, CopyBackupStep, PutMigratedStep,
     AsideStep, ExecuteCompares DEF Execute
<1>2. ASSUME NEW p \in Verifiers, Verify(p) PROVE IInv'
  BY <1>2, ReadLiveStep, VerifyCompares DEF Verify
<1>3. ASSUME NEW p \in Restorers, Rollback(p) PROVE IInv'
  BY <1>3, GetBackupStep, RestoreStep, RollbackCompares DEF Rollback
<1>4. ASSUME NEW p \in Processes, Gone(p) PROVE IInv'
  BY <1>4, GoneStep
<1>5. CASE Rebuild
  BY <1>5, ListDocumentsStep, UploadIndexStep, UploadMetadataStep, OutsideStep DEF Rebuild
<1>6. CASE Tick \/ UNCHANGED vars
  BY <1>6, OutsideStep
<1> QED BY <1>1, <1>2, <1>3, <1>4, <1>5, <1>6 DEF Next, Processes

\* So every reachable state satisfies it.
LEMMA Always == Spec => []IInv
BY Initially, Inductive, PTL DEF Spec

\* Whenever migrated metadata is live, what it was made from is in a backup,
\* and the backup that execute or verify vouched for is the one it said:
\* scripts/migrate_visa_source.py, with any number of operators whose backups
\* were taken in different seconds, of verifies, rollbacks and rebuilds.
THEOREM OriginalRecoverableHolds == Spec => []OriginalRecoverable
<1>1. IInv => OriginalRecoverable
  <2> SUFFICES ASSUME IInv, DistinctKeys
               PROVE  /\ meta.names = {"new"} => \E k \in Written : backups[k] = Original(meta)
                      /\ BackupsKept
    BY DEF IInv, OriginalRecoverable
  <2>1. ASSUME meta.names = {"new"} PROVE \E k \in Written : backups[k] = Original(meta)
    <3>1. PICK q \in Operators : key[q] \in 1..Seconds /\ backups[key[q]] = Original(meta)
      BY <2>1 DEF IInv, Safe, Held
    <3>2. Original(meta).names = {"old"}
      BY DEF Original, IInv, TypeOK, Published, Metadata
    <3>3. key[q] \in Written
      BY <3>1, <3>2 DEF Written, Unread
    <3> QED BY <3>1, <3>3
  <2>2. \A p \in Operators : pc[p] = "done" => backups[key[p]] = bytes[p]
    BY DEF IInv, Safe, Checked
  <2>3. ASSUME NEW v \in Verifiers, pc[v] = "done"
        PROVE  backups[key[v]] = Original(bytes[v])
    <3>1. /\ Migrated(backups[key[v]]) = bytes[v]
          /\ \E q \in Operators : pc[q] = "done" /\ key[v] = key[q]
      BY <2>3 DEF IInv, Safe, Vouching
    <3>2. PICK q \in Operators : pc[q] = "done" /\ key[v] = key[q]
      BY <3>1
    <3>3. backups[key[q]] = bytes[q] /\ Migratable(bytes[q]) /\ bytes[q] \in Metadata
      BY <3>2 DEF IInv, Safe, Shape, Checked, TypeOK, Processes
    <3> QED BY <3>1, <3>2, <3>3, MigratedFacts
  <2> QED BY <2>1, <2>2, <2>3 DEF BackupsKept
<1> QED BY <1>1, Always, PTL

\* Rows and vectors are of one build whenever no rebuild is under way and no
\* rollback has begun, however execute interleaves with the two uploads.
THEOREM RowsAlignedHolds == Spec => []RowsAligned
<1>1. IInv => RowsAligned
  BY DEF IInv, Ordered, Untouched, RowsAligned
<1> QED BY <1>1, Always, PTL

\* The write of execute never replaces what no backup gives back.
THEOREM NothingLostHolds == Spec => NothingLost
<1>1. ASSUME IInv, [Next]_vars, NEW p \in Operators, DistinctKeys, Replaces(p)
      PROVE  Recoverable(meta)
  <2>1. Matches(p)
    <3> USE DisjointAssumption
    <3>1. pc[p] = "put" /\ pc'[p] = "checkMeta" /\ p \in Processes /\ pc # pc'
      BY <1>1 DEF Replaces, Processes
    <3>2. PutMigrated(p)
      <4>1. \A q \in Processes : \A w \in Anywhere :
               pc' = [pc EXCEPT ![q] = w] => q = p /\ w = "checkMeta"
        BY <1>1, <3>1 DEF IInv, TypeOK
      <4>2. CASE \E q \in Operators : Execute(q)
        <5>1. PICK q \in Operators : Execute(q)
          BY <4>2
        <5>2. q \in Processes
          BY DEF Processes
        <5>3. ASSUME CopyBackup(q) PROVE FALSE
          <6>1. pc' = [pc EXCEPT ![q] = "checkBackup"]
            BY <3>1, <5>3 DEF CopyBackup
          <6>2. "checkBackup" = "checkMeta"
            BY <4>1, <5>2, <6>1 DEF Anywhere, ExecutePlaces
          <6> QED BY <6>2
        <5> QED BY <3>1, <4>1, <5>1, <5>2, <5>3 DEF Execute, HeadMeta, GetMeta, GetIndex, HeadNew,
                CheckBackup, CopyPdf, CheckPdf, CheckMeta, CheckIndex, PutMigrated, Goto, Anywhere,
                ExecutePlaces
      <4>3. CASE \E q \in Verifiers : Verify(q)
        BY <1>1, <3>1, <4>1, <4>3 DEF Verify, ReadLive, ReadBackup, ReadIndex, ReadPdfs, Goto, Processes,
              Anywhere, VerifyPlaces
      <4>4. CASE \E q \in Restorers : Rollback(q)
        BY <1>1, <3>1, <4>1, <4>4 DEF Rollback, GetBackup, Restore, CheckRestored, Goto, Processes,
              Anywhere, RollbackPlaces
      <4>5. CASE \E q \in Processes : Gone(q)
        <5>1. PICK q \in Processes : pc' = [pc EXCEPT ![q] = "gone"]
          BY <4>5 DEF Gone, Goto
        <5>2. "gone" = "checkMeta"
          <6>1. "gone" \in Anywhere
            BY DEF Anywhere
          <6> QED BY <4>1, <5>1, <6>1
        <5> QED BY <5>2
      <4>6. CASE Rebuild \/ Tick \/ UNCHANGED vars
        BY <3>1, <4>6 DEF Rebuild, ListDocuments, UploadIndex, UploadMetadata, BuildFails, Tick, vars
      <4> QED BY <1>1, <4>2, <4>3, <4>4, <4>5, <4>6 DEF Next, Processes
    <3> QED BY <1>1, <3>1, <3>2 DEF PutMigrated, Goto, IInv, TypeOK
  <2>2. pc[p] \in HasBytes /\ pc[p] \in Checked /\ meta = etag[p]
    BY <1>1, <2>1 DEF Replaces, HasBytes, Checked, Matches
  <2>3. key[p] \in Written /\ backups[key[p]] = bytes[p]
    <3>1. key[p] \in 1..Seconds /\ Migratable(bytes[p]) /\ backups[key[p]] = bytes[p]
      BY <1>1, <2>2 DEF IInv, Shape, Safe
    <3> QED BY <3>1 DEF Written, Unread, Migratable
  <2>4. \A m : Held(m) /\ m.names # {} => \E k \in Written : backups[k] = m
    BY DEF Held, Written, Unread
  <2>5. meta.names # {} /\ Original(meta).names # {}
    BY <1>1 DEF IInv, TypeOK, Published, Metadata, Original
  <2>6. CASE meta.names = {"new"}
    <3>1. Held(Original(meta))
      BY <1>1, <2>6 DEF IInv, Safe
    <3> QED BY <2>4, <2>5, <2>6, <3>1 DEF Recoverable
  <2>7. CASE meta.names # {"new"}
    <3>1. meta = bytes[p] \/ Held(meta)
      BY <1>1, <2>2, <2>7 DEF IInv, Safe
    <3> QED BY <2>3, <2>4, <2>5, <3>1 DEF Recoverable
  <2> QED BY <2>6, <2>7
<1>2. IInv /\ [Next]_vars =>
         [\A p \in Operators : DistinctKeys /\ Replaces(p) => Recoverable(meta)]_vars
  BY <1>1
<1> QED BY <1>2, Always, PTL DEF Spec, NothingLost
=============================================================================
