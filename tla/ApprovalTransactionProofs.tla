--------------------- MODULE ApprovalTransactionProofs ---------------------
(* Proofs about ApprovalTransaction, for every set of bodies and every      *)
(* bound: its types, and that a chapter which counts as approved has the    *)
(* evidence of its approval whatever has been interrupted.                  *)
EXTENDS ApprovalTransaction, TLAPS

-----------------------------------------------------------------------------
(* The inductive invariant *)

\* A receipt that is not a legacy one names a passing review of the body that it
\* has approved.
ReceiptSound(r, seen) ==
    r # Nothing /\ r.receipt # Nothing /\ ~r.receipt.legacy =>
        /\ r.receipt.review \in 1..Len(seen)
        /\ seen[r.receipt.review] = r.receipt.body

\* A manifest knows the recorded reviews only.  An approved chapter has a passing
\* one, and the story bible holds the settlement of its body, unless a repair has
\* left it out or the project is a mixture of two states.
ManifestSound(m, seen, mix) ==
    m # Nothing =>
        /\ m.review <= Len(seen)
        /\ m.status = "approved" =>
             /\ m.review # 0
             /\ ~mix /\ ~m.cut => seen[m.review] \in m.truth

Sound(d, seen, mix) ==
    /\ ReceiptSound(d.reviews, seen)
    /\ ManifestSound(d.manifest, seen, mix)

\* An approved chapter and its receipt are about the same body, which has been
\* settled.
Agree(m, r, seen) ==
    m # Nothing /\ m.status = "approved" /\ r # Nothing /\ r.receipt # Nothing
        /\ ~r.receipt.legacy =>
      /\ r.settlement = r.receipt.body
      /\ seen[m.review] = r.receipt.body

\* The files of the project.
FilesSound(d, seen, mix) ==
    /\ Sound(d, seen, mix)
    /\ ~mix => Agree(d.manifest, d.reviews, seen)

\* A before image is taken of a chapter that is not approved.
BeforeImage(d, seen, mix) ==
    d # Nothing =>
        /\ Sound(d, seen, mix)
        /\ d.manifest # Nothing => d.manifest.status # "approved"

Sources ==
    /\ \A t \in 1..MaxTx : BeforeImage(backups[t], reviewed, mixed)
    /\ snapshot # Nothing => Sound(snapshot, reviewed, mixed)

\* The transaction works on the body and the review that it has checked.
InTransaction ==
    /\ pc \in {"clean", "copy", "prepare", "settle", "commit", "receipt", "close"} =>
         tx \in 1..MaxTx /\ Body # Nothing
    /\ pc \in {"clean", "copy", "prepare", "settle", "commit", "receipt", "close",
               "cleanup", "checkpoint", "save", "list", "retire", "reopen", "status"} =>
         Manifest # Nothing
    /\ pc \in {"clean", "copy", "prepare", "settle", "commit", "receipt"} =>
         /\ Receipt = Nothing
         /\ Manifest.review # 0 /\ reviewed[Manifest.review] = Body
    /\ pc \in {"clean", "copy"} => ~Approved
    /\ pc \in {"clean", "copy", "prepare", "settle"} => Records.pending = Body
    /\ pc \in {"commit", "receipt"} => Records.settlement = Body
    /\ pc = "receipt" => Approved
    /\ pc \in {"settle", "commit", "receipt", "close"} => Journal # Nothing
    /\ pc \in {"cleanup", "root"} => tx \in 1..MaxTx
    /\ pc = "copy" => backups[tx] # Nothing
    /\ pc = "save" => snapshot # Nothing
    /\ pc \notin {"copy", "save", "moveout", "install"} => k = 1

\* The entries are moved out and installed in their order, from a source whose
\* approvals have been checked.
Replacing ==
    /\ pc \in {"moveout", "install", "discard"} =>
         /\ Staged # Nothing /\ Staged.manifest # Nothing
         /\ Agree(Staged.manifest, Staged.reviews, reviewed)
    /\ pc \notin {"moveout", "install", "discard"} => aside = Empty
    /\ pc = "moveout" =>
         /\ k <= 1 => aside.manifest = Nothing
         /\ aside.reviews = Nothing
         /\ k > 1 => disk.manifest = Nothing
         /\ ~mixed => Agree(IF k > 1 THEN aside.manifest ELSE disk.manifest,
                            disk.reviews, reviewed)
         /\ k = 1 /\ tx # 0 => Receipt = Nothing
    /\ pc \in {"install", "discard"} /\ ~mixed =>
         Agree(aside.manifest, aside.reviews, reviewed)
    /\ pc = "install" =>
         /\ k <= 1 => disk.manifest = Nothing
         /\ k > 1 => disk.manifest = Staged.manifest
         /\ disk.reviews = Nothing
    /\ pc = "discard" =>
         disk.manifest = Staged.manifest /\ disk.reviews = Staged.reviews
    /\ Sound(aside, reviewed, mixed)

IInv ==
    /\ TypeOK
    /\ FilesSound(disk, reviewed, mixed)
    /\ Sources
    /\ InTransaction
    /\ Replacing

-----------------------------------------------------------------------------
(* Types *)

LEMMA EntriesAre ==
    /\ Len(Entries) = 3
    /\ Entries[1] = "manifest" /\ Entries[2] = "chapters" /\ Entries[3] = "reviews"
BY DEF Entries

LEMMA EmptyTyped == Empty \in Directories /\ NoReviews \in Reviews
BY DEF Empty, NoReviews, Directories, Reviews

\* The records of a typed directory are typed.
LEMMA RecordsTyped ==
    ASSUME TypeOK
    PROVE  /\ Records \in Reviews
           /\ Manifest \in Manifests \union {Nothing}
           /\ Body \in Bodies \union {Nothing}
           /\ Journal \in Journals \union {Nothing}
           /\ Receipt \in Receipts \union {Nothing}
<1>1. disk \in Directories
  BY DEF TypeOK
<1>2. disk.reviews \in Reviews \union {Nothing}
  BY <1>1 DEF Directories
<1>3. Records \in Reviews
  BY <1>2, EmptyTyped DEF Records, ReviewsOf
<1>4. Manifest \in Manifests \union {Nothing} /\ Body \in Bodies \union {Nothing}
  BY <1>1 DEF Directories, Manifest, Body
<1> QED
  BY <1>3, <1>4 DEF Reviews, Journal, Receipt

LEMMA JournalTyped ==
    ASSUME TypeOK, Journal # Nothing
    PROVE  Journal \in Journals /\ Journal.tx \in 1..MaxTx
BY RecordsTyped DEF Journals

\* One entry of a directory becomes that of another, or is removed.
LEMMA EntryAfter ==
    ASSUME NEW d \in Directories, NEW e \in Directories, NEW i \in 1..3
    PROVE  LET w == [d EXCEPT ![Entries[i]] = e[Entries[i]]]
               z == [d EXCEPT ![Entries[i]] = Nothing]
           IN /\ w \in Directories /\ z \in Directories
              /\ w.manifest = IF i = 1 THEN e.manifest ELSE d.manifest
              /\ w.chapters = IF i = 2 THEN e.chapters ELSE d.chapters
              /\ w.reviews = IF i = 3 THEN e.reviews ELSE d.reviews
              /\ z.manifest = IF i = 1 THEN Nothing ELSE d.manifest
              /\ z.chapters = IF i = 2 THEN Nothing ELSE d.chapters
              /\ z.reviews = IF i = 3 THEN Nothing ELSE d.reviews
<1>1. CASE i = 1
  BY <1>1, EntriesAre DEF Directories
<1>2. CASE i = 2
  BY <1>2, EntriesAre DEF Directories
<1>3. CASE i = 3
  BY <1>3, EntriesAre DEF Directories
<1> QED
  BY <1>1, <1>2, <1>3

\* What is left of a directory that was being deleted.
LEMMA RemainsTyped ==
    ASSUME NEW d \in Directories, NEW w \in Remains(d)
    PROVE  /\ w \in Directories
           /\ w.manifest \in {d.manifest, Nothing}
           /\ w.reviews \in {d.reviews, Nothing}
<1>1. PICK left \in SUBSET DOMAIN Empty :
         w = [e \in DOMAIN Empty |-> IF e \in left THEN d[e] ELSE Nothing]
  BY DEF Remains
<1> QED
  BY <1>1 DEF Empty, Directories

\* A directory that is copied over another.
LEMMA OverTyped ==
    ASSUME NEW old \in Reviews \union {Nothing}, NEW new \in Reviews \union {Nothing}
    PROVE  LET w == Over("reviews", old, new)
           IN /\ w \in Reviews \union {Nothing}
              /\ w # Nothing => \/ old # Nothing /\ w.receipt = old.receipt
                                \/ new # Nothing /\ w.receipt = new.receipt
<1> DEFINE w == Over("reviews", old, new)
<1>1. CASE new = Nothing \/ old = Nothing
  BY <1>1 DEF Over
<1>2. CASE new # Nothing /\ old # Nothing
  <2>1. old \in Reviews /\ new \in Reviews
    BY <1>2
  <2>2. w = [f \in DOMAIN NoReviews |-> IF new[f] = Nothing THEN old[f] ELSE new[f]]
    BY <1>2 DEF Over
  <2>3. /\ w = [f \in {"pending", "settlement", "journal", "receipt"} |->
                   IF new[f] = Nothing THEN old[f] ELSE new[f]]
    BY <2>2 DEF NoReviews
  <2>4. w = [pending |-> w.pending, settlement |-> w.settlement, journal |-> w.journal,
             receipt |-> w.receipt]
    BY <2>3
  <2>5. /\ w.pending = IF new.pending = Nothing THEN old.pending ELSE new.pending
        /\ w.settlement = IF new.settlement = Nothing THEN old.settlement ELSE new.settlement
        /\ w.journal = IF new.journal = Nothing THEN old.journal ELSE new.journal
        /\ w.receipt = IF new.receipt = Nothing THEN old.receipt ELSE new.receipt
    BY <2>3
  <2> HIDE DEF w
  <2>6. w \in Reviews
    BY <2>1, <2>4, <2>5 DEF Reviews
  <2> QED
    BY <1>2, <2>5, <2>6 DEF w
<1> QED
  BY <1>1, <1>2

\* Writes into a typed directory.
LEMMA WritesTyped ==
    ASSUME NEW d \in Directories
    PROVE  /\ \A m \in Manifests : [d EXCEPT !.manifest = m] \in Directories
           /\ \A r \in Reviews : [d EXCEPT !.reviews = r] \in Directories
           /\ \A b \in Bodies : [d EXCEPT !.chapters = b] \in Directories
BY DEF Directories

\* The parts of the directory after one of them has been written.
LEMMA PartsAfter ==
    ASSUME NEW d \in Directories
    PROVE  /\ \A m : LET w == [d EXCEPT !.manifest = m]
                     IN w.manifest = m /\ w.chapters = d.chapters /\ w.reviews = d.reviews
           /\ \A r : LET w == [d EXCEPT !.reviews = r]
                     IN w.manifest = d.manifest /\ w.chapters = d.chapters /\ w.reviews = r
           /\ \A c : LET w == [d EXCEPT !.chapters = c]
                     IN w.manifest = d.manifest /\ w.chapters = c /\ w.reviews = d.reviews
BY DEF Directories

\* Writes of one record.
LEMMA JournalWritten ==
    ASSUME NEW r \in Reviews, NEW j \in Journals
    PROVE  LET w == [r EXCEPT !.journal = j]
           IN /\ w \in Reviews /\ w # Nothing /\ w.journal = j /\ w.receipt = r.receipt
              /\ w.settlement = r.settlement /\ w.pending = r.pending
BY NothingAssumption DEF Reviews

LEMMA ReceiptWritten ==
    ASSUME NEW r \in Reviews, NEW c \in Receipts
    PROVE  LET w == [r EXCEPT !.receipt = c]
           IN /\ w \in Reviews /\ w # Nothing /\ w.journal = r.journal /\ w.receipt = c
              /\ w.settlement = r.settlement /\ w.pending = r.pending
BY NothingAssumption DEF Reviews

LEMMA SettlementWritten ==
    ASSUME NEW r \in Reviews, NEW b \in Bodies \union {Nothing}
    PROVE  LET w == [r EXCEPT !.settlement = b]
           IN /\ w \in Reviews /\ w # Nothing /\ w.journal = r.journal
              /\ w.receipt = r.receipt /\ w.settlement = b /\ w.pending = r.pending
BY NothingAssumption DEF Reviews

LEMMA PendingWritten ==
    ASSUME NEW r \in Reviews, NEW b \in Bodies \union {Nothing}
    PROVE  LET w == [r EXCEPT !.pending = b]
           IN /\ w \in Reviews /\ w # Nothing /\ w.journal = r.journal
              /\ w.receipt = r.receipt /\ w.settlement = r.settlement /\ w.pending = b
BY NothingAssumption DEF Reviews

\* Writes of the manifest.
LEMMA StatusWritten ==
    ASSUME NEW m \in Manifests, NEW s \in {"open", "ready", "approved"}
    PROVE  LET w == [m EXCEPT !.status = s]
           IN /\ w \in Manifests /\ w # Nothing /\ w.status = s /\ w.review = m.review
              /\ w.truth = m.truth /\ w.cut = m.cut
BY NothingAssumption DEF Manifests

LEMMA ListWritten ==
    ASSUME NEW m \in Manifests
    PROVE  LET w == [m EXCEPT !.listed = TRUE]
           IN /\ w \in Manifests /\ w # Nothing /\ w.status = m.status /\ w.review = m.review
              /\ w.truth = m.truth /\ w.cut = m.cut
BY NothingAssumption DEF Manifests

LEMMA TruthWritten ==
    ASSUME NEW m \in Manifests, NEW t \in SUBSET Bodies, NEW c \in BOOLEAN
    PROVE  LET w == [m EXCEPT !.truth = t, !.cut = c]
           IN /\ w \in Manifests /\ w # Nothing /\ w.status = m.status /\ w.review = m.review
              /\ w.truth = t /\ w.cut = c
BY NothingAssumption DEF Manifests

LEMMA ReviewWritten ==
    ASSUME NEW m \in Manifests, NEW i \in 0..MaxAudits, NEW s \in {"open", "ready"}
    PROVE  LET w == [m EXCEPT !.status = s, !.review = i]
           IN w \in Manifests /\ w # Nothing /\ w.status = s /\ w.review = i
BY NothingAssumption DEF Manifests

\* The manifest that an approval commits.
Committed(m, b) ==
    [m EXCEPT !.status = "approved", !.truth = @ \union {b}, !.cut = FALSE]

LEMMA CommitWritten ==
    ASSUME NEW m \in Manifests, NEW b \in Bodies
    PROVE  LET w == Committed(m, b)
           IN /\ w \in Manifests /\ w # Nothing /\ w.status = "approved"
              /\ w.review = m.review /\ b \in w.truth /\ w.cut = FALSE
<1>1. m.truth \union {b} \in SUBSET Bodies
  BY DEF Manifests
<1> QED
  BY <1>1, NothingAssumption DEF Manifests, Committed

\* The receipts that an approval and a repair write.
NewReceipt == [tx |-> tx, body |-> Body, review |-> Manifest.review,
               truth |-> Manifest.truth, legacy |-> FALSE]

LegacyReceipt == [tx |-> 0, body |-> Body, review |-> 0, truth |-> {}, legacy |-> TRUE]

LEMMA ReceiptsTyped ==
    ASSUME TypeOK, Body # Nothing
    PROVE  /\ LegacyReceipt \in Receipts
           /\ Manifest # Nothing => NewReceipt \in Receipts
<1>1. Body \in Bodies /\ Manifest \in Manifests \union {Nothing} /\ tx \in 0..MaxTx
  BY RecordsTyped DEF TypeOK
<1>2. LegacyReceipt \in Receipts
  BY <1>1, BoundsAssumption DEF LegacyReceipt, Receipts
<1>3. ASSUME Manifest # Nothing PROVE NewReceipt \in Receipts
  <2>1. Manifest.review \in 0..MaxAudits /\ Manifest.truth \in SUBSET Bodies
    BY <1>1, <1>3 DEF Manifests
  <2> QED
    BY <1>1, <2>1 DEF NewReceipt, Receipts
<1> QED
  BY <1>2, <1>3

\* The journal that an approval closes.
LEMMA JournalClosed ==
    ASSUME NEW r \in Reviews, r.journal \in Journals
    PROVE  LET w == [r EXCEPT !.journal.state = "Committed"]
           IN /\ w \in Reviews /\ w # Nothing /\ w.receipt = r.receipt
              /\ w.settlement = r.settlement /\ w.pending = r.pending
<1>1. [r.journal EXCEPT !.state = "Committed"] \in Journals
  BY DEF Journals
<1>2. [r EXCEPT !.journal.state = "Committed"]
      = [r EXCEPT !.journal = [r.journal EXCEPT !.state = "Committed"]]
  OBVIOUS
<1> QED
  BY <1>1, <1>2, JournalWritten

\* One entry of the project is copied over that of a snapshot.
LEMMA SaveTyped ==
    ASSUME NEW d \in Directories, NEW e \in Directories, NEW i \in 1..3
    PROVE  LET w == [d EXCEPT ![Entries[i]] = Over(Entries[i], @, e[Entries[i]])]
           IN /\ w \in Directories
              /\ w.manifest \in {d.manifest, e.manifest}
              /\ \/ w.reviews = d.reviews
                 \/ w.reviews = Over("reviews", d.reviews, e.reviews)
<1>r. d.reviews \in Reviews \union {Nothing} /\ e.reviews \in Reviews \union {Nothing}
  BY DEF Directories
<1>o. Over("reviews", d.reviews, e.reviews) \in Reviews \union {Nothing}
  BY <1>r, OverTyped
<1>1. CASE i = 1
  BY <1>1, EntriesAre DEF Directories, Over
<1>2. CASE i = 2
  BY <1>2, EntriesAre DEF Directories, Over
<1>3. CASE i = 3
  BY <1>o, <1>3, EntriesAre DEF Directories
<1> QED
  BY <1>1, <1>2, <1>3

\* What a failed restore leaves.
LEMMA OutcomesTyped ==
    ASSUME disk \in Directories, aside \in Directories,
           NEW m \in Outcomes("manifest"), NEW c \in Outcomes("chapters"),
           NEW r \in Outcomes("reviews")
    PROVE  /\ [manifest |-> m, chapters |-> c, reviews |-> r] \in Directories
           /\ m \in {aside.manifest, disk.manifest, Nothing}
           /\ r \in {aside.reviews, disk.reviews, Nothing}
BY DEF Directories, Outcomes

\* Every step keeps the types.
LEMMA TypeStep == IInv /\ [Next]_vars => TypeOK'
<1> SUFFICES ASSUME IInv, [Next]_vars PROVE TypeOK'
  OBVIOUS
<1>t. TypeOK /\ InTransaction
  BY DEF IInv
<1>d. disk \in Directories /\ aside \in Directories /\ Len(Entries) = 3
  BY <1>t, EntriesAre DEF TypeOK
<1>r. /\ Records \in Reviews /\ Manifest \in Manifests \union {Nothing}
      /\ Body \in Bodies \union {Nothing}
      /\ Journal \in Journals \union {Nothing} /\ Receipt \in Receipts \union {Nothing}
  BY <1>t, RecordsTyped
<1>j. Journal # Nothing => Journal \in Journals /\ Journal.tx \in 1..MaxTx
  BY <1>t, JournalTyped
<1>w. ASSUME NEW r \in Reviews, SetRecords(r) PROVE disk' \in Directories
  BY <1>d, <1>w, WritesTyped DEF SetRecords
<1>m. ASSUME NEW m \in Manifests, SetManifest(m) PROVE disk' \in Directories
  BY <1>d, <1>m, WritesTyped DEF SetManifest
<1>1. CASE ApproveReplay
  BY <1>t, <1>d, <1>j, <1>1, EmptyTyped, BoundsAssumption
  DEF ApproveReplay, TypeOK, PCs, Begin
<1>2. CASE ApproveRecover
  BY <1>t, <1>d, <1>j, <1>2, EmptyTyped, BoundsAssumption
  DEF ApproveRecover, TypeOK, PCs, Begin, Prepared
<1>3. CASE ApproveRollback
  BY <1>t, <1>d, <1>j, <1>3, EmptyTyped, BoundsAssumption
  DEF ApproveRollback, TypeOK, PCs, Begin, RollbackDue, Prepared
<1>4. CASE ApproveFresh
  BY <1>t, <1>d, <1>j, <1>4, EmptyTyped, BoundsAssumption
  DEF ApproveFresh, TypeOK, PCs, Begin, Prepared
<1>5. CASE Clean
  BY <1>t, <1>d, <1>5, EmptyTyped, BoundsAssumption
  DEF Clean, TypeOK, InTransaction, PCs, GoTo, local
<1>6. CASE Cleanup
  BY <1>t, <1>d, <1>6, EmptyTyped, BoundsAssumption
  DEF Cleanup, TypeOK, InTransaction, PCs, GoTo, Done, local
<1>7. CASE Checkpoint
  BY <1>t, <1>d, <1>7, EmptyTyped, BoundsAssumption
  DEF Checkpoint, TypeOK, PCs, GoTo, local
<1>8. CASE Discard
  BY <1>t, <1>d, <1>8, EmptyTyped, BoundsAssumption DEF Discard, TypeOK, PCs
<1>9. CASE RemoveRoot
  BY <1>t, <1>d, <1>9, EmptyTyped, BoundsAssumption
  DEF RemoveRoot, TypeOK, InTransaction, PCs, Done
<1>10. CASE TakeSnapshot
  <2>1. snapshot' \in Directories \union {Nothing} /\ snaps' \in 0..MaxSnapshots
    BY <1>t, <1>10, EmptyTyped, BoundsAssumption DEF TakeSnapshot, TypeOK
  <2> QED
    BY <1>t, <1>10, <2>1 DEF TakeSnapshot, TypeOK, PCs, GoTo, local
<1>11. CASE RestoreSnapshot
  BY <1>t, <1>d, <1>11, BoundsAssumption DEF RestoreSnapshot, TypeOK, PCs, Begin
<1>12. CASE Prepare
  <2>1. [tx |-> tx, body |-> Body, state |-> "Prepared"] \in Journals
    BY <1>t, <1>r, <1>12 DEF Prepare, InTransaction, Journals
  <2>2. disk' \in Directories
    BY <1>r, <1>w, <1>12, <2>1, JournalWritten DEF Prepare
  <2> QED
    BY <1>t, <1>12, <2>2 DEF Prepare, TypeOK, PCs, GoTo, local
<1>13. CASE SettleApproved
  <2>1. Records.pending \in Bodies \union {Nothing}
    BY <1>r DEF Reviews
  <2>2. disk' \in Directories
    BY <1>r, <1>w, <1>13, <2>1, SettlementWritten DEF SettleApproved
  <2> QED
    BY <1>t, <1>13, <2>2 DEF SettleApproved, TypeOK, PCs, GoTo, local
<1>14. CASE Commit
  <2>1. Manifest \in Manifests /\ Body \in Bodies
    BY <1>t, <1>r, <1>14 DEF Commit, InTransaction
  <2>2. SetManifest(Committed(Manifest, Body))
    BY <1>14 DEF Commit, Committed
  <2>3. disk' \in Directories
    BY <1>m, <2>1, <2>2, CommitWritten
  <2> QED
    BY <1>t, <1>14, <2>3 DEF Commit, TypeOK, PCs, GoTo, local
<1>15. CASE WriteReceipt
  <2>1. NewReceipt \in Receipts
    BY <1>t, <1>15, ReceiptsTyped DEF WriteReceipt, InTransaction
  <2>2. SetRecords([Records EXCEPT !.receipt = NewReceipt])
    BY <1>15 DEF WriteReceipt, NewReceipt
  <2>3. disk' \in Directories
    BY <1>r, <1>w, <2>1, <2>2, ReceiptWritten
  <2> QED
    BY <1>t, <1>15, <2>3 DEF WriteReceipt, TypeOK, PCs, GoTo, local
<1>16. CASE CloseJournal
  <2>1. Records.journal \in Journals
    BY <1>t, <1>r, <1>16 DEF CloseJournal, InTransaction, Journal
  <2>2. disk' \in Directories
    BY <1>r, <1>w, <1>16, <2>1, JournalClosed DEF CloseJournal
  <2> QED
    BY <1>t, <1>16, <2>2 DEF CloseJournal, TypeOK, PCs, GoTo, local
<1>17. CASE SettleState
  <2>1. PICK p \in {Body, Nothing} : SetRecords([Records EXCEPT !.pending = p])
    BY <1>17 DEF SettleState
  <2>2. disk' \in Directories
    BY <1>r, <1>w, <2>1, PendingWritten
  <2> QED
    BY <1>t, <1>17, <2>2 DEF SettleState, TypeOK, PCs, GoTo, local
<1>18. CASE Reject \/ Reopen \/ SettledStatus
  <2>1. Manifest \in Manifests
    BY <1>t, <1>r, <1>18 DEF Reject, Reopen, SettledStatus, InTransaction
  <2>2. PICK s \in {"open", "ready", "approved"} : SetManifest([Manifest EXCEPT !.status = s])
    BY <1>18 DEF Reject, Reopen, SettledStatus
  <2>3. disk' \in Directories
    BY <1>m, <2>1, <2>2, StatusWritten
  <2> QED
    BY <1>t, <1>18, <2>3, EmptyTyped, EntriesAre, BoundsAssumption
    DEF Reject, Reopen, SettledStatus, TypeOK, PCs, Done, local
<1>19. CASE Repair
  <2>1. Manifest \in Manifests
    BY <1>r, <1>19 DEF Repair
  <2>2. ASSUME Body # Nothing, SetRecords([Records EXCEPT !.receipt = LegacyReceipt])
        PROVE  disk' \in Directories
    BY <1>t, <1>r, <1>w, <2>2, ReceiptsTyped, ReceiptWritten
  <2>3. ASSUME NEW t \in SUBSET Bodies, NEW c \in BOOLEAN,
               SetManifest([Manifest EXCEPT !.truth = t, !.cut = c])
        PROVE  disk' \in Directories
    BY <1>m, <2>1, <2>3, TruthWritten
  <2>4. (Body # Nothing => {Body} \in SUBSET Bodies) /\ {} \in SUBSET Bodies
        /\ Approved \in BOOLEAN
    BY <1>r DEF Approved
  <2>5. disk' \in Directories
    BY <1>19, <2>2, <2>3, <2>4 DEF Repair, LegacyReceipt
  <2> QED
    BY <1>t, <1>19, <2>5 DEF Repair, TypeOK, local
<1>20. CASE Audit
  <2>1. Manifest \in Manifests /\ Body \in Bodies
    BY <1>r, <1>20 DEF Audit, Readable
  <2>2. PICK v \in Bodies \union {Nothing}, i \in {0, Len(reviewed')}, s \in {"open", "ready"} :
           /\ reviewed' = Append(reviewed, v)
           /\ SetManifest([Manifest EXCEPT !.status = s, !.review = i])
    BY <1>20, <2>1 DEF Audit
  <2>3. reviewed' \in Seq(Bodies \union {Nothing}) /\ Len(reviewed') = Len(reviewed) + 1
    BY <1>t, <2>2 DEF TypeOK
  <2>4. Len(reviewed') \in 0..MaxAudits
    BY <1>t, <1>20, <2>3, BoundsAssumption DEF Audit, TypeOK
  <2>5. i \in 0..MaxAudits
    BY <2>2, <2>4, BoundsAssumption
  <2>6. disk' \in Directories
    BY <1>m, <2>1, <2>2, <2>5, ReviewWritten
  <2> QED
    BY <1>t, <1>20, <2>3, <2>4, <2>6, BoundsAssumption DEF Audit, TypeOK, local
<1>21. ASSUME NEW b \in Bodies, WriteBody(b) PROVE TypeOK'
  <2>1. disk' \in Directories
    BY <1>d, <1>21, WritesTyped DEF WriteBody
  <2> QED
    BY <1>t, <1>21, <2>1 DEF WriteBody, TypeOK, PCs, GoTo, local
<1>22. CASE RetirePending
  <2>1. disk' \in Directories
    BY <1>d, <1>r, <1>w, <1>22, PendingWritten DEF RetirePending
  <2> QED
    BY <1>t, <1>22, <2>1 DEF RetirePending, TypeOK, PCs, GoTo, local
<1>23. CASE ListSnapshot
  <2>1. Manifest \in Manifests
    BY <1>t, <1>r, <1>23 DEF ListSnapshot, InTransaction
  <2>2. disk' \in Directories
    BY <1>m, <1>23, <2>1, ListWritten DEF ListSnapshot
  <2> QED
    BY <1>t, <1>23, <2>2, EmptyTyped, EntriesAre, BoundsAssumption
    DEF ListSnapshot, TypeOK, PCs, Done
<1>24. CASE Copy
  <2>1. tx \in 1..MaxTx /\ k \in 1..3 /\ backups[tx] \in Directories
    BY <1>t, <1>d, <1>24 DEF Copy, TypeOK, InTransaction
  <2>2. [backups[tx] EXCEPT ![Entries[k]] = disk[Entries[k]]] \in Directories
    BY <1>d, <2>1, EntryAfter
  <2>3. backups' \in [1..MaxTx -> Directories \union {Nothing}]
    BY <1>t, <1>24, <2>1, <2>2 DEF Copy, TypeOK
  <2> QED
    BY <1>t, <1>d, <1>24, <2>3 DEF Copy, TypeOK, PCs
<1>25. CASE Save
  <2>1. k \in 1..3 /\ snapshot \in Directories
    BY <1>t, <1>d, <1>25 DEF Save, TypeOK, InTransaction
  <2>2. snapshot' \in Directories
    BY <1>t, <1>d, <1>25, <2>1, SaveTyped DEF Save
  <2> QED
    BY <1>t, <1>d, <1>25, <2>2 DEF Save, TypeOK, PCs
<1>26. CASE MoveOut
  <2>1. disk' \in Directories /\ aside' \in Directories
    BY <1>t, <1>d, <1>26, EntryAfter DEF MoveOut, TypeOK
  <2> QED
    BY <1>t, <1>d, <1>26, <2>1 DEF MoveOut, TypeOK, PCs
<1>27. CASE Install
  <2>1. Staged \in Directories
    BY <1>t, <1>27 DEF Install, IInv, Replacing, Staged, TypeOK
  <2>2. disk' \in Directories
    BY <1>t, <1>d, <2>1, <1>27, EntryAfter DEF Install, TypeOK
  <2> QED
    BY <1>t, <1>d, <1>27, <2>2 DEF Install, TypeOK, PCs
<1>28. CASE RenameFails
  <2>1. disk' \in Directories
    BY <1>d, <1>28, OutcomesTyped DEF RenameFails
  <2>2. pc' = "idle" /\ tx' = 0 /\ k' = 1 /\ aside' = Empty
    BY <1>28 DEF RenameFails, Done
  <2>3. crashes' \in 0..MaxCrashes /\ mixed' \in BOOLEAN
    <3>1. \/ mixed' = mixed /\ crashes' = crashes
          \/ mixed' = TRUE /\ crashes < MaxCrashes /\ crashes' = crashes + 1
      BY <1>28, Zenon DEF RenameFails
    <3>2. crashes' = crashes \/ (crashes < MaxCrashes /\ crashes' = crashes + 1)
      BY <3>1, Zenon
    <3>3. crashes \in 0..MaxCrashes /\ mixed \in BOOLEAN
      BY <1>t DEF TypeOK
    <3>4. crashes' \in 0..MaxCrashes
      BY <3>2, <3>3, BoundsAssumption
    <3>5. mixed' \in BOOLEAN
      BY <3>1, <3>3, Zenon
    <3> QED
      BY <3>4, <3>5
  <2> QED
    BY <1>t, <1>d, <1>28, <2>1, <2>2, <2>3, EmptyTyped, BoundsAssumption
    DEF RenameFails, TypeOK, PCs
<1>29. CASE Crash
  <2>1. pc' = "idle" /\ tx' = 0 /\ k' = 1 /\ aside' = Empty
    BY <1>29 DEF Crash, Done
  <2>2. crashes' \in 0..MaxCrashes
    BY <1>t, <1>29, BoundsAssumption DEF Crash, TypeOK
  <2>3. backups' \in [1..MaxTx -> Directories \union {Nothing}]
    <3>1. CASE backups' = backups
      BY <1>t, <3>1 DEF TypeOK
    <3>2. CASE backups' # backups
      <4>1. tx \in 1..MaxTx /\ backups[tx] \in Directories
        BY <1>t, <1>29, <3>2 DEF Crash, TypeOK, InTransaction
      <4>2. PICK d \in Remains(backups[tx]) : backups' = [backups EXCEPT ![tx] = d]
        BY <1>29, <3>2 DEF Crash
      <4> QED
        BY <1>t, <4>1, <4>2, RemainsTyped DEF TypeOK
    <3> QED
      BY <3>1, <3>2
  <2>4. snapshot' \in Directories \union {Nothing}
    <3>1. CASE snapshot' = snapshot
      BY <1>t, <3>1 DEF TypeOK
    <3>2. CASE snapshot' # snapshot
      BY <1>t, <1>29, <3>2, RemainsTyped DEF Crash, TypeOK
    <3> QED
      BY <3>1, <3>2
  <2> QED
    BY <1>t, <1>d, <1>29, <2>1, <2>2, <2>3, <2>4, EmptyTyped, BoundsAssumption
    DEF Crash, TypeOK, PCs
<1> QED
  BY <1>t, <1>1, <1>2, <1>3, <1>4, <1>5, <1>6, <1>7, <1>8, <1>9, <1>10, <1>11, <1>12, <1>13,
     <1>14, <1>15, <1>16, <1>17, <1>18, <1>19, <1>20, <1>21, <1>22, <1>23, <1>24, <1>25, <1>26,
     <1>27, <1>28, <1>29
  DEF Next, Approve, Step, vars, TypeOK

-----------------------------------------------------------------------------
(* Soundness of the files *)

\* Reviews are only added, and a mixture stays one.
Longer(seen, more) ==
    /\ Len(seen) \in Nat /\ Len(more) \in Nat /\ Len(seen) <= Len(more)
    /\ \A i \in 1..Len(seen) : more[i] = seen[i]

LEMMA HistoryGrows ==
    ASSUME IInv, [Next]_vars
    PROVE  Longer(reviewed, reviewed') /\ (mixed => mixed')
<1>t. reviewed \in Seq(Bodies \union {Nothing}) /\ Len(reviewed) \in Nat
  BY DEF IInv, TypeOK
<1>1. CASE Audit
  <2>1. Body \in Bodies \union {Nothing}
    BY RecordsTyped DEF IInv
  <2>2. PICK v \in Bodies \union {Nothing} : reviewed' = Append(reviewed, v)
    BY <1>1, <2>1 DEF Audit
  <2>3. Longer(reviewed, reviewed')
    BY <1>t, <2>2 DEF Longer
  <2> QED
    BY <1>1, <2>3 DEF Audit
<1>2. CASE RenameFails
  <2>1. reviewed' = reviewed /\ (mixed' = mixed \/ mixed' = TRUE)
    BY <1>2, Zenon DEF RenameFails
  <2>2. Longer(reviewed, reviewed')
    BY <1>t, <2>1 DEF Longer
  <2> QED
    BY <2>1, <2>2
<1>3. CASE reviewed' = reviewed /\ mixed' = mixed
  BY <1>t, <1>3 DEF Longer
<1> QED
  BY <1>1, <1>2, <1>3 DEF Next, Approve, Step, vars,
     ApproveReplay, ApproveRecover, ApproveRollback, ApproveFresh, Clean, Copy, Prepare,
     SettleApproved, Commit, WriteReceipt, CloseJournal, Cleanup, Checkpoint, Save,
     ListSnapshot, MoveOut, Install, Discard, RemoveRoot, RetirePending, Reopen,
     SettledStatus, WriteBody, SettleState, Reject, Repair, TakeSnapshot,
     RestoreSnapshot, Crash

LEMMA SoundLater ==
    ASSUME NEW seen, NEW more, NEW mix, NEW mixes, Longer(seen, more), mix => mixes
    PROVE  /\ \A r \in Reviews \union {Nothing} :
                 ReceiptSound(r, seen) => ReceiptSound(r, more)
           /\ \A m \in Manifests \union {Nothing} :
                 ManifestSound(m, seen, mix) => ManifestSound(m, more, mixes)
           /\ \A d \in Directories : Sound(d, seen, mix) => Sound(d, more, mixes)
<1>1. \A r \in Reviews \union {Nothing} : ReceiptSound(r, seen) => ReceiptSound(r, more)
  BY DEF ReceiptSound, Longer
<1>2. ASSUME NEW m \in Manifests \union {Nothing}, ManifestSound(m, seen, mix)
      PROVE  ManifestSound(m, more, mixes)
  <2> SUFFICES ASSUME m # Nothing
               PROVE  /\ m.review <= Len(more)
                      /\ m.status = "approved" => m.review # 0
                      /\ m.status = "approved" /\ ~mixes /\ ~m.cut => more[m.review] \in m.truth
    BY DEF ManifestSound
  <2>1. m.review \in Nat /\ m.review <= Len(seen)
    BY <1>2, BoundsAssumption DEF ManifestSound, Manifests
  <2>2. m.review <= Len(more) /\ (m.review # 0 => more[m.review] = seen[m.review])
    BY <2>1 DEF Longer
  <2> QED
    BY <1>2, <2>2 DEF ManifestSound
<1>3. \A d \in Directories : /\ d.reviews \in Reviews \union {Nothing}
                            /\ d.manifest \in Manifests \union {Nothing}
  BY DEF Directories
<1> QED
  BY <1>1, <1>2, <1>3 DEF Sound

LEMMA AgreeLater ==
    ASSUME NEW seen, NEW more, NEW mix, Longer(seen, more),
           NEW m \in Manifests \union {Nothing}, NEW r, ManifestSound(m, seen, mix),
           Agree(m, r, seen)
    PROVE  Agree(m, r, more)
<1>1. m # Nothing /\ m.status = "approved" => m.review \in 1..Len(seen)
  BY BoundsAssumption DEF ManifestSound, Manifests, Longer
<1> QED
  BY <1>1 DEF Agree, Longer

LEMMA NothingIsSound ==
    ASSUME NEW seen, NEW mix
    PROVE  /\ Sound(Empty, seen, mix)
           /\ ReceiptSound(NoReviews, seen) /\ ReceiptSound(Nothing, seen)
           /\ ManifestSound(Nothing, seen, mix)
           /\ \A m, r : Agree(Nothing, r, seen) /\ Agree(m, Nothing, seen)
BY DEF Empty, NoReviews, Sound, ReceiptSound, ManifestSound, Agree

\* The project's files stay sound, and its manifest and receipt in agreement.
LEMMA DiskStep == IInv /\ [Next]_vars => FilesSound(disk', reviewed', mixed')
<1> SUFFICES ASSUME IInv, [Next]_vars PROVE FilesSound(disk', reviewed', mixed')
  OBVIOUS
<1>t. /\ TypeOK /\ InTransaction /\ Replacing /\ Sources /\ Sound(disk, reviewed, mixed)
      /\ ~mixed => Agree(Manifest, disk.reviews, reviewed)
      /\ disk \in Directories /\ aside \in Directories
      /\ disk.manifest \in Manifests \union {Nothing}
  BY DEF IInv, TypeOK, Directories, FilesSound, Manifest
<1>r. /\ Records \in Reviews /\ Manifest \in Manifests \union {Nothing}
      /\ Body \in Bodies \union {Nothing}
      /\ Journal \in Journals \union {Nothing} /\ Receipt \in Receipts \union {Nothing}
      /\ Records # Nothing
  BY <1>t, RecordsTyped, NothingAssumption
<1>h. Longer(reviewed, reviewed') /\ (mixed => mixed')
  BY HistoryGrows
<1>s. /\ Sound(disk, reviewed', mixed')
      /\ ~mixed' => Agree(Manifest, disk.reviews, reviewed')
  BY <1>t, <1>h, SoundLater, AgreeLater DEF Sound, Manifest
<1>n. /\ ReceiptSound(Records, reviewed')
      /\ ~mixed' => Agree(Manifest, Records, reviewed')
      /\ ManifestSound(Manifest, reviewed', mixed')
  BY <1>s, NothingIsSound DEF Records, ReviewsOf, Sound, Manifest, Agree, NoReviews
<1>u. ASSUME disk'.manifest = disk.manifest, disk'.reviews = disk.reviews
      PROVE  FilesSound(disk', reviewed', mixed')
  BY <1>s, <1>u DEF FilesSound, Sound, Manifest
\* A write of the records, or of the manifest, leaves the other sound.
<1>w. ASSUME NEW r \in Reviews, SetRecords(r), ReceiptSound(r, reviewed'),
             ~mixed' => Agree(Manifest, r, reviewed')
      PROVE  FilesSound(disk', reviewed', mixed')
  BY <1>t, <1>s, <1>w, PartsAfter DEF SetRecords, FilesSound, Sound, Manifest
<1>v. ASSUME NEW r \in Reviews, SetRecords(r), r.receipt = Receipt,
             r.settlement = Records.settlement
      PROVE  FilesSound(disk', reviewed', mixed')
  BY <1>r, <1>n, <1>w, <1>v DEF ReceiptSound, Agree, Receipt
<1>m. ASSUME NEW m \in Manifests, SetManifest(m), ManifestSound(m, reviewed', mixed'),
             ~mixed' => Agree(m, disk.reviews, reviewed')
      PROVE  FilesSound(disk', reviewed', mixed')
  BY <1>t, <1>s, <1>m, PartsAfter DEF SetManifest, FilesSound, Sound, Manifest
<1>o. ASSUME NEW m \in Manifests, SetManifest(m), m.status # "approved",
             m.review <= Len(reviewed')
      PROVE  FilesSound(disk', reviewed', mixed')
  BY <1>m, <1>o DEF ManifestSound, Agree
<1>1. CASE Prepare
  <2> DEFINE j == [tx |-> tx, body |-> Body, state |-> "Prepared"]
  <2>1. j \in Journals
    BY <1>t, <1>r, <1>1 DEF Prepare, InTransaction, Journals
  <2>2. SetRecords([Records EXCEPT !.journal = j])
    BY <1>1 DEF Prepare
  <2> HIDE DEF j
  <2> QED
    BY <1>r, <1>v, <2>1, <2>2, JournalWritten DEF Receipt
<1>2. CASE SettleApproved
  <2>1. Records.pending \in Bodies \union {Nothing}
    BY <1>r DEF Reviews
  <2> DEFINE r == [Records EXCEPT !.settlement = Records.pending]
  <2>2. r \in Reviews /\ r.receipt = Receipt /\ Receipt = Nothing /\ SetRecords(r)
    BY <1>t, <1>r, <1>2, <2>1, SettlementWritten DEF SettleApproved, InTransaction, Receipt
  <2> HIDE DEF r
  <2> QED
    BY <1>w, <2>2 DEF ReceiptSound, Agree
<1>3. CASE Commit
  <2>1. Manifest \in Manifests /\ Body \in Bodies /\ Receipt = Nothing /\ reviewed' = reviewed
    BY <1>t, <1>r, <1>3 DEF Commit, InTransaction
  <2> DEFINE m == Committed(Manifest, Body)
  <2>2. /\ m \in Manifests /\ m.review = Manifest.review /\ Body \in m.truth
        /\ m.status = "approved"
    BY <2>1, CommitWritten
  <2>3. SetManifest(m)
    BY <1>3 DEF Commit, Committed
  <2>4. Manifest.review # 0 /\ reviewed[Manifest.review] = Body
    BY <1>t, <1>3 DEF Commit, InTransaction
  <2>5. Manifest.review <= Len(reviewed')
    BY <1>n, <2>1, NothingAssumption DEF ManifestSound
  <2> HIDE DEF m
  <2>6. ManifestSound(m, reviewed', mixed')
    BY <2>1, <2>2, <2>4, <2>5 DEF ManifestSound
  <2>7. Agree(m, disk.reviews, reviewed')
    BY <2>1 DEF Agree, Receipt, Records, ReviewsOf
  <2> QED
    BY <1>m, <2>2, <2>3, <2>6, <2>7
<1>4. CASE WriteReceipt
  <2>1. /\ Manifest \in Manifests /\ Body \in Bodies /\ reviewed' = reviewed
        /\ Records.settlement = Body
        /\ Manifest.review # 0 /\ reviewed[Manifest.review] = Body
    BY <1>t, <1>r, <1>4 DEF WriteReceipt, InTransaction
  <2>2. NewReceipt \in Receipts
    BY <1>t, <2>1, ReceiptsTyped, NothingAssumption
  <2> DEFINE r == [Records EXCEPT !.receipt = NewReceipt]
  <2>3. /\ r \in Reviews /\ r.receipt = NewReceipt /\ r.settlement = Body /\ SetRecords(r)
    BY <1>r, <1>4, <2>1, <2>2, ReceiptWritten DEF WriteReceipt, NewReceipt
  <2>4. Manifest.review \in 1..Len(reviewed)
    BY <1>n, <2>1, NothingAssumption, BoundsAssumption DEF ManifestSound, Manifests
  <2>5. NewReceipt.review = Manifest.review /\ NewReceipt.body = Body
    BY DEF NewReceipt
  <2> HIDE DEF r
  <2>6. ReceiptSound(r, reviewed') /\ Agree(Manifest, r, reviewed')
    BY <2>1, <2>3, <2>4, <2>5 DEF ReceiptSound, Agree
  <2> QED
    BY <1>w, <2>3, <2>6
<1>5. CASE CloseJournal
  <2>1. Records.journal \in Journals
    BY <1>t, <1>r, <1>5 DEF CloseJournal, InTransaction, Journal
  <2> QED
    BY <1>r, <1>v, <1>5, <2>1, JournalClosed DEF CloseJournal, Receipt
<1>6. CASE Audit
  <2>1. Manifest \in Manifests /\ Body \in Bodies
    BY <1>r, <1>6 DEF Audit, Readable
  <2>2. PICK i \in {0, Len(reviewed')}, s \in {"open", "ready"} :
           SetManifest([Manifest EXCEPT !.status = s, !.review = i])
    BY <1>6, <2>1 DEF Audit
  <2>3. Len(reviewed') \in 0..MaxAudits
    BY <1>h, TypeStep, BoundsAssumption DEF TypeOK, Longer
  <2>4. i \in 0..MaxAudits /\ i <= Len(reviewed')
    BY <2>2, <2>3, BoundsAssumption
  <2> DEFINE m == [Manifest EXCEPT !.status = s, !.review = i]
  <2>5. m \in Manifests /\ m.status = s /\ m.review = i
    <3>1. s \in {"open", "ready"}
      BY <2>2
    <3> QED
      BY <2>1, <2>4, <3>1 DEF Manifests
  <2> HIDE DEF m
  <2> QED
    BY <1>o, <2>2, <2>4, <2>5 DEF m
<1>7. CASE Reject \/ Reopen \/ SettledStatus
  <2>1. Manifest \in Manifests
    BY <1>t, <1>r, <1>7 DEF Reject, Reopen, SettledStatus, InTransaction
  <2>2. PICK s \in {"open", "ready"} : SetManifest([Manifest EXCEPT !.status = s])
    BY <1>7 DEF Reject, Reopen, SettledStatus
  <2> DEFINE m == [Manifest EXCEPT !.status = s]
  <2>3. m \in Manifests /\ m.status = s /\ m.review = Manifest.review
    <3>1. s \in {"open", "ready", "approved"}
      BY <2>2
    <3> QED
      BY <2>1, <3>1, StatusWritten
  <2>4. Manifest.review <= Len(reviewed')
    BY <1>n, <2>1, NothingAssumption DEF ManifestSound
  <2> HIDE DEF m
  <2> QED
    BY <1>o, <2>2, <2>3, <2>4 DEF m
<1>8. CASE Repair
  <2>1. Manifest \in Manifests /\ Manifest # Nothing /\ reviewed' = reviewed /\ mixed' = mixed
    BY <1>r, <1>8 DEF Repair
  <2>2. ASSUME Body # Nothing, SetRecords([Records EXCEPT !.receipt = LegacyReceipt])
        PROVE  FilesSound(disk', reviewed', mixed')
    <3> DEFINE r == [Records EXCEPT !.receipt = LegacyReceipt]
    <3>1. r \in Reviews /\ r.receipt = LegacyReceipt
      BY <1>t, <1>r, <2>2, ReceiptsTyped, ReceiptWritten
    <3>2. r.receipt.legacy
      BY <3>1 DEF LegacyReceipt
    <3> HIDE DEF r
    <3> QED
      BY <1>w, <2>2, <3>1, <3>2 DEF ReceiptSound, Agree, r
  \* The story bible is rebuilt with the chapter's settlement or without it.
  <2>3. ASSUME NEW t \in SUBSET Bodies, NEW c \in BOOLEAN,
               SetManifest([Manifest EXCEPT !.truth = t, !.cut = c]),
               Approved /\ ~c /\ ~mixed => reviewed[Manifest.review] \in t
        PROVE  FilesSound(disk', reviewed', mixed')
    <3> DEFINE m == [Manifest EXCEPT !.truth = t, !.cut = c]
    <3>1. /\ m \in Manifests /\ m.status = Manifest.status /\ m.review = Manifest.review
          /\ m.truth = t /\ m.cut = c
      <4>1. t \in SUBSET Bodies /\ c \in BOOLEAN
        BY <2>3
      <4> QED
        BY <2>1, <4>1 DEF Manifests
    <3> HIDE DEF m
    <3>2. ManifestSound(m, reviewed', mixed')
      BY <1>n, <2>1, <2>3, <3>1 DEF ManifestSound, Approved
    <3>3. ~mixed' => Agree(m, disk.reviews, reviewed')
      BY <1>s, <2>1, <3>1 DEF Agree
    <3> QED
      BY <1>m, <2>3, <3>1, <3>2, <3>3 DEF m
  <2>4. CASE /\ Approved /\ Body # Nothing /\ Receipt # Nothing /\ ~Receipt.legacy
             /\ Receipt.body = Body
             /\ SetManifest([Manifest EXCEPT !.truth = {Body}, !.cut = FALSE])
    <3>1. ~mixed => reviewed[Manifest.review] = Body
      BY <1>n, <1>r, <2>1, <2>4 DEF Agree, Approved, Receipt
    <3>2. {Body} \in SUBSET Bodies
      BY <1>r, <2>4
    <3> QED
      BY <2>3, <2>4, <3>1, <3>2
  <2>5. CASE SetManifest([Manifest EXCEPT !.truth = {}, !.cut = Approved])
    <3>1. Approved \in BOOLEAN /\ {} \in SUBSET Bodies
      BY DEF Approved
    <3> QED
      BY <2>3, <2>5, <3>1
  <2> QED
    BY <1>8, <2>2, <2>4, <2>5 DEF Repair, LegacyReceipt
<1>9. CASE SettleState
  <2>1. PICK p \in {Body, Nothing} : SetRecords([Records EXCEPT !.pending = p])
    BY <1>9 DEF SettleState
  <2>2. p \in Bodies \union {Nothing}
    BY <1>r, <2>1
  <2> QED
    BY <1>r, <1>v, <2>1, <2>2, PendingWritten DEF Receipt
<1>10. ASSUME NEW b \in Bodies, WriteBody(b) PROVE FilesSound(disk', reviewed', mixed')
  BY <1>t, <1>u, <1>10, PartsAfter DEF WriteBody
<1>11. CASE RetirePending
  BY <1>r, <1>u, <1>v, <1>11, PendingWritten DEF RetirePending, Receipt
<1>12. CASE ListSnapshot
  <2>1. Manifest \in Manifests /\ Manifest # Nothing /\ reviewed' = reviewed /\ mixed' = mixed
    BY <1>t, <1>r, <1>12 DEF ListSnapshot, InTransaction
  <2> DEFINE m == [Manifest EXCEPT !.listed = TRUE]
  <2>2. /\ m \in Manifests /\ m.status = Manifest.status /\ m.review = Manifest.review
        /\ m.truth = Manifest.truth /\ m.cut = Manifest.cut
    BY <2>1, ListWritten
  <2>3. SetManifest(m)
    BY <1>12 DEF ListSnapshot
  <2> HIDE DEF m
  <2>4. ManifestSound(m, reviewed', mixed') /\ (~mixed' => Agree(m, disk.reviews, reviewed'))
    BY <1>n, <1>s, <2>1, <2>2 DEF ManifestSound, Agree
  <2> QED
    BY <1>m, <2>2, <2>3, <2>4
<1>13. CASE MoveOut
  <2>1. disk' = [disk EXCEPT ![Entries[k]] = Nothing] /\ k \in 1..3 /\ pc = "moveout"
    BY <1>t, <1>13, EntriesAre DEF MoveOut, TypeOK
  <2>2. /\ disk'.manifest = IF k = 1 THEN Nothing ELSE disk.manifest
        /\ disk'.reviews = IF k = 3 THEN Nothing ELSE disk.reviews
    BY <1>t, <2>1, EntryAfter
  <2>3. disk'.manifest = Nothing /\ disk'.reviews \in {disk.reviews, Nothing}
    BY <1>t, <2>1, <2>2 DEF Replacing
  <2> QED
    BY <1>s, <2>3, NothingIsSound DEF FilesSound, Sound, Manifest
<1>14. CASE Install
  <2>1. /\ reviewed' = reviewed /\ disk' = [disk EXCEPT ![Entries[k]] = Staged[Entries[k]]]
        /\ mixed' = mixed /\ k \in 1..3 /\ pc = "install"
    BY <1>t, <1>14, EntriesAre DEF Install, TypeOK
  <2>2. Staged \in Directories /\ Sound(Staged, reviewed, mixed)
    BY <1>t, <2>1 DEF Replacing, Sources, BeforeImage, Staged, TypeOK
  <2>3. /\ disk'.manifest = IF k = 1 THEN Staged.manifest ELSE disk.manifest
        /\ disk'.reviews = IF k = 3 THEN Staged.reviews ELSE disk.reviews
    BY <1>t, <2>1, <2>2, EntryAfter
  <2>4. Sound(disk', reviewed', mixed')
    BY <1>s, <2>1, <2>2, <2>3 DEF Sound
  <2>5. CASE k < 3
    <3>1. disk'.reviews = Nothing
      BY <1>t, <2>1, <2>3, <2>5 DEF Replacing
    <3> QED
      BY <2>4, <3>1, NothingIsSound DEF FilesSound
  <2>6. CASE k = 3
    <3>1. disk'.manifest = Staged.manifest /\ disk'.reviews = Staged.reviews
      BY <1>t, <2>1, <2>3, <2>6 DEF Replacing
    <3>2. Agree(Staged.manifest, Staged.reviews, reviewed)
      BY <1>t, <2>1 DEF Replacing
    <3> QED
      BY <2>1, <2>4, <3>1, <3>2 DEF FilesSound, Manifest
  <2> QED
    BY <2>1, <2>5, <2>6
<1>15. CASE RenameFails
  <2>1. PICK m \in Outcomes("manifest"), c \in Outcomes("chapters"), r \in Outcomes("reviews") :
           disk' = [manifest |-> m, chapters |-> c, reviews |-> r]
    BY <1>15 DEF RenameFails
  <2>2. /\ disk'.manifest \in {aside.manifest, disk.manifest, Nothing}
        /\ disk'.reviews \in {aside.reviews, disk.reviews, Nothing}
        /\ reviewed' = reviewed /\ pc \in {"moveout", "install", "discard"}
    BY <1>t, <1>15, <2>1, OutcomesTyped DEF RenameFails
  <2>3. Sound(aside, reviewed', mixed')
    BY <1>t, <1>h, SoundLater DEF Replacing
  <2>4. Sound(disk', reviewed', mixed')
    BY <1>s, <2>2, <2>3, NothingIsSound DEF Sound
  <2>5. ASSUME ~mixed' PROVE Agree(Manifest', disk'.reviews, reviewed')
    <3>1. \A e \in DOMAIN disk : disk'[e] = PutBack(e)
      BY <1>15, <2>5, Zenon DEF RenameFails
    <3>2. disk'.manifest = PutBack("manifest") /\ disk'.reviews = PutBack("reviews")
      BY <1>t, <3>1 DEF Directories
    <3>3. ~mixed
      BY <1>h, <2>5
    <3>4. CASE pc \in {"install", "discard"}
      BY <1>t, <2>2, <3>2, <3>3, <3>4 DEF PutBack, Untouched, Replacing, Manifest
    <3>5. CASE pc = "moveout" /\ k > 1
      <4>1. disk'.reviews = disk.reviews
        BY <1>t, <3>2, <3>5 DEF PutBack, Untouched, Replacing
      <4>2. disk'.manifest = aside.manifest \/ disk'.manifest = Nothing
        BY <1>t, <3>2, <3>5 DEF PutBack, Untouched, Replacing
      <4>3. Agree(aside.manifest, disk.reviews, reviewed)
        BY <1>t, <3>3, <3>5 DEF Replacing
      <4> QED
        BY <2>2, <4>1, <4>2, <4>3, NothingIsSound DEF Manifest
    <3>6. CASE pc = "moveout" /\ k <= 1
      <4>1. disk'.reviews = disk.reviews /\ disk'.manifest = disk.manifest
        BY <1>t, <3>2, <3>6 DEF PutBack, Untouched, Replacing
      <4> QED
        BY <1>s, <2>5, <4>1 DEF Manifest
    <3>7. k \in 1..3
      BY <1>t, EntriesAre DEF TypeOK
    <3> QED
      BY <2>2, <3>4, <3>5, <3>6, <3>7
  <2> QED
    BY <2>4, <2>5 DEF FilesSound, Manifest
<1>16. CASE disk' = disk
  BY <1>u, <1>16
<1> QED
  BY <1>1, <1>2, <1>3, <1>4, <1>5, <1>6, <1>7, <1>8, <1>9, <1>10, <1>11, <1>12, <1>13, <1>14, <1>15,
     <1>16
  DEF Next, Approve, Step, vars,
     ApproveReplay, ApproveRecover, ApproveRollback, ApproveFresh, Clean, Copy, Cleanup,
     Checkpoint, Save, Discard, RemoveRoot, TakeSnapshot, RestoreSnapshot, Crash


\* The before images and the snapshot stay sound.
LEMMA SourcesStep == IInv /\ [Next]_vars => Sources'
<1> SUFFICES ASSUME IInv, [Next]_vars PROVE Sources'
  OBVIOUS
<1>t. /\ TypeOK /\ InTransaction /\ Sources
      /\ Sound(disk, reviewed, mixed) /\ disk \in Directories
      /\ backups \in [1..MaxTx -> Directories \union {Nothing}]
      /\ snapshot \in Directories \union {Nothing}
  BY DEF IInv, TypeOK, FilesSound
<1>h. Longer(reviewed, reviewed') /\ (mixed => mixed')
  BY HistoryGrows
<1>d. Sound(disk, reviewed', mixed')
  BY <1>t, <1>h, SoundLater
<1>b. ASSUME NEW t \in 1..MaxTx PROVE BeforeImage(backups[t], reviewed', mixed')
  <2>1. BeforeImage(backups[t], reviewed, mixed) /\ backups[t] \in Directories \union {Nothing}
    BY <1>t DEF Sources
  <2> QED
    BY <1>h, <2>1, SoundLater DEF BeforeImage
<1>s. snapshot # Nothing => Sound(snapshot, reviewed', mixed')
  BY <1>t, <1>h, SoundLater DEF Sources
<1>e. BeforeImage(Empty, reviewed', mixed') /\ BeforeImage(Nothing, reviewed', mixed')
  BY NothingIsSound DEF BeforeImage, Empty
\* One before image is replaced.
<1>o. ASSUME NEW d, tx \in 1..MaxTx, backups' = [backups EXCEPT ![tx] = d],
             snapshot' = snapshot, BeforeImage(d, reviewed', mixed')
      PROVE  Sources'
  <2>1. ASSUME NEW t \in 1..MaxTx PROVE BeforeImage(backups'[t], reviewed', mixed')
    <3>1. backups'[t] = d \/ backups'[t] = backups[t]
      BY <1>t, <1>o
    <3> QED
      BY <1>b, <1>o, <3>1
  <2> QED
    BY <1>s, <1>o, <2>1 DEF Sources
<1>p. ASSUME backups' = backups, snapshot' # Nothing => Sound(snapshot', reviewed', mixed')
      PROVE  Sources'
  BY <1>b, <1>p DEF Sources
<1>1. CASE Clean
  BY <1>t, <1>e, <1>o, <1>1 DEF Clean, InTransaction
<1>2. CASE Copy
  <2>1. /\ tx \in 1..MaxTx /\ k \in 1..3 /\ backups[tx] \in Directories /\ backups[tx] # Nothing
        /\ ~Approved /\ snapshot' = snapshot
    BY <1>t, <1>2, EntriesAre DEF Copy, TypeOK, InTransaction
  <2> DEFINE d == [backups[tx] EXCEPT ![Entries[k]] = disk[Entries[k]]]
  <2>2. /\ d.manifest = IF k = 1 THEN disk.manifest ELSE backups[tx].manifest
        /\ d.reviews = IF k = 3 THEN disk.reviews ELSE backups[tx].reviews
    <3>1. k = 1 \/ k = 2 \/ k = 3
      BY <2>1
    <3> QED
      BY <1>t, <2>1, <3>1, EntriesAre DEF Directories
  <2>3. backups' = [backups EXCEPT ![tx] = d]
    BY <1>2 DEF Copy
  <2> HIDE DEF d
  <2>4. BeforeImage(backups[tx], reviewed', mixed')
    BY <1>b, <2>1
  <2>5. BeforeImage(d, reviewed', mixed')
    BY <1>d, <2>1, <2>2, <2>4 DEF BeforeImage, Sound, Approved, Manifest
  <2> QED
    BY <1>o, <2>1, <2>3, <2>5
<1>3. CASE Cleanup \/ RemoveRoot
  BY <1>t, <1>e, <1>o, <1>3 DEF Cleanup, RemoveRoot, InTransaction
<1>4. CASE Checkpoint
  BY <1>p, <1>4, NothingIsSound DEF Checkpoint
<1>5. CASE TakeSnapshot
  BY <1>s, <1>p, <1>5, NothingIsSound DEF TakeSnapshot
<1>6. CASE Save
  <2>1. k \in 1..3 /\ snapshot \in Directories /\ snapshot # Nothing /\ backups' = backups
    BY <1>t, <1>6, EntriesAre DEF Save, TypeOK, InTransaction
  <2>2. /\ snapshot'.manifest \in {snapshot.manifest, disk.manifest}
        /\ \/ snapshot'.reviews = snapshot.reviews
           \/ snapshot'.reviews = Over("reviews", snapshot.reviews, disk.reviews)
    BY <1>t, <1>6, <2>1, SaveTyped DEF Save
  <2>3. Sound(snapshot, reviewed', mixed')
    BY <1>s, <2>1
  <2>4. ReceiptSound(snapshot'.reviews, reviewed')
    <3>1. snapshot.reviews \in Reviews \union {Nothing} /\ disk.reviews \in Reviews \union {Nothing}
      BY <1>t, <2>1 DEF Directories
    <3>2. ReceiptSound(snapshot.reviews, reviewed') /\ ReceiptSound(disk.reviews, reviewed')
      BY <1>d, <2>3 DEF Sound
    <3>3. ReceiptSound(Over("reviews", snapshot.reviews, disk.reviews), reviewed')
      BY <3>1, <3>2, OverTyped DEF ReceiptSound
    <3> QED
      BY <2>2, <3>2, <3>3
  <2>5. ManifestSound(snapshot'.manifest, reviewed', mixed')
    BY <1>d, <2>2, <2>3 DEF Sound
  <2> QED
    BY <1>p, <2>1, <2>4, <2>5 DEF Sound
<1>7. CASE Crash
  <2>1. CASE UNCHANGED <<backups, snapshot>>
    BY <1>s, <1>p, <2>1
  <2>2. CASE /\ pc \in {"clean", "cleanup", "root"} /\ backups[tx] # Nothing
             /\ \E d \in Remains(backups[tx]) : backups' = [backups EXCEPT ![tx] = d]
             /\ UNCHANGED snapshot
    <3>1. tx \in 1..MaxTx /\ backups[tx] \in Directories
      BY <1>t, <2>2 DEF InTransaction
    <3>2. PICK d \in Remains(backups[tx]) : backups' = [backups EXCEPT ![tx] = d]
      BY <2>2
    <3>3. /\ d.manifest \in {backups[tx].manifest, Nothing}
          /\ d.reviews \in {backups[tx].reviews, Nothing}
      BY <3>1, <3>2, RemainsTyped
    <3>4. BeforeImage(backups[tx], reviewed', mixed') /\ backups[tx] # Nothing
      BY <1>b, <2>2, <3>1
    <3>5. BeforeImage(d, reviewed', mixed')
      BY <3>3, <3>4, NothingIsSound DEF BeforeImage, Sound
    <3> QED
      BY <1>o, <2>2, <3>1, <3>2, <3>5
  <2>3. CASE snapshot # Nothing /\ snapshot' \in Remains(snapshot) /\ UNCHANGED backups
    <3>1. /\ snapshot'.manifest \in {snapshot.manifest, Nothing}
          /\ snapshot'.reviews \in {snapshot.reviews, Nothing}
      BY <1>t, <2>3, RemainsTyped
    <3>2. Sound(snapshot', reviewed', mixed')
      BY <1>s, <2>3, <3>1, NothingIsSound DEF Sound
    <3> QED
      BY <1>p, <2>3, <3>2
  <2> QED
    BY <1>7, <2>1, <2>2, <2>3 DEF Crash
<1>8. CASE UNCHANGED <<backups, snapshot>>
  BY <1>s, <1>p, <1>8
<1> QED
  BY <1>1, <1>2, <1>3, <1>4, <1>5, <1>6, <1>7, <1>8
  DEF Next, Approve, Step, vars,
     ApproveReplay, ApproveRecover, ApproveRollback, ApproveFresh, Prepare,
     SettleApproved, Commit, WriteReceipt, CloseJournal, ListSnapshot, MoveOut, Install,
     Discard, RenameFails, RetirePending, Reopen, SettledStatus, WriteBody, Audit, SettleState,
     Reject, Repair, RestoreSnapshot

\* What the operations read after a write of the records or of the manifest.
LEMMA ReadsAfter ==
    ASSUME TypeOK
    PROVE  /\ \A r \in Reviews : SetRecords(r) =>
                 /\ Manifest' = Manifest /\ Body' = Body /\ Records' = r
                 /\ Journal' = r.journal /\ Receipt' = r.receipt
           /\ \A m \in Manifests : SetManifest(m) =>
                 /\ Manifest' = m /\ Body' = Body /\ Records' = Records
                 /\ Journal' = Journal /\ Receipt' = Receipt
           /\ disk' = disk =>
                 /\ Manifest' = Manifest /\ Body' = Body /\ Records' = Records
                 /\ Journal' = Journal /\ Receipt' = Receipt
<1>d. disk \in Directories
  BY DEF TypeOK
<1>1. ASSUME NEW r \in Reviews, SetRecords(r)
      PROVE  /\ Manifest' = Manifest /\ Body' = Body /\ Records' = r
             /\ Journal' = r.journal /\ Receipt' = r.receipt
  <2>1. disk'.manifest = disk.manifest /\ disk'.chapters = disk.chapters /\ disk'.reviews = r
    BY <1>d, <1>1, PartsAfter DEF SetRecords
  <2>2. Records' = r
    BY <2>1, NothingAssumption DEF Records, ReviewsOf
  <2> QED
    BY <2>1, <2>2 DEF Manifest, Body, Journal, Receipt
<1>2. ASSUME NEW m \in Manifests, SetManifest(m)
      PROVE  /\ Manifest' = m /\ Body' = Body /\ Records' = Records
             /\ Journal' = Journal /\ Receipt' = Receipt
  <2>1. disk'.manifest = m /\ disk'.chapters = disk.chapters /\ disk'.reviews = disk.reviews
    BY <1>d, <1>2, PartsAfter DEF SetManifest
  <2>2. Records' = Records
    BY <2>1 DEF Records, ReviewsOf
  <2> QED
    BY <2>1, <2>2 DEF Manifest, Body, Journal, Receipt
<1>3. ASSUME disk' = disk
      PROVE  /\ Manifest' = Manifest /\ Body' = Body /\ Records' = Records
             /\ Journal' = Journal /\ Receipt' = Receipt
  BY <1>3 DEF Manifest, Body, Journal, Receipt, Records, ReviewsOf
<1> QED
  BY <1>1, <1>2, <1>3

\* The transaction keeps working on the body and the review that it has checked.
LEMMA TransactionStep == IInv /\ [Next]_vars => InTransaction'
<1> SUFFICES ASSUME IInv, [Next]_vars PROVE InTransaction'
  OBVIOUS
<1>t. /\ TypeOK /\ InTransaction /\ Replacing
      /\ disk \in Directories /\ Len(Entries) = 3 /\ k \in 1..3
      /\ backups \in [1..MaxTx -> Directories \union {Nothing}] /\ txs \in 0..MaxTx
  BY EntriesAre DEF IInv, TypeOK
<1>r. /\ Records \in Reviews /\ Manifest \in Manifests \union {Nothing}
      /\ Body \in Bodies \union {Nothing}
      /\ Journal \in Journals \union {Nothing} /\ Receipt \in Receipts \union {Nothing}
  BY <1>t, RecordsTyped
<1>n. Nothing \notin Bodies /\ Nothing \notin Manifests /\ Nothing \notin Journals
      /\ Nothing \notin Directories /\ Empty # Nothing
  BY NothingAssumption, EmptyTyped
<1>j. Journal # Nothing => Journal \in Journals /\ Journal.tx \in 1..MaxTx
  BY <1>t, JournalTyped
<1>u. disk' = disk => /\ Manifest' = Manifest /\ Body' = Body /\ Records' = Records
                      /\ Journal' = Journal /\ Receipt' = Receipt
  BY <1>t, ReadsAfter
<1>w. ASSUME NEW r \in Reviews, SetRecords(r)
      PROVE  /\ Manifest' = Manifest /\ Body' = Body /\ Records' = r
             /\ Journal' = r.journal /\ Receipt' = r.receipt
  BY <1>t, <1>w, ReadsAfter
<1>m. ASSUME NEW m \in Manifests, SetManifest(m)
      PROVE  /\ Manifest' = m /\ Body' = Body /\ Records' = Records
             /\ Journal' = Journal /\ Receipt' = Receipt
  BY <1>t, <1>m, ReadsAfter
<1>i. ASSUME pc' = "idle", k' = 1 PROVE InTransaction'
  BY <1>i DEF InTransaction
<1>1. CASE ApproveReplay
  BY <1>t, <1>j, <1>u, <1>1 DEF ApproveReplay, Begin, Readable, InTransaction
<1>2. CASE ApproveRecover
  BY <1>t, <1>j, <1>u, <1>2
  DEF ApproveRecover, Begin, Readable, InTransaction, Prepared, ReviewPasses, Approved
<1>3. CASE ApproveRollback
  BY <1>t, <1>3 DEF ApproveRollback, Begin, InTransaction
<1>4. CASE ApproveFresh
  <2>1. tx' \in 1..MaxTx
    BY <1>t, <1>j, <1>4, BoundsAssumption DEF ApproveFresh, Begin, Prepared
  <2>2. pc' = "clean" /\ k' = k /\ disk' = disk /\ reviewed' = reviewed
    BY <1>4 DEF ApproveFresh, Begin
  <2>3. /\ Body # Nothing /\ Manifest # Nothing /\ Receipt = Nothing /\ k = 1
        /\ Manifest.review # 0 /\ reviewed[Manifest.review] = Body
        /\ Manifest.status # "approved" /\ Records.pending = Body
    BY <1>t, <1>4 DEF ApproveFresh, Readable, ReviewPasses, InTransaction
  <2> QED
    BY <1>u, <2>1, <2>2, <2>3 DEF InTransaction, Approved
<1>5. CASE Clean
  <2>1. backups'[tx] = Empty
    BY <1>t, <1>5 DEF Clean, InTransaction
  <2> QED
    BY <1>t, <1>n, <1>u, <1>5, <2>1 DEF Clean, InTransaction, GoTo, local, Approved
<1>6. CASE Copy
  <2>1. backups'[tx] # Nothing
    <3> DEFINE d == [backups[tx] EXCEPT ![Entries[k]] = disk[Entries[k]]]
    <3>1. tx \in 1..MaxTx /\ backups[tx] \in Directories
      BY <1>t, <1>6 DEF Copy, InTransaction
    <3>2. d \in Directories
      BY <1>t, <3>1, EntryAfter
    <3>3. backups'[tx] = d
      BY <1>t, <1>6, <3>1 DEF Copy
    <3> QED
      BY <1>n, <3>2, <3>3
  <2>2. pc' \in {"copy", "prepare"} /\ (pc' = "prepare" => k' = 1)
    BY <1>t, <1>6 DEF Copy
  <2> QED
    BY <1>t, <1>u, <1>6, <2>1, <2>2 DEF Copy, InTransaction, Approved
<1>7. CASE Prepare
  <2> DEFINE j == [tx |-> tx, body |-> Body, state |-> "Prepared"]
  <2>1. j \in Journals
    BY <1>t, <1>r, <1>7 DEF Prepare, InTransaction, Journals
  <2>2. SetRecords([Records EXCEPT !.journal = j])
    BY <1>7 DEF Prepare
  <2> HIDE DEF j
  <2>3. /\ Manifest' = Manifest /\ Body' = Body /\ Journal' = j
        /\ Receipt' = Receipt /\ Records'.pending = Records.pending
    <3> DEFINE r == [Records EXCEPT !.journal = j]
    <3>1. /\ r \in Reviews /\ r.journal = j /\ r.receipt = Records.receipt
          /\ r.pending = Records.pending
      BY <1>r, <2>1, JournalWritten
    <3> HIDE DEF r
    <3>2. SetRecords(r)
      BY <2>2 DEF r
    <3> QED
      BY <1>w, <3>1, <3>2 DEF Receipt
  <2> QED
    BY <1>t, <1>n, <1>7, <2>1, <2>3 DEF Prepare, InTransaction, GoTo, local
<1>8. CASE SettleApproved
  <2>1. Records.pending = Body /\ Body \in Bodies /\ Receipt = Nothing
    BY <1>t, <1>r, <1>8 DEF SettleApproved, InTransaction
  <2>2. /\ Manifest' = Manifest /\ Body' = Body /\ Journal' = Journal
        /\ Receipt' = Receipt /\ Records'.settlement = Body
    <3> DEFINE r == [Records EXCEPT !.settlement = Records.pending]
    <3>1. /\ r \in Reviews /\ r.journal = Records.journal /\ r.receipt = Records.receipt
          /\ r.settlement = Body
      BY <1>r, <2>1, SettlementWritten
    <3>2. SetRecords(r)
      BY <1>8 DEF SettleApproved
    <3> HIDE DEF r
    <3> QED
      BY <1>w, <3>1, <3>2 DEF Journal, Receipt
  <2> QED
    BY <1>t, <1>8, <2>1, <2>2 DEF SettleApproved, InTransaction, GoTo, local
<1>9. CASE Commit
  <2>1. Manifest \in Manifests /\ Body \in Bodies
    BY <1>t, <1>r, <1>9 DEF Commit, InTransaction
  <2> DEFINE m == Committed(Manifest, Body)
  <2>2. m \in Manifests /\ m # Nothing /\ m.review = Manifest.review /\ m.status = "approved"
    BY <2>1, CommitWritten
  <2>3. SetManifest(m)
    BY <1>9 DEF Commit, Committed
  <2> HIDE DEF m
  <2>4. /\ Manifest' = m /\ Body' = Body /\ Records' = Records
        /\ Journal' = Journal /\ Receipt' = Receipt
    BY <1>m, <2>2, <2>3
  <2> QED
    BY <1>t, <1>9, <2>2, <2>4 DEF Commit, InTransaction, GoTo, local, Approved
<1>10. CASE WriteReceipt
  <2>1. NewReceipt \in Receipts
    BY <1>t, <1>10, ReceiptsTyped DEF WriteReceipt, InTransaction
  <2> DEFINE r == [Records EXCEPT !.receipt = NewReceipt]
  <2>2. r \in Reviews /\ r.journal = Records.journal /\ SetRecords(r)
    BY <1>r, <1>10, <2>1, ReceiptWritten DEF WriteReceipt, NewReceipt
  <2> HIDE DEF r
  <2>3. Manifest' = Manifest /\ Body' = Body /\ Journal' = Journal
    BY <1>w, <2>2 DEF Journal
  <2> QED
    BY <1>t, <1>10, <2>3 DEF WriteReceipt, InTransaction, GoTo, local
<1>11. CASE CloseJournal
  <2>1. Records.journal \in Journals
    BY <1>t, <1>r, <1>11 DEF CloseJournal, InTransaction, Journal
  <2>2. Manifest' = Manifest
    BY <1>r, <1>w, <1>11, <2>1, JournalClosed DEF CloseJournal
  <2> QED
    BY <1>t, <1>11, <2>2 DEF CloseJournal, InTransaction, GoTo, local
<1>12. CASE Cleanup
  BY <1>t, <1>i, <1>u, <1>12 DEF Cleanup, InTransaction, GoTo, Done, local
<1>13. CASE Checkpoint \/ TakeSnapshot
  BY <1>t, <1>n, <1>u, <1>13 DEF Checkpoint, TakeSnapshot, InTransaction, GoTo, local
<1>14. CASE Save
  <2>1. snapshot' \in Directories
    BY <1>t, <1>14, SaveTyped DEF Save, InTransaction, TypeOK
  <2>2. pc' \in {"save", "list"} /\ (pc' = "list" => k' = 1)
    BY <1>t, <1>14 DEF Save
  <2> QED
    BY <1>t, <1>n, <1>u, <1>14, <2>1, <2>2 DEF Save, InTransaction
<1>15. CASE ListSnapshot \/ RemoveRoot \/ Reopen \/ SettledStatus \/ RenameFails \/ Crash
  BY <1>i, <1>15 DEF ListSnapshot, RemoveRoot, Reopen, SettledStatus, RenameFails, Crash, Done
<1>16. CASE RestoreSnapshot
  BY <1>t, <1>16 DEF RestoreSnapshot, Begin, InTransaction
<1>17. CASE MoveOut
  <2>1. pc' \in {"moveout", "install"}
    BY <1>17 DEF MoveOut
  <2> QED
    BY <2>1 DEF InTransaction
<1>18. CASE Install
  <2>1. pc' \in {"install", "discard"} /\ (pc' = "discard" => k' = 1)
    BY <1>t, <1>18 DEF Install
  <2> QED
    BY <2>1 DEF InTransaction
<1>19. CASE Discard
  <2>1. pc' \in {"list", "root"} /\ (pc' = "root" => tx' \in 1..MaxTx) /\ k' = 1
    BY <1>t, <1>19 DEF Discard, TypeOK, InTransaction
  <2>2. Manifest' # Nothing
    BY <1>t, <1>19 DEF Discard, Replacing, Manifest
  <2> QED
    BY <2>1, <2>2 DEF InTransaction
<1>20. ASSUME NEW b \in Bodies, WriteBody(b) PROVE InTransaction'
  <2>1. Manifest' = Manifest /\ Manifest # Nothing /\ pc' \in {"retire", "reopen"} /\ k' = 1
    BY <1>t, <1>20, PartsAfter DEF WriteBody, Manifest, GoTo, local, InTransaction
  <2> QED
    BY <2>1 DEF InTransaction
<1>21. CASE RetirePending
  <2>1. Manifest' = Manifest
    BY <1>r, <1>u, <1>w, <1>21, PendingWritten DEF RetirePending
  <2> QED
    BY <1>t, <1>21, <2>1 DEF RetirePending, InTransaction, GoTo, local
<1>22. CASE SettleState
  <2>1. PICK p \in {Body, Nothing} : SetRecords([Records EXCEPT !.pending = p])
    BY <1>22 DEF SettleState
  <2>2. Manifest' = Manifest /\ Manifest # Nothing
    BY <1>r, <1>w, <1>22, <2>1, PendingWritten DEF SettleState, Readable
  <2> QED
    BY <1>t, <1>22, <2>2 DEF SettleState, Readable, InTransaction, GoTo, local
<1>23. CASE Audit \/ Reject \/ Repair
  BY <1>t, <1>i, <1>23 DEF Audit, Readable, Reject, Repair, local, InTransaction
<1>24. CASE UNCHANGED vars
  BY <1>t, <1>u, <1>24 DEF vars, InTransaction, Approved
<1> QED
  BY <1>1, <1>2, <1>3, <1>4, <1>5, <1>6, <1>7, <1>8, <1>9, <1>10, <1>11, <1>12, <1>13, <1>14, <1>15,
     <1>16, <1>17, <1>18, <1>19, <1>20, <1>21, <1>22, <1>23, <1>24
  DEF Next, Approve, Step

\* A source that has been checked agrees with itself.
LEMMA RestorableAgrees ==
    ASSUME NEW d \in Directories, NEW latest \in BOOLEAN, Restorable(d, latest)
    PROVE  d.manifest # Nothing /\ Agree(d.manifest, d.reviews, reviewed)
<1>1. d.manifest # Nothing
  BY DEF Restorable
<1>2. ASSUME d.manifest.status = "approved", d.reviews # Nothing, d.reviews.receipt # Nothing,
             ~d.reviews.receipt.legacy
      PROVE  /\ d.reviews.settlement = d.reviews.receipt.body
             /\ reviewed[d.manifest.review] = d.reviews.receipt.body
  BY <1>2 DEF Restorable, ReviewsOf, ReviewPasses
<1> QED
  BY <1>1, <1>2 DEF Agree

\* The entries are moved out and installed in their order.
LEMMA ReplaceStep == IInv /\ [Next]_vars => Replacing'
<1> SUFFICES ASSUME IInv, [Next]_vars PROVE Replacing'
  OBVIOUS
<1>t. /\ TypeOK /\ InTransaction /\ Replacing /\ Sound(disk, reviewed, mixed)
      /\ ~mixed => Agree(disk.manifest, disk.reviews, reviewed)
      /\ disk \in Directories /\ aside \in Directories /\ Len(Entries) = 3 /\ k \in 1..3
      /\ backups \in [1..MaxTx -> Directories \union {Nothing}]
      /\ snapshot \in Directories \union {Nothing}
  BY EntriesAre DEF IInv, TypeOK, FilesSound
<1>e. Empty.manifest = Nothing /\ Empty.reviews = Nothing
  BY DEF Empty
<1>i. ASSUME pc' \notin {"moveout", "install", "discard"}, aside' = Empty PROVE Replacing'
  <2>1. Sound(aside', reviewed', mixed')
    BY <1>i, NothingIsSound
  <2> QED
    BY <1>i, <2>1 DEF Replacing
\* A restore that has been checked begins.
<1>b. ASSUME pc = "idle", pc' = "moveout", k' = k, Staged' \in Directories, Staged' # Nothing,
             \E latest \in BOOLEAN : Restorable(Staged', latest),
             UNCHANGED <<disk, aside, reviewed, mixed>>, tx' # 0 => Receipt = Nothing
      PROVE  Replacing'
  <2>1. Staged'.manifest # Nothing /\ Agree(Staged'.manifest, Staged'.reviews, reviewed)
    BY <1>b, RestorableAgrees
  <2>2. aside = Empty /\ k = 1
    BY <1>t, <1>b DEF Replacing, InTransaction
  <2>3. Receipt' = Receipt
    BY <1>b DEF Receipt, Records, ReviewsOf
  <2>4. Sound(aside', reviewed', mixed')
    BY <1>b, <2>2, NothingIsSound
  <2> QED
    BY <1>t, <1>e, <1>b, <2>1, <2>2, <2>3, <2>4 DEF Replacing
<1>1. CASE ApproveRollback
  <2>1. Journal # Nothing /\ backups[Journal.tx] # Nothing /\ tx' = Journal.tx
    BY <1>1 DEF ApproveRollback, RollbackDue, Prepared, Begin
  <2>2. Journal.tx \in 1..MaxTx
    BY <1>t, <2>1, JournalTyped
  <2>3. Staged' = backups[Journal.tx] /\ backups[Journal.tx] \in Directories
    BY <1>t, <1>1, <2>1, <2>2 DEF ApproveRollback, Staged
  <2> QED
    BY <1>b, <1>1, <2>1, <2>3 DEF ApproveRollback, Readable, Begin
<1>2. CASE RestoreSnapshot
  <2>1. Staged' = snapshot /\ snapshot \in Directories /\ snapshot # Nothing /\ tx' = 0
    BY <1>t, <1>2 DEF RestoreSnapshot, Begin, Staged
  <2> QED
    BY <1>b, <1>2, <2>1 DEF RestoreSnapshot, Begin
<1>3. CASE MoveOut
  <2>1. /\ pc = "moveout" /\ reviewed' = reviewed /\ mixed' = mixed /\ tx' = tx
        /\ aside' = [aside EXCEPT ![Entries[k]] = disk[Entries[k]]]
        /\ disk' = [disk EXCEPT ![Entries[k]] = Nothing]
        /\ IF k < 3 THEN k' = k + 1 /\ pc' = "moveout" ELSE k' = 1 /\ pc' = "install"
    BY <1>t, <1>3 DEF MoveOut
  <2>2. /\ aside'.manifest = IF k = 1 THEN disk.manifest ELSE aside.manifest
        /\ aside'.reviews = IF k = 3 THEN disk.reviews ELSE aside.reviews
        /\ disk'.manifest = IF k = 1 THEN Nothing ELSE disk.manifest
        /\ disk'.reviews = IF k = 3 THEN Nothing ELSE disk.reviews
    <3>1. k = 1 \/ k = 2 \/ k = 3
      BY <1>t
    <3> QED
      BY <1>t, <2>1, <3>1, EntriesAre DEF Directories
  <2>3. Staged' = Staged
    BY <1>3 DEF MoveOut, Staged
  <2>4. Sound(aside', reviewed', mixed')
    <3>1. Sound(aside, reviewed, mixed)
      BY <1>t DEF Replacing
    <3> QED
      BY <1>t, <2>1, <2>2, <3>1 DEF Sound
  <2>5. /\ Staged # Nothing /\ Staged.manifest # Nothing
        /\ Agree(Staged.manifest, Staged.reviews, reviewed)
        /\ aside.reviews = Nothing
        /\ k > 1 => disk.manifest = Nothing
        /\ ~mixed => Agree(IF k > 1 THEN aside.manifest ELSE disk.manifest,
                           disk.reviews, reviewed)
    BY <1>t, <2>1 DEF Replacing
  <2>6. CASE k < 3
    <3>1. k' = k + 1 /\ pc' = "moveout" /\ k' > 1 /\ k' # 1
      BY <1>t, <2>1, <2>6
    <3>2. disk'.manifest = Nothing /\ aside'.reviews = Nothing
      BY <1>t, <2>2, <2>5, <2>6
    <3>3. ~mixed => Agree(aside'.manifest, disk'.reviews, reviewed)
      BY <1>t, <2>2, <2>5, <2>6
    <3> QED
      BY <2>1, <2>3, <2>4, <2>5, <3>1, <3>2, <3>3 DEF Replacing
  <2>7. CASE k = 3
    <3>1. k' = 1 /\ pc' = "install"
      BY <2>1, <2>7
    <3>2. disk'.manifest = Nothing /\ disk'.reviews = Nothing
      BY <2>2, <2>5, <2>7
    <3>3. ~mixed => Agree(aside'.manifest, aside'.reviews, reviewed)
      BY <2>2, <2>5, <2>7
    <3> QED
      BY <2>1, <2>3, <2>4, <2>5, <3>1, <3>2, <3>3 DEF Replacing
  <2> QED
    BY <1>t, <2>6, <2>7
<1>4. CASE Install
  <2>1. /\ pc = "install" /\ reviewed' = reviewed /\ mixed' = mixed /\ tx' = tx /\ aside' = aside
        /\ disk' = [disk EXCEPT ![Entries[k]] = Staged[Entries[k]]]
        /\ IF k < 3 THEN k' = k + 1 /\ pc' = "install" ELSE k' = 1 /\ pc' = "discard"
    BY <1>t, <1>4 DEF Install
  <2>2. Staged \in Directories /\ Staged' = Staged
    BY <1>t, <1>4 DEF Install, Replacing, Staged, TypeOK
  <2>3. /\ disk'.manifest = IF k = 1 THEN Staged.manifest ELSE disk.manifest
        /\ disk'.reviews = IF k = 3 THEN Staged.reviews ELSE disk.reviews
    <3>1. k = 1 \/ k = 2 \/ k = 3
      BY <1>t
    <3> QED
      BY <1>t, <2>1, <2>2, <3>1, EntriesAre DEF Directories
  <2>4. Sound(aside', reviewed', mixed')
    BY <1>t, <2>1 DEF Replacing
  <2>5. /\ Staged # Nothing /\ Staged.manifest # Nothing
        /\ Agree(Staged.manifest, Staged.reviews, reviewed)
        /\ ~mixed => Agree(aside.manifest, aside.reviews, reviewed)
        /\ k > 1 => disk.manifest = Staged.manifest
        /\ disk.reviews = Nothing
    BY <1>t, <2>1 DEF Replacing
  <2>6. CASE k < 3
    <3>1. k' = k + 1 /\ pc' = "install" /\ ~(k' <= 1)
      BY <1>t, <2>1, <2>6
    <3>2. disk'.manifest = Staged.manifest /\ disk'.reviews = Nothing
      BY <1>t, <2>3, <2>5, <2>6
    <3> QED
      BY <2>1, <2>2, <2>4, <2>5, <3>1, <3>2 DEF Replacing
  <2>7. CASE k = 3
    <3>1. k' = 1 /\ pc' = "discard"
      BY <2>1, <2>7
    <3>2. disk'.manifest = Staged.manifest /\ disk'.reviews = Staged.reviews
      BY <2>3, <2>5, <2>7
    <3> QED
      BY <2>1, <2>2, <2>4, <2>5, <3>1, <3>2 DEF Replacing
  <2> QED
    BY <1>t, <2>6, <2>7
<1>5. CASE RenameFails \/ Crash \/ RemoveRoot \/ ListSnapshot \/ Reopen \/ SettledStatus
  BY <1>i, <1>5 DEF RenameFails, Crash, RemoveRoot, ListSnapshot, Reopen, SettledStatus, Done
<1>6. CASE Discard
  BY <1>i, <1>6 DEF Discard
<1>7. CASE UNCHANGED vars
  <2>1. Staged' = Staged /\ Receipt' = Receipt
    BY <1>7 DEF vars, Staged, Receipt, Records, ReviewsOf
  <2> QED
    BY <1>t, <1>7, <2>1 DEF vars, Replacing
<1>o. ASSUME pc \notin {"moveout", "install", "discard"},
             pc' \notin {"moveout", "install", "discard"}, aside' = aside
      PROVE  Replacing'
  BY <1>t, <1>i, <1>o DEF Replacing
<1>8. CASE ApproveReplay \/ ApproveRecover \/ ApproveFresh
  BY <1>o, <1>8 DEF ApproveReplay, ApproveRecover, ApproveFresh, Readable, Begin
<1>9. CASE Clean \/ Copy \/ Prepare \/ SettleApproved \/ Commit \/ WriteReceipt \/ CloseJournal
  BY <1>o, <1>9 DEF Clean, Copy, Prepare, SettleApproved, Commit, WriteReceipt, CloseJournal,
     GoTo, local
<1>10. CASE Cleanup
  BY <1>o, <1>i, <1>10 DEF Cleanup, GoTo, Done, local
<1>11. CASE Checkpoint \/ TakeSnapshot \/ Save \/ RetirePending \/ SettleState
  BY <1>o, <1>11 DEF Checkpoint, TakeSnapshot, Save, RetirePending, SettleState, Readable,
     GoTo, local
<1>12. ASSUME NEW b \in Bodies, WriteBody(b) PROVE Replacing'
  BY <1>o, <1>12 DEF WriteBody, GoTo, local
<1>13. CASE Audit \/ Reject \/ Repair
  BY <1>o, <1>13 DEF Audit, Readable, Reject, Repair, local
<1> QED
  BY <1>1, <1>2, <1>3, <1>4, <1>5, <1>6, <1>7, <1>8, <1>9, <1>10, <1>11, <1>12, <1>13
  DEF Next, Approve, Step

-----------------------------------------------------------------------------
(* The theorems *)

LEMMA InitHolds == Init => IInv
<1> SUFFICES ASSUME Init PROVE IInv
  OBVIOUS
<1> DEFINE m == [status |-> "open", review |-> 0, truth |-> {}, cut |-> FALSE, listed |-> FALSE]
<1>1. PICK b \in Bodies : disk = [manifest |-> m, chapters |-> b, reviews |-> NoReviews]
  BY DEF Init
<1>2. m \in Manifests /\ m.status = "open" /\ m.review = 0
  BY BoundsAssumption DEF Manifests
<1> HIDE DEF m
<1>3. disk \in Directories /\ disk.manifest = m /\ disk.reviews = NoReviews
  BY <1>1, <1>2, EmptyTyped DEF Directories
<1>4. reviewed = <<>> /\ Len(reviewed) = 0 /\ reviewed \in Seq(Bodies \union {Nothing})
  BY DEF Init
<1>5. TypeOK
  <2>1. disk \in Directories /\ aside \in Directories /\ snapshot \in Directories \union {Nothing}
    BY <1>3, EmptyTyped DEF Init
  <2>2. backups \in [1..MaxTx -> Directories \union {Nothing}]
    BY DEF Init
  <2>3. reviewed \in Seq(Bodies \union {Nothing}) /\ Len(reviewed) <= MaxAudits
    BY <1>4, BoundsAssumption
  <2>4. /\ tx \in 0..MaxTx /\ k \in 1..Len(Entries) /\ txs \in 0..MaxTx
        /\ snaps \in 0..MaxSnapshots /\ crashes \in 0..MaxCrashes
    BY EntriesAre, BoundsAssumption DEF Init
  <2>5. pc \in PCs /\ mixed \in BOOLEAN
    BY DEF Init, PCs
  <2> QED
    BY <2>1, <2>2, <2>3, <2>4, <2>5 DEF TypeOK
<1>6. FilesSound(disk, reviewed, mixed)
  BY <1>2, <1>3, <1>4, NothingIsSound DEF FilesSound, Sound, ManifestSound, Agree
<1>7. Sources
  BY NothingIsSound DEF Init, Sources, BeforeImage
<1>8. InTransaction
  BY DEF Init, InTransaction
<1>9. Sound(aside, reviewed, mixed) /\ aside = Empty
  BY NothingIsSound DEF Init
<1>10. Replacing
  BY <1>9 DEF Init, Replacing
<1> QED
  BY <1>5, <1>6, <1>7, <1>8, <1>10 DEF IInv

\* The inductive invariant holds in every reachable state.
LEMMA Invariance == Spec => []IInv
<1>1. IInv /\ [Next]_vars => IInv'
  <2> SUFFICES ASSUME IInv, [Next]_vars PROVE IInv'
    OBVIOUS
  <2>1. TypeOK' /\ FilesSound(disk', reviewed', mixed') /\ Sources' /\ InTransaction' /\ Replacing'
    BY TypeStep, DiskStep, SourcesStep, TransactionStep, ReplaceStep
  <2> QED
    BY <2>1 DEF IInv
<1> QED
  BY <1>1, InitHolds, PTL DEF Spec

\* The files, the before images and the snapshot have their types, for every set
\* of bodies and every number of transactions, reviews and interruptions.
THEOREM TypeCorrect == Spec => []TypeOK
<1>1. IInv => TypeOK
  BY DEF IInv
<1> QED
  BY <1>1, Invariance, PTL

\* A chapter that counts as approved has the evidence of its approval, whatever
\* approvals, rollbacks, repairs, restored snapshots and interruptions came
\* before.
THEOREM EvidenceOfApproval == Spec => []TrustedHasEvidence
<1>1. IInv => TrustedHasEvidence
  <2> SUFFICES ASSUME IInv, Trusted
               PROVE  /\ Receipt.review # 0 /\ reviewed[Receipt.review] = Body
                      /\ ~mixed => Records.settlement = Body
                      /\ ~mixed /\ ~Manifest.cut => Body \in Manifest.truth
    BY DEF TrustedHasEvidence
  <2>1. /\ disk.reviews # Nothing /\ Records = disk.reviews
        /\ Receipt # Nothing /\ ~Receipt.legacy /\ Receipt.body = Body
        /\ Manifest # Nothing /\ Manifest.status = "approved"
    BY DEF Trusted, Receipt, Records, ReviewsOf, NoReviews, Approved
  <2>2. /\ ReceiptSound(disk.reviews, reviewed)
        /\ ManifestSound(Manifest, reviewed, mixed)
        /\ ~mixed => Agree(Manifest, disk.reviews, reviewed)
    BY DEF IInv, FilesSound, Sound, Manifest
  <2>3. Receipt.review # 0 /\ reviewed[Receipt.review] = Body
    BY <2>1, <2>2 DEF ReceiptSound, Receipt
  <2>4. ASSUME ~mixed
        PROVE  Records.settlement = Body /\ reviewed[Manifest.review] = Body
    BY <2>1, <2>2, <2>4 DEF Agree, Receipt
  <2>5. ASSUME ~mixed, ~Manifest.cut PROVE Body \in Manifest.truth
    BY <2>1, <2>2, <2>4, <2>5 DEF ManifestSound
  <2> QED
    BY <2>3, <2>4, <2>5
<1> QED
  BY <1>1, Invariance, PTL

LEMMA TrustStep ==
    ASSUME IInv, [Next]_vars, Trusted, ~Trusted'
    PROVE  Edit \/ (tx = 0 /\ (MoveOut \/ RenameFails))
<1> SUFFICES ASSUME ~Edit, ~(tx = 0 /\ (MoveOut \/ RenameFails)) PROVE FALSE
  OBVIOUS
<1>t. /\ TypeOK /\ InTransaction /\ Replacing /\ Sources
      /\ disk \in Directories /\ k \in 1..3 /\ tx \in 0..MaxTx
  BY EntriesAre DEF IInv, TypeOK
<1>r. /\ Records \in Reviews /\ Manifest \in Manifests \union {Nothing}
      /\ Body \in Bodies \union {Nothing} /\ Journal \in Journals \union {Nothing}
  BY <1>t, RecordsTyped
<1>x. /\ Manifest # Nothing /\ Body # Nothing /\ Receipt # Nothing /\ Manifest.status = "approved"
      /\ disk.manifest # Nothing /\ disk.reviews # Nothing /\ Manifest \in Manifests
  BY <1>r DEF Trusted, Approved, Manifest, Body, Receipt, Records, ReviewsOf, NoReviews
\* A write that keeps the receipt and the status keeps the chapter approved.
<1>w. ASSUME NEW r \in Reviews, SetRecords(r), r.receipt = Receipt PROVE FALSE
  BY <1>t, <1>w, ReadsAfter DEF Trusted, Approved
<1>m. ASSUME NEW m \in Manifests, SetManifest(m), m.status = Manifest.status PROVE FALSE
  BY <1>t, <1>m, ReadsAfter, NothingAssumption DEF Trusted, Approved
<1>1. CASE disk' = disk
  BY <1>t, <1>1, ReadsAfter DEF Trusted, Approved
<1>2. CASE Prepare \/ SettleApproved \/ Commit \/ WriteReceipt
  BY <1>t, <1>x, <1>2 DEF Prepare, SettleApproved, Commit, WriteReceipt, InTransaction
<1>3. CASE CloseJournal
  <2>1. Records.journal \in Journals
    BY <1>t, <1>r, <1>3 DEF CloseJournal, InTransaction, Journal
  <2>2. SetRecords([Records EXCEPT !.journal.state = "Committed"])
    BY <1>3 DEF CloseJournal
  <2> QED
    BY <1>r, <1>w, <2>1, <2>2, JournalClosed DEF Receipt
\* A rollback begins without a receipt and installs a chapter that is not approved.
<1>4. CASE (MoveOut \/ RenameFails) /\ pc = "moveout"
  BY <1>t, <1>x, <1>4 DEF Replacing
<1>5. CASE (Install \/ RenameFails) /\ pc = "install"
  BY <1>t, <1>x, <1>5 DEF Replacing, Receipt, Records, ReviewsOf
<1>6. CASE RenameFails /\ pc = "discard"
  <2>1. tx \in 1..MaxTx
    BY <1>t, <1>6
  <2>2. Staged = backups[tx] /\ Staged # Nothing /\ disk.manifest = Staged.manifest
    BY <1>t, <1>6, <2>1 DEF Staged, Replacing
  <2>3. BeforeImage(backups[tx], reviewed, mixed)
    BY <1>t, <2>1 DEF Sources
  <2> QED
    BY <1>x, <2>2, <2>3 DEF BeforeImage, Manifest
<1>7. CASE Reject
  BY <1>x, <1>7 DEF Reject
<1>8. CASE Repair
  <2>1. ASSUME NEW t \in SUBSET Bodies, NEW c \in BOOLEAN,
               SetManifest([Manifest EXCEPT !.truth = t, !.cut = c])
        PROVE  FALSE
    <3> DEFINE m == [Manifest EXCEPT !.truth = t, !.cut = c]
    <3>1. t \in SUBSET Bodies /\ c \in BOOLEAN
      BY <2>1
    <3>2. m \in Manifests /\ m.status = Manifest.status
      BY <1>x, <3>1 DEF Manifests
    <3>3. SetManifest(m)
      BY <2>1
    <3> HIDE DEF m
    <3> QED
      BY <1>m, <3>2, <3>3
  <2>2. {Body} \in SUBSET Bodies /\ {} \in SUBSET Bodies /\ Approved \in BOOLEAN
    BY <1>r, <1>x DEF Approved
  <2> QED
    BY <1>x, <1>8, <2>1, <2>2 DEF Repair
<1>9. CASE ListSnapshot
  <2> DEFINE m == [Manifest EXCEPT !.listed = TRUE]
  <2>1. m \in Manifests /\ m.status = Manifest.status
    BY <1>x DEF Manifests
  <2>2. SetManifest(m)
    BY <1>9 DEF ListSnapshot
  <2> HIDE DEF m
  <2> QED
    BY <1>m, <2>1, <2>2
<1>10. /\ MoveOut => pc = "moveout"
       /\ Install => pc = "install"
       /\ RenameFails => pc \in {"moveout", "install", "discard"}
  BY DEF MoveOut, Install, RenameFails
<1> QED
  BY <1>1, <1>2, <1>3, <1>4, <1>5, <1>6, <1>7, <1>8, <1>9, <1>10
  DEF Next, Approve, Step, vars, Edit,
     ApproveReplay, ApproveRecover, ApproveRollback, ApproveFresh, Clean, Copy, Cleanup,
     Checkpoint, Save, Discard, RemoveRoot, TakeSnapshot, RestoreSnapshot, Crash

\* For every set of bodies and all bounds, no approval, recovery, rejection,
\* repair, rollback or crash takes a chapter out of the approved ones.
THEOREM ApprovalsLast == Spec => TrustedUntilEdited
<1>1. IInv /\ [Next]_vars =>
        [Trusted /\ ~Trusted' => Edit \/ (tx = 0 /\ (MoveOut \/ RenameFails))]_vars
  BY TrustStep
<1> QED
  BY <1>1, Invariance, PTL DEF Spec, TrustedUntilEdited
=============================================================================
