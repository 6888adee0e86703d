------------------------ MODULE ApprovalTransaction ------------------------
(***************************************************************************)
(* The approval of a chapter of a novel project                            *)
(* (crates/builtin-tools/src/tool/writing/novel_studio), a transaction     *)
(* over the files of the project directory with a journal, a before image  *)
(* and a receipt.  The operations on a project exclude each other          *)
(* (ProjectLock); what they meet is the disk that an interrupted one has   *)
(* left: a crash of the process, or a tool call that fails or is given up, *)
(* between two writes of a file or two entries of a directory.             *)
(*                                                                         *)
(* One chapter, among others that are not followed: whether it is the      *)
(* latest approved one, and whether a repair ends before it, is open.  One *)
(* snapshot, taken on demand or by an approval, over and over in the same  *)
(* directory.                                                              *)
(*                                                                         *)
(* A body stands for its fingerprint and a settlement for                  *)
(* the body that it settles.  The sealed authority of the chapter, its     *)
(* metadata, the verdicts of the quality gates, the truth validation and   *)
(* the accepted best candidate are not told apart: a passing review of a   *)
(* body stands for all of them.  Status "open" is Draft, NeedsRevision,    *)
(* Rejected or StateRepairRequired, "ready" ReviewPassed or StateReady.    *)
(***************************************************************************)
EXTENDS Naturals, Sequences, FiniteSets

CONSTANTS Bodies,     \* the texts that the chapter can have
          Nothing,    \* a file or directory that does not exist
          MaxTx,      \* bounds the approval transactions
          MaxAudits,  \* bounds the reviews that are recorded
          MaxSnapshots, \* bounds the snapshots taken
          MaxCrashes  \* bounds the interruptions

\* The managed entries in the order in which they are copied and renamed:
\* project.json, chapters/ and reviews/.
Entries == <<"manifest", "chapters", "reviews">>

Empty == [manifest |-> Nothing, chapters |-> Nothing, reviews |-> Nothing]

NoReviews == [pending |-> Nothing, settlement |-> Nothing, journal |-> Nothing,
              receipt |-> Nothing]

Manifests == [status : {"open", "ready", "approved"},
              review : 0..MaxAudits,       \* the latest review if it has passed, or 0
              truth : SUBSET Bodies,       \* the settlements applied to the story bible
              cut : BOOLEAN,   \* history: the last repair has left the chapter out of it
              listed : BOOLEAN]            \* the snapshot is among the project's

Journals == [tx : 1..MaxTx, body : Bodies, state : {"Prepared", "Committed"}]

Receipts == [tx : 0..MaxTx, body : Bodies, review : 0..MaxAudits,
             truth : SUBSET Bodies, legacy : BOOLEAN]

Reviews == [pending : Bodies \union {Nothing},     \* pending settlement
            settlement : Bodies \union {Nothing},  \* approved settlement
            journal : Journals \union {Nothing},
            receipt : Receipts \union {Nothing}]

Directories == [manifest : Manifests \union {Nothing},
                chapters : Bodies \union {Nothing},
                reviews : Reviews \union {Nothing}]

ASSUME BoundsAssumption ==
    /\ MaxTx \in Nat /\ MaxAudits \in Nat
    /\ MaxSnapshots \in Nat /\ MaxCrashes \in Nat

ASSUME NothingAssumption ==
    Nothing \notin Bodies \union Manifests \union Journals \union Receipts
                     \union Reviews \union Directories

VARIABLES
    disk,      \* the managed entries of the project directory
    backups,   \* .approval-transactions/<tx>/before, by transaction
    snapshot,  \* the snapshot's directory, or Nothing
    reviewed,  \* the body that each recorded review has passed
    pc,        \* where the operation under way stands, or "idle"
    tx,        \* its transaction
    k,         \* the entry that it copies or renames next
    aside,     \* .restore-backup: the entries moved out of the way
    txs,       \* transactions so far
    snaps,     \* snapshots taken on demand so far
    crashes,   \* interruptions so far
    mixed      \* history: a failed restore has not put everything back

vars == <<disk, backups, snapshot, reviewed, pc, tx, k, aside, txs, snaps,
          crashes, mixed>>

local == <<tx, k, aside>>

PCs == {"idle", "clean", "copy", "prepare", "settle", "commit", "receipt", "close",
        "cleanup", "checkpoint", "save", "list", "moveout", "install", "discard",
        "root", "retire", "reopen", "status"}

TypeOK ==
    /\ disk \in Directories /\ aside \in Directories
    /\ backups \in [1..MaxTx -> Directories \union {Nothing}]
    /\ snapshot \in Directories \union {Nothing}
    /\ reviewed \in Seq(Bodies \union {Nothing}) /\ Len(reviewed) <= MaxAudits
    /\ pc \in PCs
    /\ tx \in 0..MaxTx /\ k \in 1..Len(Entries)
    /\ txs \in 0..MaxTx /\ snaps \in 0..MaxSnapshots /\ crashes \in 0..MaxCrashes
    /\ mixed \in BOOLEAN

Init ==
    /\ \E b \in Bodies :
          disk = [manifest |-> [status |-> "open", review |-> 0, truth |-> {},
                                cut |-> FALSE, listed |-> FALSE],
                  chapters |-> b, reviews |-> NoReviews]
    /\ backups = [t \in 1..MaxTx |-> Nothing]
    /\ snapshot = Nothing
    /\ reviewed = <<>>
    /\ pc = "idle" /\ tx = 0 /\ k = 1 /\ aside = Empty
    /\ txs = 0 /\ snaps = 0 /\ crashes = 0 /\ mixed = FALSE

-----------------------------------------------------------------------------
(* What the operations read *)

Manifest == disk.manifest
Body == disk.chapters

\* A directory that is missing has no files.
ReviewsOf(d) == IF d.reviews = Nothing THEN NoReviews ELSE d.reviews
Records == ReviewsOf(disk)
Journal == Records.journal
Receipt == Records.receipt

\* require_project_path, read_manifest and the read of the chapter succeed.
Readable == pc = "idle" /\ Manifest # Nothing /\ Body # Nothing

Approved == Manifest.status = "approved"

\* latest_passing_review finds a review of the current body.
ReviewPasses(m, body) == m.review # 0 /\ reviewed[m.review] = body

Prepared == Journal # Nothing /\ Journal.state = "Prepared"

\* The truth of a receipt is compared with the story bible for the latest
\* approved chapter only.
TruthMatches(receipt, m, latest) == latest => receipt.truth = m.truth

\* The dependencies of a receipt are those of the chapter as it stands.
ReceiptMatches(latest) ==
    /\ ~Receipt.legacy
    /\ Receipt.body = Body
    /\ Records.settlement = Receipt.body
    /\ ReviewPasses(Manifest, Body) /\ Manifest.review = Receipt.review
    /\ Approved => TruthMatches(Receipt, Manifest, latest)

\* validate_staged_approval_dependencies
Restorable(d, latest) ==
    /\ d.manifest # Nothing
    /\ d.manifest.status = "approved" =>
          LET r == ReviewsOf(d) IN
          /\ d.chapters # Nothing /\ r.receipt # Nothing
          /\ r.receipt.body = d.chapters
          /\ \/ r.receipt.legacy
             \/ /\ r.settlement = r.receipt.body
                /\ ReviewPasses(d.manifest, r.receipt.body)
                /\ d.manifest.review = r.receipt.review
                /\ TruthMatches(r.receipt, d.manifest, latest)

-----------------------------------------------------------------------------
(* Writes.  A write into a directory creates it if it is missing. *)

SetManifest(m) == disk' = [disk EXCEPT !.manifest = m]
SetRecords(r) == disk' = [disk EXCEPT !.reviews = r]

\* The operation goes on at p, or ends.
GoTo(p) == pc' = p /\ UNCHANGED local
Done == pc' = "idle" /\ tx' = 0 /\ k' = 1 /\ aside' = Empty

\* The operation starts at p with the transaction t.
Begin(p, t) == pc' = p /\ tx' = t /\ UNCHANGED <<k, aside>>

-----------------------------------------------------------------------------
(* approve_chapter_transaction, up to its first write *)

\* The receipt stands: an open journal is closed, and the before image of a
\* closed one removed.
ApproveReplay ==
    /\ Readable
    /\ Receipt # Nothing /\ \E latest \in BOOLEAN : ReceiptMatches(latest)
    /\ Journal # Nothing
    /\ Journal.tx = Receipt.tx /\ Journal.body = Receipt.body
    /\ Begin(IF Prepared THEN "close" ELSE "cleanup", Journal.tx)
    /\ UNCHANGED <<disk, backups, snapshot, reviewed, txs, snaps, crashes, mixed>>

\* The manifest has been committed and the receipt not been written.
ApproveRecover ==
    /\ Readable
    /\ Receipt = Nothing
    /\ Prepared /\ Journal.body = Body
    /\ Approved
    /\ Records.settlement = Body
    /\ ReviewPasses(Manifest, Body)
    /\ Begin("receipt", Journal.tx)
    /\ UNCHANGED <<disk, backups, snapshot, reviewed, txs, snaps, crashes, mixed>>

\* The manifest has not been committed: the before image is restored.
RollbackDue ==
    /\ Prepared
    /\ ~Approved
    /\ backups[Journal.tx] # Nothing

ApproveRollback ==
    /\ Readable
    /\ Receipt = Nothing
    /\ RollbackDue /\ Journal.body = Body
    /\ \E latest \in BOOLEAN : Restorable(backups[Journal.tx], latest)
    /\ Begin("moveout", Journal.tx)
    /\ UNCHANGED <<disk, backups, snapshot, reviewed, txs, snaps, crashes, mixed>>

\* Mutant: the review of the body is not asked for.
ApproveFreshUnreviewed ==
    /\ Readable
    /\ Receipt = Nothing
    /\ Journal # Nothing => Journal.body = Body
    /\ ~RollbackDue
    /\ Manifest.status = "ready"
    /\ Records.pending = Body
    /\ ~Prepared /\ txs < MaxTx
    /\ txs' = txs + 1
    /\ Begin("clean", txs + 1)
    /\ UNCHANGED <<disk, backups, snapshot, reviewed, snaps, crashes, mixed>>

\* A new transaction, or the same one once more after it has lost its before
\* image.
ApproveFresh ==
    /\ Readable
    /\ Receipt = Nothing
    /\ Journal # Nothing => Journal.body = Body
    /\ ~RollbackDue
    /\ Manifest.status = "ready"
    /\ ReviewPasses(Manifest, Body)
    /\ Records.pending = Body
    /\ \/ /\ Prepared
          /\ Begin("clean", Journal.tx)
          /\ UNCHANGED txs
       \/ /\ ~Prepared
          /\ txs < MaxTx
          /\ txs' = txs + 1
          /\ Begin("clean", txs + 1)
    /\ UNCHANGED <<disk, backups, snapshot, reviewed, snaps, crashes, mixed>>

-----------------------------------------------------------------------------
(* The steps of the transaction *)

\* remove_dir_all of an old before image, and a new directory for this one.
Clean ==
    /\ pc = "clean"
    /\ backups' = [backups EXCEPT ![tx] = Empty]
    /\ GoTo("copy")
    /\ UNCHANGED <<disk, snapshot, reviewed, txs, snaps, crashes, mixed>>

\* Mutant: one entry too many.
CopyOffByOne ==
    /\ pc = "copy"
    /\ backups' = [backups EXCEPT ![tx][Entries[k]] = disk[Entries[k]]]
    /\ IF k <= Len(Entries)
         THEN k' = k + 1 /\ pc' = pc
         ELSE k' = 1 /\ pc' = "prepare"
    /\ UNCHANGED <<disk, snapshot, reviewed, tx, aside, txs, snaps, crashes, mixed>>

\* copy_project_state_for_snapshot, one entry
Copy ==
    /\ pc = "copy"
    /\ backups' = [backups EXCEPT ![tx][Entries[k]] = disk[Entries[k]]]
    /\ IF k < Len(Entries)
         THEN k' = k + 1 /\ pc' = pc
         ELSE k' = 1 /\ pc' = "prepare"
    /\ UNCHANGED <<disk, snapshot, reviewed, tx, aside, txs, snaps, crashes, mixed>>

\* write_approval_journal: Prepared
Prepare ==
    /\ pc = "prepare"
    /\ SetRecords([Records EXCEPT !.journal =
                      [tx |-> tx, body |-> Body, state |-> "Prepared"]])
    /\ GoTo("settle")
    /\ UNCHANGED <<backups, snapshot, reviewed, txs, snaps, crashes, mixed>>

\* write_approved_settlement, the chapter's record file and the truth files
SettleApproved ==
    /\ pc = "settle"
    /\ SetRecords([Records EXCEPT !.settlement = Records.pending])
    /\ GoTo("commit")
    /\ UNCHANGED <<backups, snapshot, reviewed, txs, snaps, crashes, mixed>>

\* write_manifest with the approved chapter and the story bible it leads to
Commit ==
    /\ pc = "commit"
    /\ SetManifest([Manifest EXCEPT !.status = "approved", !.truth = @ \union {Body},
                                    !.cut = FALSE])
    /\ GoTo("receipt")
    /\ UNCHANGED <<backups, snapshot, reviewed, txs, snaps, crashes, mixed>>

\* write_approval_receipt
WriteReceipt ==
    /\ pc = "receipt"
    /\ SetRecords([Records EXCEPT !.receipt =
                      [tx |-> tx, body |-> Body, review |-> Manifest.review,
                       truth |-> Manifest.truth, legacy |-> FALSE]])
    /\ GoTo("close")
    /\ UNCHANGED <<backups, snapshot, reviewed, txs, snaps, crashes, mixed>>

\* Mutant: the journal stays open.
CloseJournalForgotten ==
    /\ pc = "close"
    /\ GoTo("cleanup")
    /\ UNCHANGED <<disk, backups, snapshot, reviewed, txs, snaps, crashes, mixed>>

\* write_approval_journal: Committed
CloseJournal ==
    /\ pc = "close"
    /\ SetRecords([Records EXCEPT !.journal.state = "Committed"])
    /\ GoTo("cleanup")
    /\ UNCHANGED <<backups, snapshot, reviewed, txs, snaps, crashes, mixed>>

\* cleanup_approval_backup; an automatic snapshot follows or not, by the number
\* of the chapter.
Cleanup ==
    /\ pc = "cleanup"
    /\ backups' = [backups EXCEPT ![tx] = Nothing]
    /\ GoTo("checkpoint") \/ Done
    /\ UNCHANGED <<disk, snapshot, reviewed, txs, snaps, crashes, mixed>>

\* upsert_auto_chapter_snapshot: the old directory is removed.
Checkpoint ==
    /\ pc = "checkpoint"
    /\ snapshot' = Empty
    /\ GoTo("save")
    /\ UNCHANGED <<disk, backups, reviewed, txs, snaps, crashes, mixed>>

\* snapshot: an old directory is copied over.
TakeSnapshot ==
    /\ pc = "idle" /\ Manifest # Nothing
    /\ snaps < MaxSnapshots /\ snaps' = snaps + 1
    /\ snapshot' = IF snapshot = Nothing THEN Empty ELSE snapshot
    /\ GoTo("save")
    /\ UNCHANGED <<disk, backups, reviewed, txs, crashes, mixed>>

\* Copying over an entry leaves the files that the project no longer has.
Over(e, old, new) ==
    IF new = Nothing THEN old
    ELSE IF e # "reviews" \/ old = Nothing THEN new
    ELSE [f \in DOMAIN NoReviews |-> IF new[f] = Nothing THEN old[f] ELSE new[f]]

\* copy_project_state_for_snapshot and copy_project_state_for_auto_snapshot, one
\* entry
Save ==
    /\ pc = "save"
    /\ snapshot' = [snapshot EXCEPT ![Entries[k]] =
                       Over(Entries[k], @, disk[Entries[k]])]
    /\ IF k < Len(Entries)
         THEN k' = k + 1 /\ pc' = pc
         ELSE k' = 1 /\ pc' = "list"
    /\ UNCHANGED <<disk, backups, reviewed, tx, aside, txs, snaps, crashes, mixed>>

\* write_manifest: the snapshot is listed, and still is after it has been
\* restored.
ListSnapshot ==
    /\ pc = "list"
    /\ SetManifest([Manifest EXCEPT !.listed = TRUE])
    /\ Done
    /\ UNCHANGED <<backups, snapshot, reviewed, txs, snaps, crashes, mixed>>

-----------------------------------------------------------------------------
(* copy_project_state_from_snapshot *)

\* restore_snapshot: the entries are staged and checked before one is touched.
RestoreSnapshot ==
    /\ pc = "idle" /\ Manifest # Nothing
    /\ Manifest.listed /\ snapshot # Nothing
    /\ \E latest \in BOOLEAN : Restorable(snapshot, latest)
    /\ Begin("moveout", 0)
    /\ UNCHANGED <<disk, backups, snapshot, reviewed, txs, snaps, crashes, mixed>>

\* What is staged: the before image of a transaction, or the snapshot.
Staged == IF tx = 0 THEN snapshot ELSE backups[tx]

\* An entry is renamed out of the way.
MoveOut ==
    /\ pc = "moveout"
    /\ aside' = [aside EXCEPT ![Entries[k]] = disk[Entries[k]]]
    /\ disk' = [disk EXCEPT ![Entries[k]] = Nothing]
    /\ IF k < Len(Entries)
         THEN k' = k + 1 /\ pc' = pc
         ELSE k' = 1 /\ pc' = "install"
    /\ UNCHANGED <<backups, snapshot, reviewed, tx, txs, snaps, crashes, mixed>>

\* A staged entry is renamed into its place.
Install ==
    /\ pc = "install"
    /\ disk' = [disk EXCEPT ![Entries[k]] = Staged[Entries[k]]]
    /\ IF k < Len(Entries)
         THEN k' = k + 1 /\ pc' = pc
         ELSE k' = 1 /\ pc' = "discard"
    /\ UNCHANGED <<backups, snapshot, reviewed, tx, aside, txs, snaps, crashes, mixed>>

\* A restore that fails removes what it has installed, moves back what it has
\* moved out and then deletes what is left of it.  The errors of all three are
\* ignored (remove_installed_entries, restore_backed_up_entries): an entry comes
\* back, stays as installed or is lost.
Untouched(e) == pc = "moveout" /\ aside[e] = Nothing
PutBack(e) == IF Untouched(e) THEN disk[e] ELSE aside[e]
Outcomes(e) == IF Untouched(e) THEN {disk[e]} ELSE {aside[e], disk[e], Nothing}

\* A rename fails, of one of the entries or of one that is not followed.
RenameFails ==
    /\ pc \in {"moveout", "install", "discard"}
    /\ \E m \in Outcomes("manifest"), c \in Outcomes("chapters"), r \in Outcomes("reviews") :
          disk' = [manifest |-> m, chapters |-> c, reviews |-> r]
    /\ IF \A e \in DOMAIN disk : disk'[e] = PutBack(e)
         THEN UNCHANGED <<mixed, crashes>>
         ELSE /\ mixed' = TRUE
              /\ crashes < MaxCrashes /\ crashes' = crashes + 1
    /\ Done
    /\ UNCHANGED <<backups, snapshot, reviewed, txs, snaps>>

\* The moved entries are deleted; an approval goes on to its before image, a
\* restored snapshot to the list of snapshots.
Discard ==
    /\ pc = "discard"
    /\ pc' = (IF tx = 0 THEN "list" ELSE "root")
    /\ aside' = Empty /\ UNCHANGED <<tx, k>>
    /\ UNCHANGED <<disk, backups, snapshot, reviewed, txs, snaps, crashes, mixed>>

\* The before image is removed: the approval has been rolled back.
RemoveRoot ==
    /\ pc = "root"
    /\ backups' = [backups EXCEPT ![tx] = Nothing]
    /\ Done
    /\ UNCHANGED <<disk, snapshot, reviewed, txs, snaps, crashes, mixed>>

-----------------------------------------------------------------------------
(* The other operations on the project *)

\* revise_chapter and add_chapter write the chapter's file.  A revision of the
\* body goes on to retire the pending settlement, one of the metadata and a new
\* draft do not.
WriteBody(b) ==
    /\ pc = "idle" /\ Manifest # Nothing
    /\ disk' = [disk EXCEPT !.chapters = b]
    /\ GoTo("retire") \/ GoTo("reopen")
    /\ UNCHANGED <<backups, snapshot, reviewed, txs, snaps, crashes, mixed>>

\* mark_pending_settlement_stale
RetirePending ==
    /\ pc = "retire"
    /\ IF Records.pending = Nothing THEN UNCHANGED disk
       ELSE SetRecords([Records EXCEPT !.pending = Nothing])
    /\ GoTo("reopen")
    /\ UNCHANGED <<backups, snapshot, reviewed, txs, snaps, crashes, mixed>>

\* write_manifest with the chapter as a draft, or in need of revision
Reopen ==
    /\ pc = "reopen"
    /\ SetManifest([Manifest EXCEPT !.status = "open"])
    /\ Done
    /\ UNCHANGED <<backups, snapshot, reviewed, txs, snaps, crashes, mixed>>

\* audit_chapter and review_chapter
Audit ==
    /\ Readable
    /\ Len(reviewed) < MaxAudits
    /\ \/ /\ reviewed' = Append(reviewed, Body)
          /\ SetManifest([Manifest EXCEPT !.status = "ready", !.review = Len(reviewed')])
       \/ /\ reviewed' = Append(reviewed, Nothing)
          /\ SetManifest([Manifest EXCEPT !.status = "open", !.review = 0])
    /\ UNCHANGED <<backups, snapshot, pc, local, txs, snaps, crashes, mixed>>

\* settle_chapter_state writes the pending settlement, which validates against
\* the body or not,
SettleState ==
    /\ Readable
    /\ \E p \in {Body, Nothing} : SetRecords([Records EXCEPT !.pending = p])
    /\ GoTo("status")
    /\ UNCHANGED <<backups, snapshot, reviewed, txs, snaps, crashes, mixed>>

\* and then the chapter's status.
SettledStatus ==
    /\ pc = "status"
    /\ SetManifest([Manifest EXCEPT !.status =
                       IF Records.pending = Body THEN "ready" ELSE "open"])
    /\ Done
    /\ UNCHANGED <<backups, snapshot, reviewed, txs, snaps, crashes, mixed>>

\* Mutant: an approved chapter is rejected too.
RejectApproved ==
    /\ pc = "idle" /\ Manifest # Nothing
    /\ Manifest.status # "open"
    /\ SetManifest([Manifest EXCEPT !.status = "open"])
    /\ UNCHANGED <<backups, snapshot, reviewed, pc, local, txs, snaps, crashes, mixed>>

\* reject_chapter_transaction
Reject ==
    /\ pc = "idle" /\ Manifest # Nothing
    /\ Manifest.status = "ready"
    /\ SetManifest([Manifest EXCEPT !.status = "open"])
    /\ UNCHANGED <<backups, snapshot, reviewed, pc, local, txs, snaps, crashes, mixed>>

\* repair_project_state, which may be told the last chapter to include.  An
\* approved chapter without a receipt gets a legacy one, and nothing else;
\* otherwise the story bible is rebuilt from the contract and the settlements of
\* the approved chapters up to that one.
Repair ==
    /\ pc = "idle" /\ Manifest # Nothing
    /\ \/ /\ Approved /\ Body # Nothing /\ Receipt = Nothing
          /\ SetRecords([Records EXCEPT !.receipt =
                            [tx |-> 0, body |-> Body, review |-> 0, truth |-> {},
                             legacy |-> TRUE]])
       \/ /\ Approved /\ Body # Nothing /\ Receipt # Nothing /\ ~Receipt.legacy
          /\ Receipt.body = Body /\ Records.settlement = Body
          /\ SetManifest([Manifest EXCEPT !.truth = {Body}, !.cut = FALSE])
       \/ \* not approved, or above the last chapter to include
          SetManifest([Manifest EXCEPT !.truth = {}, !.cut = Approved])
    /\ UNCHANGED <<backups, snapshot, reviewed, pc, local, txs, snaps, crashes, mixed>>

-----------------------------------------------------------------------------
(* Interruptions *)

\* What an interruption leaves of a directory that is being deleted.
Remains(d) ==
    {[e \in DOMAIN Empty |-> IF e \in left THEN d[e] ELSE Nothing] :
        left \in SUBSET DOMAIN Empty}

\* The process ends, or the call fails or is given up, between two writes.
Crash ==
    /\ pc # "idle"
    /\ crashes < MaxCrashes /\ crashes' = crashes + 1
    /\ \/ UNCHANGED <<backups, snapshot>>
       \/ /\ pc \in {"clean", "cleanup", "root"} /\ backups[tx] # Nothing
          /\ \E d \in Remains(backups[tx]) : backups' = [backups EXCEPT ![tx] = d]
          /\ UNCHANGED snapshot
       \/ /\ pc = "checkpoint" /\ snapshot # Nothing
          /\ snapshot' \in Remains(snapshot)
          /\ UNCHANGED backups
    /\ Done
    /\ UNCHANGED <<disk, reviewed, txs, snaps, mixed>>

-----------------------------------------------------------------------------

Approve == ApproveReplay \/ ApproveRecover \/ ApproveRollback \/ ApproveFresh

Step ==
    \/ Clean \/ Copy \/ Prepare \/ SettleApproved \/ Commit \/ WriteReceipt
    \/ CloseJournal \/ Cleanup \/ Checkpoint \/ Save \/ ListSnapshot
    \/ MoveOut \/ Install \/ Discard \/ RemoveRoot
    \/ RetirePending \/ Reopen \/ SettledStatus

Edit == (\E b \in Bodies : WriteBody(b)) \/ RetirePending \/ Reopen
        \/ Audit \/ SettleState \/ SettledStatus

Next ==
    \/ Approve \/ Step \/ RenameFails \/ Crash
    \/ (\E b \in Bodies : WriteBody(b)) \/ Audit \/ SettleState \/ Reject \/ Repair
    \/ TakeSnapshot \/ RestoreSnapshot

Spec == Init /\ [][Next]_vars

\* An operation that is not interrupted runs to its end.
FairSpec == Spec /\ WF_vars(Step)

-----------------------------------------------------------------------------
(* Properties *)

\* durable_chapter_progress counts the chapter as approved.
Trusted ==
    /\ Manifest # Nothing /\ Body # Nothing
    /\ Approved
    /\ Receipt # Nothing /\ ~Receipt.legacy /\ Receipt.body = Body

\* Whatever has been interrupted, rolled back, repaired or restored on the way,
\* a chapter that counts as approved has the evidence of its approval: the
\* receipt names a passing review of this very body; its settlement is on disk,
\* unless a failed restore has left entries of two states of the project; and the
\* story bible holds the settlement, unless moreover the last repair has ended
\* before the chapter.
TrustedHasEvidence ==
    Trusted =>
        /\ Receipt.review # 0 /\ reviewed[Receipt.review] = Body
        /\ ~mixed => Records.settlement = Body
        /\ ~mixed /\ ~Manifest.cut => Body \in Manifest.truth

\* No approval, recovery, rejection, repair, rollback and no crash takes a chapter
\* out of the approved ones: only an edit of the chapter or the restoring of a
\* snapshot does.
TrustedUntilEdited ==
    [][Trusted /\ ~Trusted' => Edit \/ (tx = 0 /\ (MoveOut \/ RenameFails))]_vars

\* A rollback leaves the chapter's body as it was: before what it has moved out
\* of the way is deleted, the same body is in its place.
RollbackKeepsBody == pc = "discard" /\ tx # 0 => Body = aside.chapters

\* A prepared transaction for the current body is settled, one way or the
\* other, if approvals keep being called and get past their checks, and no rename
\* fails and nobody touches the chapter or its records in between.
PreparedIsSettled ==
    (<>[][~(Edit \/ Reject \/ Repair \/ RestoreSnapshot \/ RenameFails)]_vars /\ []<><<Approve>>_vars)
        => <>[](~Prepared)

-----------------------------------------------------------------------------
(* Statements that the code does not meet: TLC finds a counterexample to    *)
(* each (see README.md).                                                     *)

\* The story bible holds the settlement of an approved chapter.
BibleHoldsApproved == Trusted => Body \in Manifest.truth

\* The story bible holds no other settlement of an approved chapter.
BibleHoldsOnlyApproved == Trusted => Manifest.truth \subseteq {Body}

\* An approved chapter is immutable.
ApprovedIsImmutable == [][Trusted /\ pc = "idle" => Trusted']_vars

\* A rolled back project is complete.
RollbackIsComplete == pc = "idle" => \A e \in DOMAIN disk : disk[e] # Nothing
=============================================================================
