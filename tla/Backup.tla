------------------------------- MODULE Backup -------------------------------
(***************************************************************************)
(* internal/backup: every five minutes the pusher reads what somebody      *)
(* typed into main.db, table by table, and when that is not what it        *)
(* recorded of the last copy, or the last copy is old, copies the          *)
(* databases one after the other and posts them.  Readers type, fetches    *)
(* write and articles are read all the while.  The record is in            *)
(* derived.db.                                                             *)
(***************************************************************************)
EXTENDS Integers, Sequences

CONSTANTS
    Tables,      \* how many tables of main.db DurableDigest reads
    Contents,    \* what can be typed into one
    Modes,       \* of BYSTANDER_BACKUP_MODE; "off" is no BYSTANDER_BACKUP_URL
    MaxWritten,  \* bound: how often a fetch saves, and how often an article is read
    MaxFaults,   \* bound: how often something goes wrong
    Absent

ASSUME BackupAssumption ==
    /\ Tables \in Nat \ {0} /\ MaxWritten \in Nat /\ MaxFaults \in Nat
    /\ Modes \subseteq {"off", "main", "relaxed", "all"}
    /\ Absent \notin [1..Tables -> Contents]

VARIABLES
    mode,      \* Pusher.Mode
    typed,     \* main.db: what each table holds that the digest counts
    etag,      \* main.db: the newest document whose validators are recorded
    taken,     \* derived.db: the newest document whose articles are saved
    reads,     \* derived.db: how many articles have been read
    last,      \* derived.db: the digest backup_state holds, or Absent
    aged,      \* the period has run out since pushed_at
    step,      \* where Once is
    due,       \* what Once found of the period
    digest,    \* what it has read so far
    copy,      \* what it has copied so far
    archive,   \* the newest copy an agent took
    returned,  \* history: what was typed came back to what the record calls copied
    faults     \* how often something has gone wrong

backupVars ==
    <<mode, typed, etag, taken, reads, last, aged, step, due, digest, copy,
      archive, returned, faults>>

database == <<mode, typed, etag, taken, reads>>
pass == <<step, due, digest, copy>>

Steps == {"waiting", "digest", "copy", "push", "record"}

\* An archive with neither main.db nor derived.db in it.
Nothing == [typed |-> Absent, etag |-> Absent, taken |-> Absent, reads |-> Absent]

BackupInit ==
    /\ mode \in Modes
    /\ typed \in [1..Tables -> Contents]
    /\ etag = 0 /\ taken = 0 /\ reads = 0
    /\ last = Absent /\ aged = FALSE
    /\ step = "waiting" /\ due = FALSE /\ digest = <<>> /\ copy = Nothing
    /\ archive = Nothing /\ returned = FALSE /\ faults = 0

(***************************************************************************)
(* The databases in use.                                                   *)
(***************************************************************************)
\* The record, or the one the pass is about to write, calls this copied and
\* the copy is of something else.
CalledCopied(content) ==
    \/ last = content /\ archive.typed # content
    \/ content \in {last, digest} /\ copy.typed \notin {Absent, content}

Type(t, v) ==
    /\ typed[t] # v
    /\ typed' = [typed EXCEPT ![t] = v]
    /\ returned' = (returned \/ CalledCopied(typed'))
    /\ UNCHANGED <<mode, etag, taken, reads, last, aged, pass, archive, faults>>

\* A fetch writes its articles to derived.db and then its validators to main.db.
FetchSaves ==
    /\ taken < MaxWritten
    /\ taken' = taken + 1
    /\ UNCHANGED <<mode, typed, etag, reads, last, aged, pass, archive, returned, faults>>

FetchRecords ==
    /\ etag # taken
    /\ etag' = taken
    /\ UNCHANGED <<mode, typed, taken, reads, last, aged, pass, archive, returned, faults>>

ReadArticle ==
    /\ reads < MaxWritten
    /\ reads' = reads + 1
    /\ UNCHANGED <<mode, typed, etag, taken, last, aged, pass, archive, returned, faults>>

\* BackupAllPeriod since the copy on record; the other modes have none.
PeriodPasses ==
    /\ mode = "all" /\ last # Absent /\ ~aged
    /\ aged' = TRUE
    /\ UNCHANGED <<database, last, pass, archive, returned, faults>>

(***************************************************************************)
(* One pass.                                                               *)
(***************************************************************************)
\* Mutant of Stopped: what was read is still there when the next pass begins.
StoppedKeeping == step' = "waiting" /\ due' = FALSE /\ UNCHANGED <<digest, copy>>

Stopped == step' = "waiting" /\ due' = FALSE /\ digest' = <<>> /\ copy' = Nothing

\* Run's loop, which is not entered without an URL; and LastBackup.
BeginPass ==
    /\ step = "waiting" /\ mode # "off"
    /\ step' = "digest" /\ due' = aged
    /\ UNCHANGED <<database, last, aged, digest, copy, archive, returned, faults>>

\* DurableDigest, outside any transaction: one table, one read.
ReadTable ==
    /\ step = "digest" /\ Len(digest) < Tables
    /\ digest' = Append(digest, typed[Len(digest) + 1])
    /\ UNCHANGED <<database, last, aged, step, due, copy, archive, returned, faults>>

\* Mutant of Wanted: a floor that is looked at only for what has changed.
WantedWhenChanged == digest # last

Wanted == digest # last \/ due

Decide ==
    /\ step = "digest" /\ Len(digest) = Tables
    /\ IF Wanted THEN step' = "copy" /\ UNCHANGED <<due, digest, copy>> ELSE Stopped
    /\ UNCHANGED <<database, last, aged, archive, returned, faults>>

\* Mutant of Sources: the other order.
SourcesDerivedFirst == IF mode = "main" THEN <<"main">> ELSE <<"derived", "main">>

\* "main.db first."
Sources == IF mode = "main" THEN <<"main">> ELSE <<"main", "derived">>

Copied(file) == IF file = "main" THEN copy.typed # Absent ELSE copy.taken # Absent

\* VACUUM INTO, as of one read transaction of one database.
CopyFile(i) ==
    /\ step = "copy"
    /\ ~Copied(Sources[i]) /\ \A j \in 1..i - 1 : Copied(Sources[j])
    /\ copy' = IF Sources[i] = "main" THEN [copy EXCEPT !.typed = typed, !.etag = etag]
               ELSE [copy EXCEPT !.taken = taken, !.reads = reads]
    /\ step' = IF i = Len(Sources) THEN "push" ELSE "copy"
    /\ UNCHANGED <<database, last, aged, due, digest, archive, returned, faults>>

PushAccepted ==
    /\ step = "push"
    /\ archive' = copy /\ step' = "record"
    /\ UNCHANGED <<database, last, aged, due, digest, copy, returned, faults>>

RecordBackup ==
    /\ step = "record"
    /\ last' = digest /\ aged' = FALSE
    /\ Stopped
    /\ UNCHANGED <<database, archive, returned, faults>>

(***************************************************************************)
(* What goes wrong, the last two of them after the agent took the copy.    *)
(***************************************************************************)
GoesWrong == faults < MaxFaults /\ faults' = faults + 1

\* Mutant of PassFails: the copy is recorded before it is sent.
PassFailsRecorded ==
    /\ step # "waiting" /\ GoesWrong /\ Stopped
    /\ last' = IF step = "push" THEN digest ELSE last
    /\ UNCHANGED <<database, aged, archive, returned>>

\* A read or a copy fails, the agent refuses, or the process stops.
PassFails ==
    /\ step # "waiting" /\ GoesWrong /\ Stopped
    /\ UNCHANGED <<database, last, aged, archive, returned>>

ReplyLost ==
    /\ step = "push" /\ GoesWrong /\ Stopped
    /\ archive' = copy
    /\ UNCHANGED <<database, last, aged, returned>>

OncePasses ==
    \/ BeginPass \/ ReadTable \/ Decide \/ PushAccepted \/ RecordBackup
    \/ \E i \in DOMAIN Sources : CopyFile(i)

BackupNext ==
    \/ \E t \in 1..Tables, v \in Contents : Type(t, v)
    \/ FetchSaves \/ FetchRecords \/ ReadArticle \/ PeriodPasses
    \/ OncePasses \/ PassFails \/ ReplyLost

BackupSpec == BackupInit /\ [][BackupNext]_backupVars

\* The five minutes' timer, and half an hour; a pass has a timeout.
BackupFairness == WF_backupVars(OncePasses) /\ WF_backupVars(PeriodPasses)

FairBackupSpec == BackupSpec /\ BackupFairness

(***************************************************************************)
(* Properties.                                                             *)
(***************************************************************************)
\* The databases, the archive and what Once holds, which is nothing between
\* two passes.
BackupTypeOK ==
    /\ mode \in Modes
    /\ typed \in [1..Tables -> Contents]
    /\ etag \in 0..MaxWritten /\ taken \in 0..MaxWritten /\ reads \in 0..MaxWritten
    /\ last \in [1..Tables -> Contents] \cup {Absent}
    /\ aged \in BOOLEAN /\ due \in BOOLEAN /\ returned \in BOOLEAN
    /\ step \in Steps /\ faults \in 0..MaxFaults
    /\ digest \in Seq(Contents) /\ Len(digest) <= Tables
    /\ \A c \in {copy, archive} : c \in
           [typed : [1..Tables -> Contents] \cup {Absent}, etag : 0..MaxWritten \cup {Absent},
            taken : 0..MaxWritten \cup {Absent}, reads : 0..MaxWritten \cup {Absent}]
    /\ step = "waiting" => ~due /\ digest = <<>> /\ copy = Nothing

\* An archive that carries derived.db restores to a pair in which no feed is
\* asked with the validators of a document whose articles are missing, although
\* the two databases were copied one after the other with fetches in between.
RestoresCovered ==
    archive.taken # Absent => archive.etag <= archive.taken

\* A pass is spared only for what an agent has: where the digest on record is of
\* what is typed, the newest copy is of that too, however typing, refusals and
\* lost replies fell between digest, copy and record - except where what was
\* typed returned to what the record called copied.
RecordHonest ==
    last = typed => archive.typed = typed \/ returned

\* What was typed and then left alone is in the newest copy in the end, whatever
\* was typed while the tables were read and copied, refused or lost on the way
\* back - except where it returned to what the record calls copied already.
TypedIsKept ==
    mode # "off" => \A content \in [1..Tables -> Contents] :
        <>[](typed = content /\ ~returned) => <>[](archive.typed = content)

\* "The one thing main.db never sees": with mode all the newest copy has what
\* was read, too, although nothing was typed since.
ReadsKept ==
    mode = "all" => <>[](archive.reads = reads)
=============================================================================
