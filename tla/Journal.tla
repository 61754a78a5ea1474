------------------------------ MODULE Journal -------------------------------
(***************************************************************************)
(* The journal's file (src/durable/journal.cpp) on the file operations of  *)
(* src/core/file.cpp, down to writes that are cut short.                   *)
(*                                                                         *)
(* A file is a sequence of frames.  A frame that was not written           *)
(* completely, or that lost some of its pages, is not intact: a checksum   *)
(* or a length tells.  The scan of open() stops at the first one.  When    *)
(* it is the last of the file it is a torn tail, which is truncated.       *)
(* Otherwise the lengths and checksums are read from the wrong bytes:      *)
(* the scan then either reports corruption or takes everything from there  *)
(* on for a torn tail, which is one choice of Open.                        *)
(*                                                                         *)
(* A process crash leaves the file as it is.  A power loss can take        *)
(* everything that was not synced, page by page, and a rename whose        *)
(* directory was not synced.  A sync that returns ok has made the whole    *)
(* file durable.  A failed flush discards the rest of its buffer, as the   *)
(* GNU C library does.  Nobody reads a sequence number: they are left out. *)
(***************************************************************************)
EXTENDS Naturals, Sequences, FiniteSets

CONSTANTS
    SyncsName,          \* whether syncing a file makes its directory entry durable
    MaxJournalRecords,  \* limits::max_journal_records, the bound of replay()
    MaxPayloads,        \* bound on the payloads that are written
    MaxLive             \* bound on the frames that a compaction keeps

ASSUME JournalAssumption ==
    /\ SyncsName \in BOOLEAN
    /\ MaxJournalRecords \in Nat /\ MaxPayloads \in Nat /\ MaxLive \in Nat

VARIABLES
    file,           \* the frames in the file, as a reader sees them
    synced,         \* how many of them are on stable storage
    previous,       \* files that a power loss may bring back under the name
    is_open,        \* FileHandle::is_open() of file_
    frame_count,
    stale,          \* the counters are those of a file that was replaced
    step,           \* "down", "ready", or the next step of compact()
    temp,           \* the frames of the ".compact" file
    fresh,          \* the next payload
    known,          \* what the owner has in memory: replayed or acknowledged
    acknowledged,   \* payloads that the owner has been told are durable
    exposed         \* those acknowledged while the file was not intact

fileVars == <<file, synced, previous>>
memoryVars == <<is_open, frame_count, stale>>
ownerVars == <<fresh, known, acknowledged, exposed>>
journalVars == <<fileVars, memoryVars, step, temp, ownerVars>>

-----------------------------------------------------------------------------
(* Files *)

\* encode_frame()
Frame(p) == [payload |-> p, intact |-> TRUE]

Torn(f) == [f EXCEPT !.intact = FALSE]

Intact(s) == \A i \in DOMAIN s : s[i].intact

\* The scan loop of open() gets past n frames of s.
Scans(s, n) ==
    /\ n \in 0 .. Len(s)
    /\ \A i \in 1 .. n : s[i].intact
    /\ n < Len(s) => ~s[n + 1].intact

\* The part of the file that a scan accepts.
Good(s) == CHOOSE n \in 0 .. Len(s) : Scans(s, n)

Payloads(s) == {s[i].payload : i \in DOMAIN s}

\* sync() of a file: its name may become durable with it.
NameSynced == previous' = IF SyncsName THEN {} ELSE previous

-----------------------------------------------------------------------------
\* A first start: the file has just been created, and is empty.
JournalInit ==
    /\ file = << >> /\ synced = 0
    /\ previous = IF SyncsName THEN {} ELSE {[file |-> << >>, synced |-> 0]}
    /\ is_open = FALSE /\ frame_count = 0 /\ stale = FALSE
    /\ step = "down" /\ temp = << >> /\ fresh = 1
    /\ known = {} /\ acknowledged = {} /\ exposed = {}

\* The end of open().
Opened(n) ==
    /\ is_open' = TRUE
    /\ frame_count' = n
    /\ stale' = FALSE

\* open() returning ok, with the repair of what it takes for a torn tail, and
\* replay(), which refuses more than MaxJournalRecords frames.  An open() that
\* refuses leaves everything as it is: where the scan reports corruption, at a
\* bad magic as much as at a bad checksum, this action is just not taken.
Open ==
    \E n \in 0 .. Len(file) :
       /\ step = "down"
       /\ Scans(file, n) /\ n <= MaxJournalRecords
       /\ \/ n = Len(file) /\ UNCHANGED fileVars
          \/ /\ n < Len(file)
             /\ file' = SubSeq(file, 1, n) /\ synced' = n
             /\ NameSynced
       /\ Opened(n)
       /\ known' = Payloads(file')
       /\ step' = "ready"
       /\ UNCHANGED <<temp, fresh, acknowledged, exposed>>

\* The repair truncates the file and cannot sync it: open() fails.
RepairFails ==
    \E n \in 0 .. Len(file) :
       /\ step = "down"
       /\ Scans(file, n) /\ n < Len(file)
       /\ file' = SubSeq(file, 1, n)
       /\ synced' = IF synced < n THEN synced ELSE n
       /\ UNCHANGED <<previous, memoryVars, step, temp, ownerVars>>

-----------------------------------------------------------------------------
\* Faulty: the append is not followed by a sync.
AppendUnsynced ==
    /\ step = "ready" /\ is_open
    /\ fresh <= MaxPayloads
    /\ file' = Append(file, Frame(fresh))
    /\ UNCHANGED <<synced, previous>>
    /\ frame_count' = frame_count + 1
    /\ known' = known \cup {fresh}
    /\ acknowledged' = acknowledged \cup known'
    /\ exposed' = IF Intact(file) THEN exposed ELSE exposed \cup {fresh}
    /\ fresh' = fresh + 1
    /\ UNCHANGED <<is_open, stale, step, temp>>

\* append() returning ok.  The sync covers what was in the file before.
AppendFrame ==
    /\ step = "ready" /\ is_open
    /\ fresh <= MaxPayloads
    /\ file' = Append(file, Frame(fresh))
    /\ synced' = Len(file')
    /\ NameSynced
    /\ frame_count' = frame_count + 1
    /\ known' = known \cup {fresh}
    /\ acknowledged' = acknowledged \cup known'
    /\ exposed' = IF Intact(file) THEN exposed ELSE exposed \cup {fresh}
    /\ fresh' = fresh + 1
    /\ UNCHANGED <<is_open, stale, step, temp>>

\* Faulty: the frame is counted before it is written.
AppendFailsCounted ==
    LET frame == Frame(fresh)
    IN  /\ step = "ready" /\ is_open
        /\ fresh <= MaxPayloads
        /\ file' \in {file, Append(file, frame), Append(file, Torn(frame))}
        /\ fresh' = fresh + 1
        /\ frame_count' = frame_count + 1
        /\ UNCHANGED <<synced, previous, is_open, stale, step, temp, known, acknowledged, exposed>>

\* append() returning an error after write_all() was reached: nothing, part or
\* all of the frame is in the file, not synced, and nothing is repaired.
AppendFails ==
    LET frame == Frame(fresh)
    IN  /\ step = "ready" /\ is_open
        /\ fresh <= MaxPayloads
        /\ file' \in {file, Append(file, frame), Append(file, Torn(frame))}
        /\ fresh' = fresh + 1
        /\ UNCHANGED <<synced, previous, memoryVars, step, temp, known, acknowledged, exposed>>

\* close(), when the coordinator ends: the sync may fail, the handle is gone.
Close ==
    /\ step = "ready"
    /\ is_open' = FALSE
    /\ step' = "down"
    /\ \/ is_open /\ synced' = Len(file) /\ NameSynced
       \/ UNCHANGED <<synced, previous>>
    /\ UNCHANGED <<file, frame_count, stale, temp, ownerVars>>

-----------------------------------------------------------------------------
(* compact().  From the rename on, what was rewritten stands for everything the
   owner knew.  A step that fails returns to the caller; from the closing of
   the old file on, the journal is then left closed. *)

\* The temporary file is written, synced and closed: a selection of what is
\* in memory, in its order, and a mark.  When that fails, the journal is as it
\* was.
CompactWrite ==
    /\ step = "ready" /\ is_open
    /\ fresh <= MaxPayloads
    /\ \E n \in 0 .. MaxLive : \E live \in [1 .. n -> known] :
          /\ \A i, j \in 1 .. n : i < j => live[i] < live[j]
          /\ temp' = [i \in 1 .. n + 1 |-> Frame(IF i = n + 1 THEN fresh ELSE live[i])]
    /\ fresh' = fresh + 1
    /\ step' = "close"
    /\ UNCHANGED <<fileVars, memoryVars, known, acknowledged, exposed>>

CompactClose ==
    /\ step = "close"
    /\ is_open' = FALSE
    /\ step' \in {"rename", "ready"}
    /\ UNCHANGED <<fileVars, frame_count, stale, temp, ownerVars>>

\* Faulty: the old file is removed first, and the name is free when the power
\* fails.
CompactRenameUnsafe ==
    /\ step = "rename"
    /\ file' = temp /\ synced' = Len(temp)
    /\ previous' = previous \cup {[file |-> << >>, synced |-> 0]}
    /\ known' = Payloads(temp)
    /\ acknowledged' = acknowledged \cap Payloads(temp)
    /\ exposed' = exposed \cap Payloads(temp)
    /\ step' = "sync"
    /\ UNCHANGED <<memoryVars, temp, fresh>>

\* rename() in atomic_replace_file()
CompactRename ==
    /\ step = "rename"
    /\ \/ /\ file' = temp /\ synced' = Len(temp)
          /\ previous' = previous \cup {[file |-> file, synced |-> synced]}
          /\ known' = Payloads(temp)
          /\ acknowledged' = acknowledged \cap Payloads(temp)
          /\ exposed' = exposed \cap Payloads(temp)
          /\ step' = "sync"
       \/ UNCHANGED <<fileVars, known, acknowledged, exposed>> /\ step' = "ready"
    /\ UNCHANGED <<memoryVars, temp, fresh>>

\* sync_parent_directory()
CompactSync ==
    /\ step = "sync"
    /\ \/ /\ previous' = {} /\ step' = "reopen"
          /\ acknowledged' = Payloads(file) /\ exposed' = {}
       \/ UNCHANGED <<previous, acknowledged, exposed>> /\ step' = "ready"
    /\ UNCHANGED <<file, synced, memoryVars, temp, fresh, known>>

\* open() of the new file.  It can fail to get a handle, or fail to read with
\* the handle in place and the counters of the old file.
CompactReopen ==
    /\ step = "reopen"
    /\ UNCHANGED fileVars
    /\ \/ Opened(Len(file))
       \/ /\ is_open' \in BOOLEAN /\ stale' = TRUE
          /\ UNCHANGED frame_count
    /\ step' = "ready"
    /\ UNCHANGED <<temp, ownerVars>>

-----------------------------------------------------------------------------
\* What a power loss can leave of a file.
Survivors(old) ==
    {[i \in 1 .. n |-> IF i \in lost THEN Torn(old.file[i]) ELSE old.file[i]] :
        n \in old.synced .. Len(old.file), lost \in SUBSET (old.synced + 1 .. Len(old.file))}

Down ==
    /\ is_open' = FALSE /\ frame_count' = 0 /\ stale' = FALSE
    /\ step' = "down" /\ temp' = << >>
    /\ known' = {}
    /\ UNCHANGED <<fresh, acknowledged, exposed>>

ProcessCrash ==
    /\ step # "down"
    /\ Down
    /\ UNCHANGED fileVars

PowerLoss ==
    /\ \E old \in {[file |-> file, synced |-> synced]} \cup previous : file' \in Survivors(old)
    /\ synced' = Len(file')
    /\ previous' = {}
    /\ Down

JournalNext ==
    \/ Open \/ RepairFails \/ AppendFrame \/ AppendFails \/ Close
    \/ CompactWrite \/ CompactClose \/ CompactRename \/ CompactSync \/ CompactReopen
    \/ ProcessCrash \/ PowerLoss

JournalSpec == JournalInit /\ [][JournalNext]_journalVars

-----------------------------------------------------------------------------
(* Correctness *)

FrameSet == [payload : Nat, intact : BOOLEAN]

Files == Seq(FrameSet)

\* The state of the journal is well formed.
JournalTypeOK ==
    /\ file \in Files /\ synced \in 0 .. Len(file)
    /\ \A old \in previous : old.file \in Files /\ old.synced \in 0 .. Len(old.file)
    /\ is_open \in BOOLEAN /\ stale \in BOOLEAN /\ frame_count \in Nat
    /\ step \in {"down", "ready", "close", "rename", "sync", "reopen"}
    /\ temp \in Files /\ fresh \in Nat
    /\ known \subseteq Nat /\ acknowledged \subseteq Nat /\ exposed \subseteq acknowledged

\* Payload p is among the first n frames of s, and a scan gets to it.
Kept(s, n, p) ==
    \E i \in 1 .. n : s[i].payload = p /\ \A j \in 1 .. i : s[j].intact

Holdings == {[file |-> file, synced |-> synced]} \cup previous

\* "A caller may only acknowledge durable work after an append that returned
\* ok" (journal.hpp): whatever appends, repairs and compactions have failed, an
\* acknowledged payload is in the synced part of the file, and in front of
\* everything that a scan stumbles over, in each file that a crash can leave
\* under the journal's name.  Not covered are payloads appended behind a frame
\* that was cut short, which append() does not repair.
AcknowledgedDurable ==
    \A old \in Holdings : \A p \in acknowledged \ exposed :
       Kept(old.file, old.synced, p)

\* "A torn tail is truncated back to the last good frame; a corrupt frame that
\* is not at the tail fails the open so that damaged history can never be
\* silently reinterpreted" (journal.hpp): opening the journal drops no payload
\* that the owner was told is durable.
NothingDropped ==
    [][step = "down" /\ step' = "ready" => acknowledged \subseteq Payloads(file')]_journalVars

\* frame_count, which triggers the compaction, counts the frames of the file
\* that the owner knows of, whatever appends have failed.  Except after a
\* compaction that could not read the new file back: the journal then goes on
\* with the count of the old one.
FramesCounted ==
    is_open /\ ~stale /\ step = "ready" =>
       frame_count = Cardinality({i \in DOMAIN file : file[i].payload \in known})

\* The journal seen as a log: what open() accepts of a file.
Accepted(s) == [i \in 1 .. Good(s) |-> s[i].payload]
Safe(s, n) == IF n < Good(s) THEN n ELSE Good(s)

Log == INSTANCE DurableLog WITH
          log <- Accepted(file), safe <- Safe(file, synced), tainted <- ~Intact(file),
          standby <- {[log |-> Accepted(old.file), safe |-> Safe(old.file, old.synced)] :
                         old \in previous}

\* The journal implements the log of DurableLog: an append that fails adds its
\* payload or nothing, or taints the file until it is opened again; opening
\* removes no entry; a compaction replaces the log at once, and a crash between
\* two of its steps leaves the old or the new log, never a mixture.
ImplementsLog == Log!LogSpec
=============================================================================
