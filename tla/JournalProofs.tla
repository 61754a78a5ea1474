--------------------------- MODULE JournalProofs ----------------------------
(***************************************************************************)
(* What the journal has acknowledged survives, for files of every length   *)
(* and any number of failed appends, compactions and crashes.              *)
(***************************************************************************)
EXTENDS Journal, SequenceTheorems, TLAPS

-----------------------------------------------------------------------------
(* Files *)

(* Truncation keeps the front. *)
LEMMA TruncatedFile ==
    ASSUME NEW s \in Files, NEW n \in 0 .. Len(s)
    PROVE  /\ SubSeq(s, 1, n) \in Files
           /\ Len(SubSeq(s, 1, n)) = n
           /\ \A i \in 1 .. n : SubSeq(s, 1, n)[i] = s[i]
<1>1. \A i \in 1 .. n : s[i] \in FrameSet
  <2>1. Len(s) \in Nat /\ s \in [1 .. Len(s) -> FrameSet]
    BY LenProperties DEF Files
  <2> QED
    BY <2>1
<1>2. n \in Int /\ 1 \in Int /\ n - 1 + 1 = n
  OBVIOUS
<1>3. /\ SubSeq(s, 1, n) \in Seq(FrameSet)
      /\ Len(SubSeq(s, 1, n)) = IF 1 <= n THEN n - 1 + 1 ELSE 0
      /\ \A i \in 1 .. n - 1 + 1 : SubSeq(s, 1, n)[i] = s[1 + i - 1]
  BY <1>1, <1>2, SubSeqProperties
<1>4. \A i \in 1 .. n : 1 + i - 1 = i
  OBVIOUS
<1> QED
  BY <1>2, <1>3, <1>4 DEF Files

(* An append changes nothing in front of the new frame. *)
LEMMA AppendedFile ==
    ASSUME NEW s \in Files, NEW f \in FrameSet
    PROVE  /\ Append(s, f) \in Files
           /\ Len(Append(s, f)) = Len(s) + 1
           /\ \A i \in 1 .. Len(s) : Append(s, f)[i] = s[i]
           /\ Append(s, f)[Len(s) + 1] = f
BY DEF Files

(* What is given by its frames is a file. *)
LEMMA FileOfFrames ==
    ASSUME NEW n \in Nat, NEW s \in [1 .. n -> FrameSet]
    PROVE  s \in Files /\ Len(s) = n
<1>1. s \in Seq(FrameSet)
  BY SeqDef
<1>2. Len(s) \in Nat /\ DOMAIN s = 1 .. Len(s)
  BY <1>1, LenProperties
<1>3. 1 .. Len(s) = 1 .. n
  BY <1>2
<1>4. Len(s) = n
  BY <1>2, <1>3
<1> QED
  BY <1>1, <1>4 DEF Files

(* A power loss leaves the synced part of a file as it is. *)
LEMMA SurvivingFile ==
    ASSUME NEW old, old.file \in Files, old.synced \in 0 .. Len(old.file),
           NEW t \in Survivors(old)
    PROVE  /\ t \in Files /\ Len(t) \in old.synced .. Len(old.file)
           /\ \A i \in 1 .. old.synced : t[i] = old.file[i]
<1> DEFINE s == old.file
           kept(n, lost) == [i \in 1 .. n |-> IF i \in lost THEN Torn(s[i]) ELSE s[i]]
<1>1. PICK n \in old.synced .. Len(s), lost \in SUBSET (old.synced + 1 .. Len(s)) :
         t = kept(n, lost)
  BY DEF Survivors
<1>2. n \in Nat /\ Len(s) \in Nat /\ s \in [1 .. Len(s) -> FrameSet]
  BY LenProperties DEF Files
<1>3. \A i \in 1 .. n : s[i] \in FrameSet /\ Torn(s[i]) \in FrameSet
  <2>1. \A f \in FrameSet : Torn(f) \in FrameSet
    BY DEF FrameSet, Torn
  <2>2. \A i \in 1 .. n : i \in 1 .. Len(s)
    BY <1>1, <1>2
  <2> QED
    BY <1>2, <2>1, <2>2
<1>4. t \in [1 .. n -> FrameSet]
  BY <1>1, <1>3
<1>5. t \in Files /\ Len(t) = n
  BY <1>2, <1>4, FileOfFrames
<1>6. \A i \in 1 .. old.synced : i \notin lost /\ i \in 1 .. n
  BY <1>1, <1>2
<1> QED
  BY <1>1, <1>5, <1>6

-----------------------------------------------------------------------------
(* Payloads that a scan gets to *)

(* Opening drops no payload that the scan gets to. *)
LEMMA KeptWhenTruncated ==
    ASSUME NEW s \in Files, NEW n \in 0 .. Len(s), Scans(s, n),
           NEW m \in 0 .. Len(s), NEW k \in 0 .. n, m <= k \/ n <= k,
           NEW p, Kept(s, m, p)
    PROVE  Kept(SubSeq(s, 1, n), k, p)
<1>1. PICK i \in 1 .. m : s[i].payload = p /\ \A j \in 1 .. i : s[j].intact
  BY DEF Kept
<1>2. i <= n
  <2>1. SUFFICES ASSUME ~(i <= n) PROVE FALSE
    OBVIOUS
  <2>2. Len(s) \in Nat
    BY DEF Files
  <2>3. n < Len(s) /\ n + 1 \in 1 .. i
    BY <2>1, <2>2
  <2> QED
    BY <1>1, <2>3 DEF Scans
<1>3. i \in 1 .. k
  BY <1>2
<1>4. \A j \in 1 .. n : SubSeq(s, 1, n)[j] = s[j]
  BY TruncatedFile
<1>5. i \in 1 .. n /\ \A j \in 1 .. i : j \in 1 .. n
  BY <1>2
<1> QED
  BY <1>1, <1>3, <1>4, <1>5 DEF Kept

(* What follows does not matter. *)
LEMMA KeptWhenExtended ==
    ASSUME NEW s, NEW t, NEW n \in Nat, NEW m \in Nat, n <= m,
           \A i \in 1 .. n : t[i] = s[i],
           NEW p, Kept(s, n, p)
    PROVE  Kept(t, m, p)
<1>1. PICK i \in 1 .. n : s[i].payload = p /\ \A j \in 1 .. i : s[j].intact
  BY DEF Kept
<1>2. i \in 1 .. m /\ \A j \in 1 .. i : j \in 1 .. n
  OBVIOUS
<1> QED
  BY <1>1, <1>2 DEF Kept

(* In a file that is intact a scan gets to everything. *)
LEMMA KeptWhenIntact ==
    ASSUME NEW s \in Files, Intact(s), NEW p \in Payloads(s)
    PROVE  Kept(s, Len(s), p)
<1>1. Len(s) \in Nat /\ DOMAIN s = 1 .. Len(s)
  BY DEF Files
<1>2. PICK i \in 1 .. Len(s) : p = s[i].payload
  BY <1>1 DEF Payloads
<1>3. \A j \in 1 .. i : j \in DOMAIN s
  BY <1>1, <1>2
<1> QED
  BY <1>1, <1>2, <1>3 DEF Kept, Intact

-----------------------------------------------------------------------------
(* The invariant *)

(* What is in memory and not exposed can be read from the file; a file that a
   compaction has written is intact, and stands for all that is in memory. *)
JournalInv ==
    /\ JournalTypeOK
    /\ AcknowledgedDurable
    /\ \A p \in known \ exposed : Kept(file, Len(file), p)
    /\ step \in {"close", "rename"} => Intact(temp)
    /\ step = "sync" => Intact(file) /\ synced = Len(file) /\ known \subseteq Payloads(file)

(* The payloads of a file are payloads. *)
LEMMA PayloadsType ==
    ASSUME NEW s \in Files
    PROVE  Payloads(s) \subseteq Nat
<1>1. s \in [1 .. Len(s) -> FrameSet]
  BY LenProperties DEF Files
<1> QED
  BY <1>1 DEF Payloads, FrameSet

LEMMA FrameType ==
    ASSUME NEW p \in Nat
    PROVE  Frame(p) \in FrameSet /\ Torn(Frame(p)) \in FrameSet
BY DEF Frame, Torn, FrameSet

(* A scan that gets to the end has found the file intact. *)
LEMMA ScannedIsIntact ==
    ASSUME NEW s \in Files, NEW n \in 0 .. Len(s), Scans(s, n)
    PROVE  Intact(SubSeq(s, 1, n))
<1>1. /\ SubSeq(s, 1, n) \in Files /\ Len(SubSeq(s, 1, n)) = n
      /\ \A i \in 1 .. n : SubSeq(s, 1, n)[i] = s[i]
  BY TruncatedFile
<1>2. DOMAIN SubSeq(s, 1, n) = 1 .. n
  BY <1>1, LenProperties DEF Files
<1> QED
  BY <1>1, <1>2 DEF Intact, Scans

LEMMA InitJournalInv == JournalInit => JournalInv
<1> SUFFICES ASSUME JournalInit PROVE JournalInv
  OBVIOUS
<1>1. << >> \in Files /\ Len(<< >>) = 0
  BY EmptySeq DEF Files
<1>2. JournalTypeOK
  <2>1. \A old \in previous : old.file = << >> /\ old.synced = 0
    BY DEF JournalInit
  <2>2. /\ file \in Files /\ synced \in 0 .. Len(file)
        /\ \A old \in previous : old.file \in Files /\ old.synced \in 0 .. Len(old.file)
    BY <1>1, <2>1 DEF JournalInit
  <2> QED
    BY <1>1, <2>2 DEF JournalInit, JournalTypeOK
<1>3. AcknowledgedDurable
  BY DEF JournalInit, AcknowledgedDurable
<1> QED
  BY <1>2, <1>3 DEF JournalInv, JournalInit

-----------------------------------------------------------------------------
(* Types *)

LEMMA NextTypeOK == JournalTypeOK /\ [JournalNext]_journalVars => JournalTypeOK'
<1> SUFFICES ASSUME JournalTypeOK, [JournalNext]_journalVars PROVE JournalTypeOK'
  OBVIOUS
<1> USE DEF JournalTypeOK, fileVars, memoryVars, ownerVars
<1>0. Len(file) \in Nat /\ Len(temp) \in Nat
  BY LenProperties DEF Files
<1>1. CASE Open
  <2>1. PICK n \in 0 .. Len(file) :
           /\ Scans(file, n)
           /\ \/ n = Len(file) /\ UNCHANGED fileVars
              \/ /\ n < Len(file)
                 /\ file' = SubSeq(file, 1, n) /\ synced' = n
                 /\ NameSynced
           /\ Opened(n)
           /\ known' = Payloads(file')
           /\ step' = "ready"
           /\ UNCHANGED <<temp, fresh, acknowledged, exposed>>
    BY <1>1 DEF Open
  <2>2. file' \in Files /\ synced' \in 0 .. Len(file')
    <3>1. CASE n = Len(file) /\ UNCHANGED fileVars
      BY <3>1
    <3>2. CASE file' = SubSeq(file, 1, n) /\ synced' = n
      <4>1. SubSeq(file, 1, n) \in Files /\ Len(SubSeq(file, 1, n)) = n
        BY TruncatedFile
      <4> QED
        BY <3>2, <4>1
    <3> QED
      BY <2>1, <3>1, <3>2
  <2>3. \A old \in previous' : old.file \in Files /\ old.synced \in 0 .. Len(old.file)
    BY <2>1 DEF NameSynced
  <2>4. known' \subseteq Nat
    BY <2>1, <2>2, PayloadsType
  <2>5. is_open' \in BOOLEAN /\ stale' \in BOOLEAN /\ frame_count' \in Nat
    <3>1. n \in Nat
      BY <1>0
    <3>2. is_open' = TRUE /\ stale' = FALSE /\ frame_count' = n
      BY <2>1 DEF Opened
    <3> QED
      BY <3>1, <3>2
  <2> QED
    BY <2>1, <2>2, <2>3, <2>4, <2>5
<1>2. CASE RepairFails
  <2>1. PICK n \in 0 .. Len(file) :
           /\ file' = SubSeq(file, 1, n)
           /\ synced' = IF synced < n THEN synced ELSE n
    BY <1>2 DEF RepairFails
  <2>2. file' \in Files /\ synced' \in 0 .. Len(file')
    BY <1>0, <2>1, TruncatedFile
  <2> QED
    BY <1>2, <2>2 DEF RepairFails
<1>3. CASE AppendFrame
  <2>1. file' \in Files /\ Len(file') = Len(file) + 1
    BY <1>3, FrameType, AppendedFile DEF AppendFrame
  <2>2. synced' \in 0 .. Len(file')
    BY <1>0, <1>3, <2>1 DEF AppendFrame
  <2>3. \A old \in previous' : old.file \in Files /\ old.synced \in 0 .. Len(old.file)
    BY <1>3 DEF AppendFrame, NameSynced
  <2> QED
    BY <1>3, <2>1, <2>2, <2>3 DEF AppendFrame
<1>4. CASE AppendFails
  <2>1. file' \in Files /\ Len(file') \in {Len(file), Len(file) + 1}
    BY <1>4, FrameType, AppendedFile DEF AppendFails
  <2>2. synced' \in 0 .. Len(file')
    BY <1>0, <1>4, <2>1 DEF AppendFails
  <2> QED
    BY <1>4, <2>1, <2>2 DEF AppendFails
<1>5. CASE Close
  <2>1. synced' \in 0 .. Len(file) /\ file' = file
    BY <1>0, <1>5 DEF Close
  <2>2. \A old \in previous' : old.file \in Files /\ old.synced \in 0 .. Len(old.file)
    BY <1>5 DEF Close, NameSynced
  <2> QED
    BY <1>5, <2>1, <2>2 DEF Close
<1>6. CASE CompactWrite
  <2>1. PICK n \in 0 .. MaxLive : \E live \in [1 .. n -> known] :
           temp' = [i \in 1 .. n + 1 |-> Frame(IF i = n + 1 THEN fresh ELSE live[i])]
    BY <1>6 DEF CompactWrite
  <2>2. PICK live \in [1 .. n -> known] :
           temp' = [i \in 1 .. n + 1 |-> Frame(IF i = n + 1 THEN fresh ELSE live[i])]
    BY <2>1
  <2>3. n \in Nat /\ n + 1 \in Nat
    BY JournalAssumption
  <2>4. \A i \in 1 .. n + 1 : (IF i = n + 1 THEN fresh ELSE live[i]) \in Nat
    <3>1. TAKE i \in 1 .. n + 1
    <3>2. CASE i = n + 1
      BY <3>2
    <3>3. CASE i # n + 1
      <4>1. i \in 1 .. n
        BY <2>3, <3>3
      <4>2. live[i] \in known
        BY <4>1
      <4> QED
        BY <3>3, <4>2
    <3> QED
      BY <3>2, <3>3
  <2>5. temp' \in [1 .. n + 1 -> FrameSet]
    BY <2>2, <2>4, FrameType
  <2>6. temp' \in Files
    BY <2>3, <2>5, FileOfFrames
  <2> QED
    BY <1>6, <2>6 DEF CompactWrite
<1>7. CASE CompactClose
  BY <1>7 DEF CompactClose
<1>8. CASE CompactRename
  <2>1. CASE step' = "sync"
    <3>1. /\ file' = temp /\ synced' = Len(temp)
          /\ previous' = previous \cup {[file |-> file, synced |-> synced]}
          /\ known' = Payloads(temp)
          /\ acknowledged' = acknowledged \cap Payloads(temp)
          /\ exposed' = exposed \cap Payloads(temp)
          /\ UNCHANGED <<memoryVars, temp, fresh>>
      BY <1>8, <2>1 DEF CompactRename
    <3>2. \A old \in previous' : old.file \in Files /\ old.synced \in 0 .. Len(old.file)
      BY <3>1
    <3>3. Payloads(temp) \subseteq Nat
      BY PayloadsType
    <3> QED
      BY <1>0, <2>1, <3>1, <3>2, <3>3
  <2>2. CASE step' # "sync"
    BY <1>8, <2>2 DEF CompactRename
  <2> QED
    BY <2>1, <2>2
<1>9. CASE CompactSync
  BY <1>9, PayloadsType DEF CompactSync
<1>10. CASE CompactReopen
  BY <1>0, <1>10 DEF CompactReopen, Opened
<1>11. CASE ProcessCrash
  BY <1>11, EmptySeq DEF ProcessCrash, Down, Files
<1>12. CASE PowerLoss
  <2>1. PICK old \in {[file |-> file, synced |-> synced]} \cup previous : file' \in Survivors(old)
    BY <1>12 DEF PowerLoss
  <2>2. old.file \in Files /\ old.synced \in 0 .. Len(old.file)
    <3>1. CASE old \in previous
      BY <3>1
    <3>2. CASE old = [file |-> file, synced |-> synced]
      BY <3>2
    <3> QED
      BY <2>1, <3>1, <3>2
  <2>3. file' \in Files
    BY <2>1, <2>2, SurvivingFile
  <2>4. Len(file') \in Nat
    BY <2>3, LenProperties DEF Files
  <2>5. << >> \in Files
    BY EmptySeq DEF Files
  <2>6. synced' \in 0 .. Len(file')
    BY <1>12, <2>4 DEF PowerLoss
  <2>7. previous' = {}
    BY <1>12 DEF PowerLoss
  <2> QED
    BY <1>12, <2>3, <2>5, <2>6, <2>7 DEF PowerLoss, Down
<1>13. CASE UNCHANGED journalVars
  BY <1>13 DEF journalVars
<1> QED
  BY <1>1, <1>2, <1>3, <1>4, <1>5, <1>6, <1>7, <1>8, <1>9, <1>10, <1>11, <1>12, <1>13
     DEF JournalNext

(* The state of the journal is well formed, whatever fails and whenever the
   power is lost: in particular no more of a file is counted as synced than
   there is. *)
THEOREM JournalTypes == JournalSpec => []JournalTypeOK
<1>1. JournalInit => JournalTypeOK
  BY InitJournalInv DEF JournalInv
<1> QED
  BY <1>1, NextTypeOK, PTL DEF JournalSpec

-----------------------------------------------------------------------------
(* What was acknowledged survives *)

(* The current file is one of the files that a crash can leave. *)
LEMMA CurrentIsDurable ==
    ASSUME AcknowledgedDurable, NEW p \in acknowledged \ exposed
    PROVE  /\ Kept(file, synced, p)
           /\ \A old \in previous : Kept(old.file, old.synced, p)
<1> DEFINE current == [file |-> file, synced |-> synced]
<1>1. \A old \in previous \cup {current} : Kept(old.file, old.synced, p)
  BY DEF AcknowledgedDurable, Holdings
<1>2. Kept(current.file, current.synced, p)
  BY <1>1
<1>3. current.file = file /\ current.synced = synced
  OBVIOUS
<1> QED
  BY <1>1, <1>2, <1>3 DEF Kept

LEMMA NextJournalInv ==
    ASSUME SyncsName = TRUE, JournalInv, [JournalNext]_journalVars
    PROVE  JournalInv'
<1> USE DEF fileVars, memoryVars, ownerVars
<1>0. JournalTypeOK /\ JournalTypeOK'
  BY NextTypeOK DEF JournalInv
<1>a. /\ file \in Files /\ Len(file) \in Nat /\ synced \in 0 .. Len(file)
      /\ file' \in Files /\ Len(file') \in Nat /\ fresh \in Nat
      /\ temp \in Files /\ temp' \in Files
  BY <1>0, LenProperties DEF JournalTypeOK, Files
<1>b. /\ \A p \in acknowledged \ exposed : Kept(file, synced, p)
      /\ \A old \in previous : \A p \in acknowledged \ exposed : Kept(old.file, old.synced, p)
  BY CurrentIsDurable DEF JournalInv
<1>c. \A p \in known \ exposed : Kept(file, Len(file), p)
  BY DEF JournalInv
<1> DEFINE Durable1 == \A p \in acknowledged' \ exposed' : Kept(file', synced', p)
           Durable2 == \A old \in previous' : \A p \in acknowledged' \ exposed' :
                          Kept(old.file, old.synced, p)
           Known1   == \A p \in known' \ exposed' : Kept(file', Len(file'), p)
           Temp1    == step' \in {"close", "rename"} => Intact(temp')
           Sync1    == step' = "sync" =>
                          Intact(file') /\ synced' = Len(file') /\ known' \subseteq Payloads(file')
<1>d. SUFFICES Durable1 /\ Durable2 /\ Known1 /\ Temp1 /\ Sync1
  BY <1>0 DEF JournalInv, AcknowledgedDurable, Holdings
<1>1. CASE Open
  <2>1. PICK n \in 0 .. Len(file) :
           /\ Scans(file, n)
           /\ \/ n = Len(file) /\ UNCHANGED fileVars
              \/ /\ n < Len(file)
                 /\ file' = SubSeq(file, 1, n) /\ synced' = n
                 /\ NameSynced
           /\ known' = Payloads(file')
           /\ step' = "ready"
           /\ UNCHANGED <<temp, fresh, acknowledged, exposed>>
    BY <1>1 DEF Open
  <2>2. file' = SubSeq(file, 1, n) /\ Intact(file')
    BY <1>a, <2>1, ScannedIsIntact, SubSeqFull DEF Files
  <2>3. Known1
    BY <1>a, <2>1, <2>2, KeptWhenIntact
  <2>4. Durable1 /\ Durable2
    <3>1. CASE UNCHANGED fileVars
      BY <1>b, <2>1, <3>1
    <3>2. CASE synced' = n /\ NameSynced
      <4>1. \A p \in acknowledged \ exposed : Kept(SubSeq(file, 1, n), n, p)
        BY <1>a, <1>b, <2>1, KeptWhenTruncated
      <4>2. previous' = {}
        BY <3>2 DEF NameSynced
      <4> QED
        BY <2>1, <2>2, <3>2, <4>1, <4>2
    <3> QED
      BY <2>1, <3>1, <3>2
  <2> QED
    BY <2>1, <2>3, <2>4
<1>2. CASE RepairFails
  <2>1. PICK n \in 0 .. Len(file) :
           /\ Scans(file, n)
           /\ file' = SubSeq(file, 1, n)
           /\ synced' = IF synced < n THEN synced ELSE n
           /\ step' = "down"
           /\ UNCHANGED <<previous, temp, ownerVars>>
    BY <1>2 DEF RepairFails
  <2>2. synced' \in 0 .. n /\ (synced <= synced' \/ n <= synced') /\ Len(file') = n
    BY <1>a, <2>1, TruncatedFile
  <2>3. Durable1
    BY <1>a, <1>b, <2>1, <2>2, KeptWhenTruncated
  <2>4. Known1
    <3>1. n \in 0 .. n /\ Len(file) \in 0 .. Len(file) /\ n <= n
      BY <1>a
    <3> QED
      BY <1>a, <1>c, <2>1, <2>2, <3>1, KeptWhenTruncated
  <2> QED
    BY <1>b, <2>1, <2>3, <2>4
<1>3. CASE AppendFrame
  <2>1. /\ Len(file') = Len(file) + 1
        /\ \A i \in 1 .. Len(file) : file'[i] = file[i]
        /\ file'[Len(file) + 1] = Frame(fresh)
        /\ synced' = Len(file')
    BY <1>3, <1>a, FrameType, AppendedFile DEF AppendFrame
  <2>2. previous' = {}
    BY <1>3 DEF AppendFrame, NameSynced
  <2>3. \A p \in acknowledged \ exposed : Kept(file', Len(file'), p)
    <3>1. synced \in Nat /\ synced <= Len(file') /\ \A i \in 1 .. synced : file'[i] = file[i]
      BY <1>a, <2>1
    <3> QED
      BY <1>a, <1>b, <3>1, KeptWhenExtended
  <2>4. \A p \in known \ exposed : Kept(file', Len(file'), p)
    <3>1. Len(file) <= Len(file')
      BY <1>a, <2>1
    <3> QED
      BY <1>a, <1>c, <2>1, <3>1, KeptWhenExtended
  <2>5. Intact(file) => Kept(file', Len(file'), fresh)
    <3>1. SUFFICES ASSUME Intact(file) PROVE Kept(file', Len(file'), fresh)
      OBVIOUS
    <3>2. \A j \in 1 .. Len(file) + 1 : file'[j].intact
      <4>1. DOMAIN file = 1 .. Len(file)
        BY LenProperties, <1>a DEF Files
      <4>2. \A j \in 1 .. Len(file) : file'[j].intact
        BY <2>1, <3>1, <4>1 DEF Intact
      <4>3. file'[Len(file) + 1].intact
        BY <2>1 DEF Frame
      <4>4. \A j \in 1 .. Len(file) + 1 : j \in 1 .. Len(file) \/ j = Len(file) + 1
        BY <1>a
      <4> QED
        BY <4>2, <4>3, <4>4
    <3>3. file'[Len(file) + 1].payload = fresh
      BY <2>1 DEF Frame
    <3> QED
      BY <1>a, <2>1, <3>2, <3>3 DEF Kept
  <2>6. /\ known' = known \cup {fresh}
        /\ acknowledged' = acknowledged \cup known \cup {fresh}
        /\ exposed \subseteq exposed'
        /\ fresh \notin exposed' => Intact(file)
        /\ step' = "ready"
    BY <1>3 DEF AppendFrame
  <2>7. \A p \in acknowledged' \ exposed' : Kept(file', Len(file'), p)
    BY <2>3, <2>4, <2>5, <2>6
  <2>8. Durable1 /\ Durable2 /\ Known1
    BY <2>1, <2>2, <2>6, <2>7
  <2> QED
    BY <2>6, <2>8
<1>4. CASE AppendFails
  <2>1. /\ Len(file') \in {Len(file), Len(file) + 1}
        /\ \A i \in 1 .. Len(file) : file'[i] = file[i]
    <3>1. file' = file \/ \E f \in FrameSet : file' = Append(file, f)
      BY <1>4, <1>a, FrameType DEF AppendFails
    <3>2. CASE file' = file
      BY <3>2
    <3>3. CASE \E f \in FrameSet : file' = Append(file, f)
      <4>1. PICK f \in FrameSet : file' = Append(file, f)
        BY <3>3
      <4>2. /\ Len(Append(file, f)) = Len(file) + 1
            /\ \A i \in 1 .. Len(file) : Append(file, f)[i] = file[i]
        BY <1>a, AppendedFile
      <4> QED
        BY <4>1, <4>2
    <3> QED
      BY <3>1, <3>2, <3>3
  <2>2. /\ synced \in Nat /\ synced <= synced /\ \A i \in 1 .. synced : file'[i] = file[i]
        /\ Len(file) <= Len(file')
    BY <1>a, <2>1
  <2>3. \A p \in acknowledged \ exposed : Kept(file', synced, p)
    BY <1>b, <2>2, KeptWhenExtended
  <2>4. \A p \in known \ exposed : Kept(file', Len(file'), p)
    BY <1>a, <1>c, <2>1, <2>2, KeptWhenExtended
  <2>5. /\ UNCHANGED <<synced, previous, known, acknowledged, exposed>>
        /\ step' = "ready"
    BY <1>4 DEF AppendFails
  <2> QED
    BY <1>b, <2>3, <2>4, <2>5
<1>5. CASE Close
  <2>1. /\ UNCHANGED <<file, known, acknowledged, exposed>>
        /\ step' = "down"
        /\ previous' \in {previous, {}}
        /\ synced' \in Nat /\ synced <= synced'
    BY <1>5, <1>a DEF Close, NameSynced
  <2>2. synced \in Nat /\ \A i \in 1 .. synced : file[i] = file[i]
    BY <1>a
  <2>3. Durable1
    BY <1>b, <2>1, <2>2, KeptWhenExtended
  <2> QED
    BY <1>b, <1>c, <2>1, <2>3
<1>6. CASE CompactWrite
  <2>1. /\ UNCHANGED <<file, synced, previous, known, acknowledged, exposed>>
        /\ step' = "close"
    BY <1>6 DEF CompactWrite
  <2>2. PICK n \in 0 .. MaxLive : \E live \in [1 .. n -> known] :
           temp' = [i \in 1 .. n + 1 |-> Frame(IF i = n + 1 THEN fresh ELSE live[i])]
    BY <1>6 DEF CompactWrite
  <2>3. Intact(temp')
    BY <2>2 DEF Intact, Frame
  <2> QED
    BY <1>b, <1>c, <2>1, <2>3
<1>7. CASE CompactClose
  <2>1. /\ UNCHANGED <<file, synced, previous, temp, known, acknowledged, exposed>>
        /\ step = "close" /\ step' \in {"rename", "ready"}
    BY <1>7 DEF CompactClose
  <2>2. Intact(temp)
    BY <2>1 DEF JournalInv
  <2> QED
    BY <1>b, <1>c, <2>1, <2>2
<1>8. CASE CompactRename
  <2>1. CASE step' = "sync"
    <3>1. /\ file' = temp /\ synced' = Len(temp)
          /\ previous' = previous \cup {[file |-> file, synced |-> synced]}
          /\ known' = Payloads(temp)
          /\ acknowledged' = acknowledged \cap Payloads(temp)
          /\ exposed' = exposed \cap Payloads(temp)
          /\ step = "rename"
      BY <1>8, <2>1 DEF CompactRename
    <3>2. Intact(temp)
      BY <3>1 DEF JournalInv
    <3>3. \A p \in Payloads(temp) : Kept(temp, Len(temp), p)
      BY <1>a, <3>2, KeptWhenIntact
    <3>4. Durable1 /\ Known1
      BY <3>1, <3>3
    <3>5. acknowledged' \ exposed' \subseteq acknowledged \ exposed
      BY <3>1
    <3>6. Durable2
      BY <1>b, <3>1, <3>5
    <3> QED
      BY <2>1, <3>1, <3>2, <3>4, <3>6
  <2>2. CASE step' # "sync"
    <3>1. UNCHANGED <<file, synced, previous, known, acknowledged, exposed>> /\ step' = "ready"
      BY <1>8, <2>2 DEF CompactRename
    <3> QED
      BY <1>b, <1>c, <3>1
  <2> QED
    BY <2>1, <2>2
<1>9. CASE CompactSync
  <2>1. UNCHANGED <<file, synced, known>> /\ step = "sync"
    BY <1>9 DEF CompactSync
  <2>2. Intact(file) /\ synced = Len(file) /\ known \subseteq Payloads(file)
    BY <2>1 DEF JournalInv
  <2>3. \A p \in Payloads(file) : Kept(file, Len(file), p)
    BY <1>a, <2>2, KeptWhenIntact
  <2>4. CASE step' = "reopen"
    <3>1. previous' = {} /\ acknowledged' = Payloads(file) /\ exposed' = {}
      BY <1>9, <2>4 DEF CompactSync
    <3> QED
      BY <2>1, <2>2, <2>3, <2>4, <3>1
  <2>5. CASE step' # "reopen"
    <3>1. UNCHANGED <<previous, acknowledged, exposed>> /\ step' = "ready"
      BY <1>9, <2>5 DEF CompactSync
    <3> QED
      BY <1>b, <1>c, <2>1, <3>1
  <2> QED
    BY <2>4, <2>5
<1>10. CASE CompactReopen
  <2>1. UNCHANGED <<file, synced, previous, known, acknowledged, exposed>> /\ step' = "ready"
    BY <1>10 DEF CompactReopen
  <2> QED
    BY <1>b, <1>c, <2>1
<1>11. CASE ProcessCrash
  <2>1. UNCHANGED <<file, synced, previous, acknowledged, exposed>> /\ step' = "down" /\ known' = {}
    BY <1>11 DEF ProcessCrash, Down
  <2> QED
    BY <1>b, <2>1
<1>12. CASE PowerLoss
  <2>1. PICK old \in {[file |-> file, synced |-> synced]} \cup previous : file' \in Survivors(old)
    BY <1>12 DEF PowerLoss
  <2>2. /\ old.file \in Files /\ old.synced \in 0 .. Len(old.file)
        /\ \A p \in acknowledged \ exposed : Kept(old.file, old.synced, p)
    <3>1. CASE old \in previous
      BY <1>0, <1>b, <3>1 DEF JournalTypeOK
    <3>2. CASE old = [file |-> file, synced |-> synced]
      BY <1>a, <1>b, <3>2
    <3> QED
      BY <2>1, <3>1, <3>2
  <2>3. /\ Len(file') \in old.synced .. Len(old.file)
        /\ \A i \in 1 .. old.synced : file'[i] = old.file[i]
    BY <2>1, <2>2, SurvivingFile
  <2>4. Len(old.file) \in Nat
    BY <2>2, LenProperties DEF Files
  <2>5. old.synced \in Nat /\ old.synced <= Len(file')
    BY <2>2, <2>3, <2>4
  <2>6. \A p \in acknowledged \ exposed : Kept(file', Len(file'), p)
    BY <1>a, <2>2, <2>3, <2>5, KeptWhenExtended
  <2>7. /\ synced' = Len(file') /\ previous' = {} /\ known' = {} /\ step' = "down"
        /\ UNCHANGED <<acknowledged, exposed>>
    BY <1>12 DEF PowerLoss, Down
  <2> QED
    BY <2>6, <2>7
<1>13. CASE UNCHANGED journalVars
  <2>1. UNCHANGED <<file, synced, previous, step, temp, known, acknowledged, exposed>>
    BY <1>13 DEF journalVars
  <2> QED
    BY <1>b, <1>c, <2>1 DEF JournalInv
<1> QED
  BY <1>1, <1>2, <1>3, <1>4, <1>5, <1>6, <1>7, <1>8, <1>9, <1>10, <1>11, <1>12, <1>13
     DEF JournalNext

LEMMA JournalInvariant ==
    ASSUME SyncsName = TRUE
    PROVE  JournalSpec => []JournalInv
<1>1. JournalInv /\ [JournalNext]_journalVars => JournalInv'
  BY NextJournalInv
<1> QED
  BY <1>1, InitJournalInv, PTL DEF JournalSpec

(* Where syncing a file makes its name durable: whatever appends, repairs and
   compactions fail, and however often the process or the power does, a
   payload that append() has acknowledged on an intact file can be read from
   each file that a crash may leave under the journal's name. *)
THEOREM AcknowledgedSurvives ==
    ASSUME SyncsName = TRUE
    PROVE  JournalSpec => []AcknowledgedDurable
<1>1. JournalInv => AcknowledgedDurable
  BY DEF JournalInv
<1> QED
  BY <1>1, JournalInvariant, PTL
=============================================================================
