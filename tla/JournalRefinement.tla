------------------------- MODULE JournalRefinement --------------------------
(***************************************************************************)
(* The journal implements the log of DurableLog, for files of every        *)
(* length.  A step of the log is found for each step of the journal; what  *)
(* the scan of open() accepts of a file is the log.                        *)
(***************************************************************************)
EXTENDS JournalProofs, WellFoundedInduction

-----------------------------------------------------------------------------
(* Where a scan ends *)

(* A scan ends somewhere: at the first frame that is not intact, or behind
   the last one. *)
LEMMA ScanEnds ==
    ASSUME NEW s \in Files
    PROVE  \E n \in 0 .. Len(s) : Scans(s, n)
<1>1. Len(s) \in Nat
  BY LenProperties DEF Files
<1>2. CASE \A i \in 1 .. Len(s) : s[i].intact
  BY <1>1, <1>2 DEF Scans
<1>3. CASE \E i \in 1 .. Len(s) : ~s[i].intact
  <2> DEFINE S == {i \in 1 .. Len(s) : ~s[i].intact}
  <2>1. S \in SUBSET Nat /\ S # {}
    BY <1>1, <1>3
  <2> HIDE DEF S
  <2>2. PICK m \in S : \A x \in S : m <= x
    <3> DEFINE R == OpToRel(<, Nat)
    <3>1. IsWellFoundedOn(R, Nat) /\ \A x, y \in Nat : y < x => <<y, x>> \in R
      BY NatLessThanWellFounded DEF OpToRel
    <3> HIDE DEF R
    <3>2. PICK m \in S : \A x \in S : ~(<<x, m>> \in R)
      BY <2>1, <3>1, WFMin
    <3>3. \A x \in S : ~(x < m)
      BY <2>1, <3>1, <3>2
    <3> QED
      BY <2>1, <3>2, <3>3
  <2>3. m \in 1 .. Len(s) /\ ~s[m].intact
    BY <2>2 DEF S
  <2>4. m - 1 \in 0 .. Len(s) /\ (m - 1) + 1 = m
    BY <1>1, <2>3
  <2>5. ASSUME NEW i \in 1 .. m - 1 PROVE s[i].intact
    <3>1. i \in 1 .. Len(s) /\ ~(m <= i)
      BY <1>1, <2>3
    <3> QED
      BY <2>2, <3>1 DEF S
  <2>6. Scans(s, m - 1)
    BY <2>3, <2>4, <2>5 DEF Scans
  <2> QED
    BY <2>4, <2>6
<1> QED
  BY <1>2, <1>3

LEMMA GoodScans ==
    ASSUME NEW s \in Files
    PROVE  /\ Good(s) \in 0 .. Len(s) /\ Len(s) \in Nat /\ Good(s) \in Nat
           /\ \A i \in 1 .. Good(s) : s[i].intact
           /\ Good(s) < Len(s) => ~s[Good(s) + 1].intact
<1>1. Good(s) \in 0 .. Len(s) /\ Scans(s, Good(s))
  BY ScanEnds DEF Good
<1>2. Len(s) \in Nat
  BY LenProperties DEF Files
<1> QED
  BY <1>1, <1>2 DEF Scans

(* A scan ends in one place. *)
LEMMA GoodIs ==
    ASSUME NEW s \in Files, NEW n \in 0 .. Len(s),
           \A i \in 1 .. n : s[i].intact,
           n < Len(s) => ~s[n + 1].intact
    PROVE  Good(s) = n
<1>1. /\ Good(s) \in 0 .. Len(s) /\ Len(s) \in Nat /\ Good(s) \in Nat
      /\ \A i \in 1 .. Good(s) : s[i].intact
      /\ Good(s) < Len(s) => ~s[Good(s) + 1].intact
  BY GoodScans
<1>2. ~(Good(s) < n)
  <2>1. SUFFICES ASSUME Good(s) < n PROVE FALSE
    OBVIOUS
  <2>2. Good(s) + 1 \in 1 .. n /\ Good(s) < Len(s)
    BY <1>1, <2>1
  <2> QED
    BY <1>1, <2>2
<1>3. ~(n < Good(s))
  <2>1. SUFFICES ASSUME n < Good(s) PROVE FALSE
    OBVIOUS
  <2>2. n + 1 \in 1 .. Good(s) /\ n < Len(s)
    BY <1>1, <2>1
  <2> QED
    BY <1>1, <2>2
<1> QED
  BY <1>1, <1>2, <1>3

(* A file is intact when the scan gets to its end. *)
LEMMA IntactIsGood ==
    ASSUME NEW s \in Files
    PROVE  Intact(s) <=> Good(s) = Len(s)
<1>1. DOMAIN s = 1 .. Len(s) /\ Len(s) \in Nat
  BY LenProperties DEF Files
<1>2. ASSUME Intact(s) PROVE Good(s) = Len(s)
  <2>1. Len(s) \in 0 .. Len(s) /\ ~(Len(s) < Len(s))
    BY <1>1
  <2>2. \A i \in 1 .. Len(s) : s[i].intact
    BY <1>1, <1>2 DEF Intact
  <2> QED
    BY <2>1, <2>2, GoodIs
<1>3. ASSUME Good(s) = Len(s) PROVE Intact(s)
  BY <1>1, <1>3, GoodScans DEF Intact
<1> QED
  BY <1>2, <1>3

-----------------------------------------------------------------------------
(* The log of a file *)

LEMMA AcceptedType ==
    ASSUME NEW s \in Files
    PROVE  /\ Accepted(s) \in Seq(Nat) /\ Len(Accepted(s)) = Good(s)
           /\ \A i \in 1 .. Good(s) : Accepted(s)[i] = s[i].payload
<1>1. Good(s) \in Nat /\ Good(s) \in 0 .. Len(s) /\ Len(s) \in Nat
  BY GoodScans
<1>2. \A i \in 1 .. Good(s) : s[i] \in FrameSet
  <2>1. s \in [1 .. Len(s) -> FrameSet]
    BY LenProperties DEF Files
  <2>2. \A i \in 1 .. Good(s) : i \in 1 .. Len(s)
    BY <1>1
  <2> QED
    BY <2>1, <2>2
<1>3. Accepted(s) \in [1 .. Good(s) -> Nat]
  BY <1>2 DEF Accepted, FrameSet
<1>4. Accepted(s) \in Seq(Nat)
  BY <1>1, <1>3, SeqDef
<1>5. Len(Accepted(s)) \in Nat /\ DOMAIN Accepted(s) = 1 .. Len(Accepted(s))
  BY <1>4, LenProperties
<1>6. 1 .. Len(Accepted(s)) = 1 .. Good(s)
  BY <1>3, <1>5
<1>7. Len(Accepted(s)) = Good(s)
  BY <1>1, <1>5, <1>6
<1> QED
  BY <1>4, <1>7 DEF Accepted

(* Two files with the same frames where a scan gets have the same log. *)
LEMMA SameAccepted ==
    ASSUME NEW s \in Files, NEW t \in Files, Good(t) = Good(s),
           \A i \in 1 .. Good(s) : t[i] = s[i]
    PROVE  Accepted(t) = Accepted(s)
BY DEF Accepted

(* The repair keeps the log. *)
LEMMA TruncatedLog ==
    ASSUME NEW s \in Files, NEW n \in 0 .. Len(s), Scans(s, n)
    PROVE  LET t == SubSeq(s, 1, n)
           IN  /\ t \in Files /\ Good(s) = n /\ Good(t) = n /\ Len(t) = n
               /\ Accepted(t) = Accepted(s) /\ Intact(t)
<1> DEFINE t == SubSeq(s, 1, n)
<1>1. t \in Files /\ Len(t) = n /\ \A i \in 1 .. n : t[i] = s[i]
  BY TruncatedFile
<1>2. Good(s) = n
  BY GoodIs DEF Scans
<1>3. Good(t) = n /\ Intact(t)
  BY <1>1, ScannedIsIntact, IntactIsGood
<1> QED
  BY <1>1, <1>2, <1>3, SameAccepted

(* A frame behind one that is not intact does not count; one behind an intact
   file does when it is intact itself. *)
LEMMA AppendedLog ==
    ASSUME NEW s \in Files, NEW f \in FrameSet
    PROVE  LET t == Append(s, f)
           IN  /\ t \in Files /\ Len(t) = Len(s) + 1
               /\ Intact(t) <=> Intact(s) /\ f.intact
               /\ Intact(t) => Good(t) = Good(s) + 1
               /\ ~Intact(t) => Good(t) = Good(s)
               /\ \A i \in 1 .. Good(s) : t[i] = s[i]
<1> DEFINE t == Append(s, f)
<1>1. /\ t \in Files /\ Len(t) = Len(s) + 1
      /\ \A i \in 1 .. Len(s) : t[i] = s[i]
      /\ t[Len(s) + 1] = f
  BY AppendedFile
<1> HIDE DEF t
<1>2. /\ Good(s) \in 0 .. Len(s) /\ Len(s) \in Nat /\ Good(s) \in Nat
      /\ \A i \in 1 .. Good(s) : s[i].intact
      /\ Good(s) < Len(s) => ~s[Good(s) + 1].intact
  BY GoodScans
<1>3. \A i \in 1 .. Good(s) : t[i] = s[i]
  <2>1. \A i \in 1 .. Good(s) : i \in 1 .. Len(s)
    BY <1>2
  <2> QED
    BY <1>1, <2>1
<1>4. CASE Intact(s) /\ f.intact
  <2>1. Good(s) = Len(s)
    BY <1>4, IntactIsGood
  <2>2. \A i \in 1 .. Len(s) + 1 : t[i].intact
    <3>1. \A i \in 1 .. Len(s) + 1 : i \in 1 .. Len(s) \/ i = Len(s) + 1
      BY <1>2
    <3>2. \A i \in 1 .. Len(s) : t[i].intact
      BY <1>2, <1>3, <2>1
    <3> QED
      BY <1>1, <1>4, <3>1, <3>2
  <2>3. Len(s) + 1 \in 0 .. Len(t) /\ ~(Len(s) + 1 < Len(t))
    BY <1>1, <1>2
  <2>4. Good(t) = Len(s) + 1
    BY <1>1, <2>2, <2>3, GoodIs
  <2>5. Intact(t)
    BY <1>1, <2>4, IntactIsGood
  <2> QED
    BY <1>1, <1>3, <1>4, <2>1, <2>4, <2>5 DEF t
<1>5. CASE ~(Intact(s) /\ f.intact)
  <2>1. Good(s) \in 0 .. Len(t) /\ Good(s) < Len(t)
    BY <1>1, <1>2
  <2>2. ~t[Good(s) + 1].intact
    <3>1. CASE Good(s) < Len(s)
      <4>1. Good(s) + 1 \in 1 .. Len(s)
        BY <1>2, <3>1
      <4> QED
        BY <1>1, <1>2, <3>1, <4>1
    <3>2. CASE Good(s) = Len(s)
      BY <1>1, <1>5, <3>2, IntactIsGood
    <3> QED
      BY <1>2, <3>1, <3>2
  <2>3. Good(t) = Good(s)
    BY <1>1, <1>2, <1>3, <2>1, <2>2, GoodIs
  <2>4. ~Intact(t)
    BY <1>1, <2>1, <2>3, IntactIsGood, <1>2
  <2> QED
    BY <1>1, <1>3, <1>5, <2>3, <2>4 DEF t
<1> QED
  BY <1>4, <1>5

(* A prefix of a log, by its entries. *)
LEMMA PrefixIs ==
    ASSUME NEW q \in Seq(Nat), NEW m \in 0 .. Len(q), NEW t \in Seq(Nat), Len(t) = m,
           \A i \in 1 .. m : t[i] = q[i]
    PROVE  t = SubSeq(q, 1, m)
<1>1. Len(q) \in Nat /\ q \in [1 .. Len(q) -> Nat]
  BY LenProperties
<1>2. m \in Int /\ 1 \in Int /\ m - 1 + 1 = m /\ \A i \in 1 .. m : q[i] \in Nat /\ 1 + i - 1 = i
  BY <1>1
<1>3. /\ SubSeq(q, 1, m) \in Seq(Nat)
      /\ Len(SubSeq(q, 1, m)) = IF 1 <= m THEN m - 1 + 1 ELSE 0
      /\ \A i \in 1 .. m - 1 + 1 : SubSeq(q, 1, m)[i] = q[1 + i - 1]
  BY <1>2, SubSeqProperties
<1>4. Len(SubSeq(q, 1, m)) = m /\ \A i \in 1 .. m : SubSeq(q, 1, m)[i] = q[i]
  BY <1>2, <1>3
<1> QED
  BY <1>3, <1>4, SeqEqual

(* What a power loss leaves of a file is a prefix of its log, with all that was
   safe. *)
LEMMA SurvivingLog ==
    ASSUME NEW old, old.file \in Files, old.synced \in 0 .. Len(old.file),
           NEW t \in Survivors(old)
    PROVE  /\ t \in Files
           /\ Good(t) \in Safe(old.file, old.synced) .. Good(old.file)
           /\ Accepted(t) = SubSeq(Accepted(old.file), 1, Good(t))
<1> DEFINE s == old.file
           k == old.synced
<1>1. /\ t \in Files /\ Len(t) \in k .. Len(s)
      /\ \A i \in 1 .. k : t[i] = s[i]
  BY SurvivingFile
<1>2. PICK n \in k .. Len(s), lost \in SUBSET (k + 1 .. Len(s)) :
         t = [i \in 1 .. n |-> IF i \in lost THEN Torn(s[i]) ELSE s[i]]
  BY DEF Survivors
<1>3. /\ Good(s) \in 0 .. Len(s) /\ Len(s) \in Nat /\ Good(s) \in Nat
      /\ \A i \in 1 .. Good(s) : s[i].intact
      /\ Good(s) < Len(s) => ~s[Good(s) + 1].intact
  BY GoodScans
<1>4. /\ Good(t) \in 0 .. Len(t) /\ Len(t) \in Nat /\ Good(t) \in Nat
      /\ \A i \in 1 .. Good(t) : t[i].intact
      /\ Good(t) < Len(t) => ~t[Good(t) + 1].intact
  BY <1>1, GoodScans
<1>5. DOMAIN t = 1 .. Len(t)
  BY <1>1, LenProperties DEF Files
<1>6. ASSUME NEW i \in 1 .. Len(t), t[i].intact
      PROVE  t[i] = s[i]
  <2>1. i \in 1 .. n
    BY <1>2, <1>5
  <2>2. i \in 1 .. Len(s)
    BY <1>1, <1>3, <1>4
  <2>3. s[i] \in FrameSet
    <3>1. s \in [1 .. Len(s) -> FrameSet]
      BY LenProperties DEF Files
    <3> QED
      BY <2>2, <3>1
  <2>4. ~Torn(s[i]).intact
    BY <2>3 DEF Torn, FrameSet
  <2> QED
    BY <1>2, <1>6, <2>1, <2>4
<1>7. \A i \in 1 .. Good(t) : i \in 1 .. Len(t) /\ i \in 1 .. Len(s) /\ t[i] = s[i]
  <2>1. \A i \in 1 .. Good(t) : i \in 1 .. Len(t) /\ i \in 1 .. Len(s)
    BY <1>1, <1>3, <1>4
  <2> QED
    BY <1>4, <1>6, <2>1
<1>8. Good(t) <= Good(s)
  <2>1. SUFFICES ASSUME Good(s) < Good(t) PROVE FALSE
    BY <1>3, <1>4
  <2>2. Good(s) + 1 \in 1 .. Good(t)
    BY <1>3, <1>4, <2>1
  <2>3. Good(s) < Len(s)
    BY <1>3, <1>7, <2>2
  <2> QED
    BY <1>3, <1>4, <1>7, <2>2, <2>3
<1>9. Safe(s, k) <= Good(t)
  <2>1. SUFFICES ASSUME Good(t) < k, Good(t) < Good(s) PROVE FALSE
    <3>1. k \in Nat
      BY <1>3
    <3> QED
      BY <1>3, <1>4, <3>1 DEF Safe
  <2>2. Good(t) + 1 \in 1 .. k /\ Good(t) + 1 \in 1 .. Good(s) /\ Good(t) < Len(t)
    BY <1>1, <1>3, <1>4, <2>1
  <2> QED
    BY <1>1, <1>3, <1>4, <2>2
<1>10. Safe(s, k) \in Nat
  BY <1>3 DEF Safe
<1>11. Accepted(t) = SubSeq(Accepted(s), 1, Good(t))
  <2>1. /\ Accepted(s) \in Seq(Nat) /\ Len(Accepted(s)) = Good(s)
        /\ \A i \in 1 .. Good(s) : Accepted(s)[i] = s[i].payload
    BY AcceptedType
  <2>2. /\ Accepted(t) \in Seq(Nat) /\ Len(Accepted(t)) = Good(t)
        /\ \A i \in 1 .. Good(t) : Accepted(t)[i] = t[i].payload
    BY <1>1, AcceptedType
  <2>3. \A i \in 1 .. Good(t) : i \in 1 .. Good(s)
    BY <1>3, <1>4, <1>8
  <2>4. \A i \in 1 .. Good(t) : Accepted(t)[i] = Accepted(s)[i]
    BY <1>7, <2>1, <2>2, <2>3
  <2>5. Good(t) \in 0 .. Len(Accepted(s))
    BY <1>3, <1>4, <1>8, <2>1
  <2> QED
    BY <2>1, <2>2, <2>4, <2>5, PrefixIs
<1> QED
  BY <1>1, <1>3, <1>4, <1>8, <1>9, <1>10, <1>11

(* A payload behind an intact file extends its log by one entry. *)
LEMMA ExtendedLog ==
    ASSUME NEW s \in Files, NEW f \in FrameSet, Intact(Append(s, f))
    PROVE  /\ Accepted(Append(s, f)) \in Seq(Nat)
           /\ Len(Accepted(Append(s, f))) = Len(Accepted(s)) + 1
           /\ SubSeq(Accepted(Append(s, f)), 1, Len(Accepted(s))) = Accepted(s)
<1> DEFINE t == Append(s, f)
<1>1. t \in Files /\ Good(t) = Good(s) + 1 /\ \A i \in 1 .. Good(s) : t[i] = s[i]
  BY AppendedLog
<1> HIDE DEF t
<1>2. /\ Accepted(s) \in Seq(Nat) /\ Len(Accepted(s)) = Good(s)
      /\ \A i \in 1 .. Good(s) : Accepted(s)[i] = s[i].payload
  BY AcceptedType
<1>3. /\ Accepted(t) \in Seq(Nat) /\ Len(Accepted(t)) = Good(t)
      /\ \A i \in 1 .. Good(t) : Accepted(t)[i] = t[i].payload
  BY <1>1, AcceptedType
<1>4. Good(s) \in Nat
  BY GoodScans
<1>5. \A i \in 1 .. Good(s) : i \in 1 .. Good(t)
  BY <1>1, <1>4
<1>6. \A i \in 1 .. Good(s) : Accepted(s)[i] = Accepted(t)[i]
  BY <1>1, <1>2, <1>3, <1>5
<1>7. Good(s) \in 0 .. Len(Accepted(t))
  BY <1>1, <1>3, <1>4
<1>8. Accepted(s) = SubSeq(Accepted(t), 1, Good(s))
  BY <1>2, <1>3, <1>6, <1>7, PrefixIs
<1> QED
  BY <1>1, <1>2, <1>3, <1>8 DEF t

-----------------------------------------------------------------------------
(* The refinement *)

\* The file that a compaction has written is intact.
RefinementInv == JournalTypeOK /\ (step \in {"close", "rename"} => Intact(temp))

LEMMA RefinementInvariant == JournalSpec => []RefinementInv
<1>1. JournalInit => RefinementInv
  BY InitJournalInv DEF JournalInv, RefinementInv
<1>2. RefinementInv /\ [JournalNext]_journalVars => RefinementInv'
  <2> SUFFICES ASSUME RefinementInv, [JournalNext]_journalVars PROVE RefinementInv'
    OBVIOUS
  <2>1. JournalTypeOK'
    BY NextTypeOK DEF RefinementInv
  <2>2. CASE CompactWrite
    <3>1. PICK n \in 0 .. MaxLive : \E live \in [1 .. n -> known] :
             temp' = [i \in 1 .. n + 1 |-> Frame(IF i = n + 1 THEN fresh ELSE live[i])]
      BY <2>2 DEF CompactWrite
    <3>2. Intact(temp')
      BY <3>1 DEF Intact, Frame
    <3> QED
      BY <2>1, <3>2 DEF RefinementInv
  <2>3. CASE CompactClose
    BY <2>1, <2>3 DEF CompactClose, RefinementInv
  <2>4. CASE UNCHANGED journalVars
    BY <2>1, <2>4 DEF journalVars, RefinementInv
  <2>5. CASE ~CompactWrite /\ ~CompactClose /\ JournalNext
    <3>1. step' \notin {"close", "rename"}
      BY <2>5 DEF JournalNext, Open, RepairFails, AppendFrame, AppendFails, Close, CompactRename,
                  CompactSync, CompactReopen, ProcessCrash, PowerLoss, Down
    <3> QED
      BY <2>1, <3>1 DEF RefinementInv
  <2> QED
    BY <2>2, <2>3, <2>4, <2>5
<1> QED
  BY <1>1, <1>2, PTL DEF JournalSpec

\* The logs of the files that a power loss may bring back.
Standby(files) == {[log |-> Accepted(old.file), safe |-> Safe(old.file, old.synced)] : old \in files}

LEMMA RefinementInit == JournalInit => Log!LogInit
<1> SUFFICES ASSUME JournalInit PROVE Log!LogInit
  OBVIOUS
<1>1. << >> \in Files /\ Len(<< >>) = 0
  BY EmptySeq DEF Files
<1>2. Good(<< >>) = 0
  BY <1>1, GoodScans
<1>3. Accepted(<< >>) = << >>
  BY <1>1, <1>2, AcceptedType, EmptySeq
<1>4. Safe(<< >>, 0) = 0
  BY <1>2 DEF Safe
<1>5. Intact(<< >>)
  BY <1>1, <1>2, IntactIsGood
<1>6. \A old \in previous : old.file = << >> /\ old.synced = 0
  BY DEF JournalInit
<1> QED
  BY <1>3, <1>4, <1>5, <1>6 DEF JournalInit, Log!LogInit, Log!Current

LEMMA RefinementStep ==
    ASSUME RefinementInv, RefinementInv', [JournalNext]_journalVars
    PROVE  [Log!LogNext]_(Log!logVars)
<1> USE DEF fileVars, memoryVars, ownerVars
<1>0. SUFFICES Log!LogNext \/ UNCHANGED Log!logVars
  OBVIOUS
<1>a. /\ file \in Files /\ Len(file) \in Nat /\ synced \in 0 .. Len(file)
      /\ file' \in Files /\ Len(file') \in Nat /\ fresh \in Nat
      /\ temp \in Files /\ synced \in Nat
  BY LenProperties DEF RefinementInv, JournalTypeOK, Files
<1>b. Good(file) \in 0 .. Len(file) /\ Good(file) \in Nat /\ Len(Accepted(file)) = Good(file)
  BY <1>a, GoodScans, AcceptedType
<1>c. ASSUME UNCHANGED <<file, synced, previous>> PROVE UNCHANGED Log!logVars
  BY <1>c DEF Log!logVars
<1>d. Standby({}) = {}
  BY DEF Standby
<1>e. NameSynced => Standby(previous') \in {Standby(previous), {}}
  BY <1>d DEF NameSynced
<1>1. CASE Open \/ RepairFails
  <2>1. PICK n \in 0 .. Len(file) :
           /\ Scans(file, n)
           /\ \/ n = Len(file) /\ UNCHANGED <<file, synced, previous>>
              \/ /\ file' = SubSeq(file, 1, n)
                 /\ \/ synced' = n
                    \/ synced' = IF synced < n THEN synced ELSE n
                 /\ NameSynced \/ UNCHANGED previous
    BY <1>1 DEF Open, RepairFails
  <2>2. CASE UNCHANGED <<file, synced, previous>>
    BY <1>c, <2>2
  <2>3. CASE /\ file' = SubSeq(file, 1, n)
             /\ \/ synced' = n
                \/ synced' = IF synced < n THEN synced ELSE n
             /\ NameSynced \/ UNCHANGED previous
    <3>1. /\ Good(file) = n /\ Good(file') = n /\ Accepted(file') = Accepted(file)
          /\ Intact(file')
      BY <1>a, <2>1, <2>3, TruncatedLog
    <3>2. Safe(file', synced') \in {Safe(file, synced), Len(Accepted(file))}
      BY <1>a, <1>b, <2>1, <2>3, <3>1 DEF Safe
    <3>3. Standby(previous') \in {Standby(previous), {}}
      BY <1>e, <2>3
    <3> QED
      BY <3>1, <3>2, <3>3 DEF Log!LogNext, Log!LogOpen, Log!MaySettle, Standby
  <2> QED
    BY <2>1, <2>2, <2>3
<1>2. CASE AppendFrame
  <2> DEFINE f == Frame(fresh)
  <2>1. f \in FrameSet /\ f.intact /\ file' = Append(file, f) /\ synced' = Len(file')
    BY <1>2, <1>a, FrameType DEF AppendFrame, Frame
  <2> HIDE DEF f
  <2>2. /\ Len(file') = Len(file) + 1
        /\ Intact(file') <=> Intact(file)
        /\ Intact(file') => Good(file') = Good(file) + 1
        /\ ~Intact(file') => Good(file') = Good(file)
        /\ \A i \in 1 .. Good(file) : file'[i] = file[i]
    BY <1>a, <2>1, AppendedLog
  <2>3. Len(Accepted(file')) = Good(file') /\ Good(file') \in 0 .. Len(file')
    BY <1>a, AcceptedType, GoodScans
  <2>4. Safe(file', synced') = Len(Accepted(file'))
    BY <1>a, <2>1, <2>3 DEF Safe
  <2>5. Standby(previous') \in {Standby(previous), {}}
    BY <1>2, <1>e DEF AppendFrame
  <2>6. CASE Intact(file)
    <3>1. Log!Extended
      BY <1>a, <2>1, <2>2, <2>6, ExtendedLog DEF Log!Extended
    <3> QED
      BY <2>2, <2>4, <2>5, <2>6, <3>1 DEF Log!LogNext, Log!LogAppend, Log!MaySettle, Standby
  <2>7. CASE ~Intact(file)
    <3>1. Accepted(file') = Accepted(file)
      BY <1>a, <2>2, <2>7, SameAccepted
    <3> QED
      BY <2>2, <2>4, <2>5, <2>7, <3>1 DEF Log!LogNext, Log!LogAppend, Log!MaySettle, Standby
  <2> QED
    BY <2>6, <2>7
<1>3. CASE AppendFails
  <2>1. /\ UNCHANGED <<synced, previous>>
        /\ file' = file \/ \E f \in FrameSet : file' = Append(file, f)
    BY <1>3, <1>a, FrameType DEF AppendFails
  <2>2. CASE file' = file
    BY <1>c, <2>1, <2>2
  <2>3. CASE \E f \in FrameSet : file' = Append(file, f)
    <3>1. PICK f \in FrameSet : file' = Append(file, f)
      BY <2>3
    <3>2. /\ Intact(file') <=> Intact(file) /\ f.intact
          /\ Intact(file') => Good(file') = Good(file) + 1
          /\ ~Intact(file') => Good(file') = Good(file)
          /\ \A i \in 1 .. Good(file) : file'[i] = file[i]
      BY <1>a, <3>1, AppendedLog
    <3>3. CASE Intact(file')
      <4>1. Log!Extended
        BY <1>a, <3>1, <3>3, ExtendedLog DEF Log!Extended
      <4>2. Good(file) = Len(file)
        BY <1>a, <3>2, <3>3, IntactIsGood
      <4>3. Safe(file', synced') = Safe(file, synced)
        BY <1>a, <2>1, <3>2, <3>3, <4>2 DEF Safe
      <4> QED
        BY <2>1, <3>2, <3>3, <4>1, <4>3 DEF Log!LogNext, Log!LogAppendFails
    <3>4. CASE ~Intact(file')
      <4>1. Accepted(file') = Accepted(file)
        BY <1>a, <3>2, <3>4, SameAccepted
      <4>2. Safe(file', synced') = Safe(file, synced)
        BY <2>1, <3>2, <3>4 DEF Safe
      <4> QED
        BY <2>1, <3>4, <4>1, <4>2 DEF Log!LogNext, Log!LogAppendFails
    <3> QED
      BY <3>3, <3>4
  <2> QED
    BY <2>1, <2>2, <2>3
<1>4. CASE Close
  <2>1. CASE UNCHANGED <<synced, previous>>
    BY <1>4, <1>c, <2>1 DEF Close
  <2>2. CASE synced' = Len(file) /\ NameSynced
    <3>1. file' = file
      BY <1>4 DEF Close
    <3>2. Safe(file', synced') = Len(Accepted(file))
      BY <1>a, <1>b, <2>2, <3>1 DEF Safe
    <3>3. Standby(previous') \in {Standby(previous), {}}
      BY <1>e, <2>2
    <3>4. CASE Intact(file)
      BY <3>1, <3>2, <3>3, <3>4 DEF Log!LogNext, Log!LogOpen, Log!MaySettle, Standby
    <3>5. CASE ~Intact(file)
      BY <3>1, <3>2, <3>3, <3>5 DEF Log!LogNext, Log!LogAppend, Log!MaySettle, Standby
    <3> QED
      BY <3>4, <3>5
  <2> QED
    BY <1>4, <2>1, <2>2 DEF Close
<1>5. CASE CompactRename
  <2>1. CASE UNCHANGED <<file, synced, previous>>
    BY <1>c, <2>1
  <2>2. CASE /\ file' = temp /\ synced' = Len(temp)
             /\ previous' = previous \cup {[file |-> file, synced |-> synced]}
    <3>1. Intact(temp)
      BY <1>5 DEF CompactRename, RefinementInv
    <3>2. /\ Good(temp) = Len(temp) /\ Len(Accepted(temp)) = Good(temp)
          /\ Accepted(temp) \in Seq(Nat)
      BY <1>a, <3>1, IntactIsGood, AcceptedType
    <3>3. Safe(file', synced') = Len(Accepted(file'))
      BY <2>2, <3>2 DEF Safe
    <3>4. Standby(previous') =
             Standby(previous) \cup {[log |-> Accepted(file), safe |-> Safe(file, synced)]}
      <4> DEFINE new == [file |-> file, synced |-> synced]
      <4>1. Standby(previous \cup {new}) =
               Standby(previous) \cup {[log |-> Accepted(new.file), safe |-> Safe(new.file, new.synced)]}
        BY DEF Standby
      <4>2. new.file = file /\ new.synced = synced
        OBVIOUS
      <4> QED
        BY <2>2, <4>1, <4>2
    <3> QED
      BY <2>2, <3>1, <3>2, <3>3, <3>4 DEF Log!LogNext, Log!LogRewrite, Log!Current, Standby
  <2> QED
    BY <1>5, <2>1, <2>2 DEF CompactRename
<1>6. CASE CompactSync
  <2>1. CASE UNCHANGED previous
    BY <1>6, <1>c, <2>1 DEF CompactSync
  <2>2. CASE previous' = {}
    <3>1. UNCHANGED <<file, synced>> /\ Standby(previous') = {}
      BY <1>6, <1>d, <2>2 DEF CompactSync
    <3> QED
      BY <3>1 DEF Log!LogNext, Log!LogSettle, Standby
  <2> QED
    BY <1>6, <2>1, <2>2 DEF CompactSync
<1>7. CASE PowerLoss
  <2>1. PICK old \in {[file |-> file, synced |-> synced]} \cup previous : file' \in Survivors(old)
    BY <1>7 DEF PowerLoss
  <2> DEFINE entry == [log |-> Accepted(old.file), safe |-> Safe(old.file, old.synced)]
             current == [log |-> Accepted(file), safe |-> Safe(file, synced)]
  <2>2. old.file \in Files /\ old.synced \in 0 .. Len(old.file) /\ entry \in {current} \cup Standby(previous)
    <3>1. CASE old \in previous
      BY <3>1 DEF RefinementInv, JournalTypeOK, Standby
    <3>2. CASE old = [file |-> file, synced |-> synced]
      BY <1>a, <3>2
    <3> QED
      BY <2>1, <3>1, <3>2
  <2>3. /\ Good(file') \in Safe(old.file, old.synced) .. Good(old.file)
        /\ Accepted(file') = SubSeq(Accepted(old.file), 1, Good(file'))
    BY <2>1, <2>2, SurvivingLog
  <2>4. Len(Accepted(old.file)) = Good(old.file)
    BY <2>2, AcceptedType
  <2>5. \E n \in entry.safe .. Len(entry.log) : Accepted(file') = SubSeq(entry.log, 1, n)
    BY <2>3, <2>4
  <2>6. synced' = Len(file') /\ Standby(previous') = {}
    BY <1>7, <1>d DEF PowerLoss
  <2>7. Safe(file', synced') = Len(Accepted(file'))
    <3>1. Good(file') \in 0 .. Len(file') /\ Len(Accepted(file')) = Good(file')
      BY <1>a, GoodScans, AcceptedType
    <3> QED
      BY <1>a, <2>6, <3>1 DEF Safe
  <2>8. (~Intact(file')) \in BOOLEAN
    OBVIOUS
  <2>9. \E x \in {current} \cup Standby(previous) :
           \E n \in x.safe .. Len(x.log) : Accepted(file') = SubSeq(x.log, 1, n)
    BY <2>2, <2>5
  <2> HIDE DEF entry
  <2> QED
    BY <2>6, <2>7, <2>8, <2>9 DEF Log!LogNext, Log!LogPowerLoss, Log!Current, Standby
<1>8. CASE CompactWrite \/ CompactClose \/ CompactReopen \/ ProcessCrash \/ UNCHANGED journalVars
  <2>1. UNCHANGED <<file, synced, previous>>
    BY <1>8 DEF CompactWrite, CompactClose, CompactReopen, ProcessCrash, journalVars
  <2> QED
    BY <1>c, <2>1
<1> QED
  BY <1>1, <1>2, <1>3, <1>4, <1>5, <1>6, <1>7, <1>8 DEF JournalNext

(* The journal implements the log, whether or not syncing a file makes its
   name durable: for files of every length, each append, failed append, repair,
   compaction step, process crash and power loss is one step of DurableLog, or
   none. *)
THEOREM JournalImplementsLog == JournalSpec => ImplementsLog
<1>1. RefinementInv /\ RefinementInv' /\ [JournalNext]_journalVars => [Log!LogNext]_(Log!logVars)
  BY RefinementStep
<1> QED
  BY <1>1, RefinementInit, RefinementInvariant, PTL DEF JournalSpec, ImplementsLog, Log!LogSpec
=============================================================================
