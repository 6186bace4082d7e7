------------------------- MODULE RepartitionProofs -------------------------
(***************************************************************************)
(* Proofs about Repartition for every size of the eMMC, every set of       *)
(* packages and every place where a write of the entries may be cut short. *)
(***************************************************************************)
EXTENDS Repartition, TLAPS

-----------------------------------------------------------------------------
(* Types.                                                                  *)

\* What the steps rely on: the writes know where to go on, the offsets are there
\* while they are needed, and a backup that is being restored exists.
Context ==
    /\ pc \in Writing => then # "none"
    /\ pc \in {"resize", "backup", "copy", "unmark", "update"} => part_scatter \in Offsets
    /\ pc = "card_copy" => archive # None

TypeInv == TypeOK /\ Context

LEMMA RoomType ==
    ASSUME NEW b \in Lba
    PROVE  Room(b) \in 1..DiskEnd
BY LbaOnDisk DEF Room

LEMMA OffsetType ==
    ASSUME NEW o \in Offsets
    PROVE  o.cache \in Lba /\ o.userdata \in Lba /\ TableOf(o) \in Table
BY OffsetsInOrder DEF TableOf, Table

LEMMA RecomputedType ==
    ASSUME NEW t \in Table, NEW o \in Offsets
    PROVE  Recomputed(t, o) \in Table
BY OffsetType DEF Recomputed, Table

LEMMA TornType ==
    ASSUME NEW s \in Table, NEW t \in Table, NEW n
    PROVE  Torn(s, t, n) \in Table
BY DEF Torn, Table

LEMMA InitTypes == Init => TypeInv
<1> SUFFICES ASSUME Init PROVE TypeInv
  OBVIOUS
<1>1. PICK o \in Offsets :
        /\ head = [c \in Copy |-> TableOf(o)]
        /\ entries = [c \in Copy |-> TableOf(o)]
        /\ kernel = TableOf(o)
        /\ data = [at |-> o.userdata, size |-> Room(o.userdata)]
        /\ pc = "idle" /\ then = "none" /\ part_scatter = None
        /\ usrdata_changed = FALSE /\ isResizeFail = 0 /\ from_mota = FALSE
        /\ backup_path = "none" /\ data_backup_name = "none" /\ archive = None
        /\ encrypted \in BOOLEAN /\ unsound = FALSE /\ blind = FALSE
        /\ stale = FALSE
        /\ given_up = FALSE /\ removed = FALSE
  BY DEF Init
<1>2. data \in Data
  BY <1>1, OffsetType, RoomType DEF Data
<1>3. TypeOK
  <2>1. kernel \in Table /\ head \in [Copy -> Table] /\ entries \in [Copy -> Table]
    BY <1>1, OffsetType
  <2>2. isResizeFail \in 0..DiskEnd
    BY <1>1, LbaOnDisk
  <2>. QED
    BY <1>1, <1>2, <2>1, <2>2 DEF TypeOK, Place
<1>4. Context
  BY <1>1 DEF Context, Writing
<1>. QED
  BY <1>3, <1>4 DEF TypeInv

LEMMA StepTypes == TypeInv /\ [Next]_vars => TypeInv'
<1> SUFFICES ASSUME TypeInv, [Next]_vars PROVE TypeInv'
  OBVIOUS
<1> USE DEF TypeInv
<1>a. OnDisk \in Table
  BY DEF OnDisk, TypeOK, Copy
<1>b. \A f, e : Spared(f, e) \in Data \cup {None}
  BY DEF Spared, TypeOK
<1>c. Room(kernel.userdata) \in 1..DiskEnd
  BY RoomType DEF TypeOK, Table
<1>d. part_scatter \in Offsets => Room(part_scatter.userdata) \in 1..DiskEnd
  BY OffsetType, RoomType
<1>1. CASE Check
  <2> SUFFICES ASSUME NEW o \in Offsets,
                      \/ CheckSame(o) \/ CheckFails(o) \/ CheckDataStays(o)
                      \/ CheckEncrypted(o) \/ CheckChanged(o) \/ CheckAgain(o)
               PROVE  TypeInv'
    BY <1>1 DEF Check
  <2>1. /\ Compare(o) /\ part_scatter' \in {None, o}
        /\ pc' \in {"install", "idle", "update", "resize", "backup"}
        /\ pc' \in {"update", "resize", "backup"} => part_scatter' = o
        /\ isResizeFail' \in {isResizeFail, 0} /\ given_up' \in BOOLEAN
    BY DEF CheckSame, CheckFails, CheckDataStays, CheckEncrypted, CheckChanged,
           CheckAgain, Proceed, TypeOK
  <2>2. usrdata_changed' \in BOOLEAN
    BY <2>1 DEF Compare, Changed
  <2>3. TypeOK'
    BY <2>1, <2>2, LbaOnDisk DEF Compare, TypeOK, tables, seen, card, Place
  <2>4. Context'
    BY <2>1 DEF Context, Writing
  <2>. QED
    BY <2>3, <2>4
<1>2. CASE BackUp
  <2>s. part_scatter \in Offsets /\ pc = "resize" => Shrunk \in Data \cup {None}
    BY <1>b, <1>d DEF Shrunk, InPlace, Data, TypeOK
  <2>1. CASE ResizeDone
    BY <2>1, <2>s DEF ResizeDone, Goto, TypeOK, Context, Writing, tables, seen, card, flags, Place
  <2>2. CASE ResizeFails
    <3>1. /\ part_scatter' \in {None, part_scatter}
          /\ pc' = "idle" \/ (pc' = "update" /\ part_scatter' = part_scatter)
          /\ pc = "resize" /\ part_scatter \in Offsets
      BY <2>2 DEF ResizeFails, Return, Goto, Context
    <3>2. data' \in Data \cup {None} /\ isResizeFail' \in 0..DiskEnd
      BY <2>2, <3>1, <2>s, <1>d DEF ResizeFails, ResizeGoesWrong, TypeOK
    <3>3. TypeOK'
      BY <2>2, <3>1, <3>2 DEF ResizeFails, ResizeGoesWrong, TypeOK, tables, seen, card, Place
    <3>4. Context'
      BY <3>1 DEF Context, Writing
    <3>. QED
      BY <3>3, <3>4
  <2>3. CASE StartBackup
    BY <2>3 DEF StartBackup, CleanUp, Goto, TypeOK, Context, Writing, tables, seen, flags, Place
  <2>4. CASE BackupFails
    <3>1. /\ archive' \in Archive \cup {None} /\ removed' \in BOOLEAN
          /\ backup_path' \in {"none", "other"}
          /\ data_backup_name' \in {"none", data_backup_name}
          /\ archive' = None => data_backup_name' # "archive"
      BY <2>4 DEF BackupFails, CleanUp, TypeOK
    <3>. QED
      BY <2>4, <3>1 DEF BackupFails, Return, TypeOK, Context, Writing, tables, seen, flags, Place
  <2>5. CASE CopyDone
    <3>1. CASE InPlace /\ data.size <= backup_size
      <4>1. archive' = [size |-> backup_size, holds |-> data.size]
        BY <2>5, <3>1 DEF CopyDone
      <4>2. backup_size \in 1..DiskEnd
        BY <2>5, <1>c, <1>d DEF CopyDone, Goto, Context, backup_size
      <4>3. archive' \in Archive
        BY <4>1, <4>2, <3>1 DEF Archive, InPlace, Data, TypeOK
      <4>. QED
        BY <2>5, <3>1, <4>3, NoneIsNothing DEF CopyDone, Goto, TypeOK, Context, Writing, tables, seen, flags, Place
    <3>2. CASE ~(InPlace /\ data.size <= backup_size)
      BY <2>5, <3>2 DEF CopyDone, Goto, TypeOK, Context, Writing, tables, seen, flags, Place
    <3>. QED
      BY <3>1, <3>2
  <2>6. CASE CopyFails
    BY <2>6 DEF CopyFails, Return, TypeOK, Context, Writing, tables, seen, card, flags, Place
  <2>7. CASE Unmark
    BY <2>7 DEF Unmark, Goto, TypeOK, Context, Writing, tables, seen, flags, Place
  <2>. QED
    BY <1>2, <2>1, <2>2, <2>3, <2>4, <2>5, <2>6, <2>7 DEF BackUp
<1>3. CASE Update
  <2>1. ASSUME NEW t \in Table, NEW to \in {"reread", "install"}, BeginWrite(t, to),
               UNCHANGED <<seen, part_scatter, card, data, flags>>
        PROVE  TypeInv'
    <3>1. head' \in [Copy -> Table]
      BY <2>1 DEF BeginWrite, TypeOK
    <3>2. blind' \in BOOLEAN
      BY <2>1 DEF BeginWrite
    <3>. QED
      BY <2>1, <3>1, <3>2 DEF BeginWrite, TypeOK, Context, Writing, seen, card, flags, Place
  <2>2. CASE BeginUpdate
    BY <2>2, <2>1, RecomputedType DEF BeginUpdate, Context, TypeOK, Copy
  <2>3. CASE UpdateFails
    BY <2>3 DEF UpdateFails, Return, TypeOK, Context, Writing, tables, seen, card, flags, Place
  <2>4. CASE NothingWritten
    BY <2>4 DEF NothingWritten, Goto, TypeOK, Context, Writing, tables, seen, card, flags, Place
  <2>5. CASE SetActive
    <3>1. PICK b \in BOOLEAN : BeginWrite([entries["primary"] EXCEPT !.active = b], "install")
      BY <2>5 DEF SetActive
    <3>2. [entries["primary"] EXCEPT !.active = b] \in Table
      BY DEF TypeOK, Copy, Table
    <3>. QED
      BY <2>1, <2>5, <3>1, <3>2 DEF SetActive
  <2>6. ASSUME NEW to, EndWrite(to), pc \in Writing, to \in Writing \cup {then},
               head' \in [Copy -> Table], entries' \in [Copy -> Table], unsound' \in BOOLEAN
        PROVE  TypeInv'
    BY <2>6 DEF EndWrite, TypeOK, Context, Writing, seen, card, flags, Place
  <2>7. pc \in Writing => Following(pc) \in Writing \cup {then}
    BY DEF Following, Writing
  <2>8. ASSUME NEW c \in Copy, WriteEntries(c) PROVE TypeInv'
    <3>1. pc \in Writing /\ entries' \in [Copy -> Table] /\ head' \in [Copy -> Table]
      BY <2>8 DEF WriteEntries, Entries, Writing, Copy, TypeOK
    <3>2. EndWrite(Following(pc)) /\ unsound' \in BOOLEAN
      BY <2>8 DEF WriteEntries, Written
    <3>. QED
      BY <3>1, <3>2, <2>6, <2>7
  <2>9. CASE WriteLastHeader
    <3>1. pc \in Writing /\ entries' \in [Copy -> Table] /\ head' \in [Copy -> Table]
      BY <2>9 DEF WriteLastHeader, Writing, Copy, TypeOK
    <3>2. EndWrite(Following(pc)) /\ unsound' \in BOOLEAN
      BY <2>9 DEF WriteLastHeader, Written
    <3>. QED
      BY <3>1, <3>2, <2>6, <2>7
  <2>10. CASE WriteFails
    <3>1. entries' \in [Copy -> Table]
      BY <2>10, TornType DEF WriteFails, CutShort, TypeOK, Copy
    <3>. QED
      BY <2>10, <3>1, <2>6 DEF WriteFails, CutShort, TypeOK
  <2>11. CASE Reread
    BY <2>11, <1>a DEF Reread, Goto, TypeOK, Context, Writing, tables, seen, card, flags, Place
  <2>12. CASE RereadFails
    <3>1. stale' \in BOOLEAN
      BY <2>12 DEF RereadFails
    <3>. QED
    BY <2>12, <3>1, <1>a DEF RereadFails, Return, TypeOK, Context, Writing, tables, seen, card, flags, Place
  <2>. QED
    BY <1>3, <2>2, <2>3, <2>4, <2>5, <2>8, <2>9, <2>10, <2>11, <2>12 DEF Update
<1>4. CASE Continue
  <2>1. CASE Erase
    BY <2>1 DEF Erase, Goto, TypeOK, Context, Writing, tables, seen, flags, Place
  <2>2. CASE EraseFails
    BY <2>2 DEF EraseFails, Return, TypeOK, Context, Writing, tables, seen, card, flags, Place
  <2>3. CASE FormatCache
    BY <2>3, <1>b DEF FormatCache, Return, TypeOK, Context, Writing, tables, seen, card, flags, Place
  <2>4. CASE Install
    BY <2>4, <1>b DEF Install, Goto, TypeOK, Context, Writing, tables, seen, card, flags, Place
  <2>5. CASE NothingToRestore
    <3>1. encrypted' \in BOOLEAN
      BY <2>5 DEF NothingToRestore
    <3>. QED
      BY <2>5, <3>1 DEF NothingToRestore, Goto, TypeOK, Context, Writing, tables, seen, card, Place
  <2>6. CASE Restore
    BY <2>6 DEF Restore, Goto, TypeOK, Context, Writing, tables, seen, card, flags, Place
  <2>7. CASE RestoreFails
    BY <2>7 DEF RestoreFails, Goto, TypeOK, Context, Writing, tables, seen, card, flags, Place
  <2>8. CASE RestoreFromCard
    BY <2>8 DEF RestoreFromCard, Goto, TypeOK, Context, Writing, tables, seen, card, flags, Place
  <2>9. CASE RestoreDone
    <3>1. data' \in Data \cup {None}
      <4>1. CASE pc = "card_copy" \/ backup_path = "archive"
        <5>1. archive \in Archive
          BY <4>1 DEF TypeOK, Context
        <5>. QED
          BY <2>9, <4>1, <5>1 DEF RestoreDone, TypeOK, Archive, Data, Table
      <4>2. CASE ~(pc = "card_copy" \/ backup_path = "archive")
        BY <2>9, <4>2 DEF RestoreDone
      <4>. QED
        BY <4>1, <4>2
    <3>. QED
      BY <2>9, <3>1 DEF RestoreDone, TypeOK, Context, Writing, tables, seen, card, flags, Place
  <2>10. CASE RestoreCopyFails
    <3>1. encrypted' \in BOOLEAN
      BY <2>10 DEF RestoreCopyFails
    <3>. QED
      BY <2>10, <3>1 DEF RestoreCopyFails, TypeOK, Context, Writing, tables, seen, card, Place
  <2>. QED
    BY <1>4, <2>1, <2>2, <2>3, <2>4, <2>5, <2>6, <2>7, <2>8, <2>9, <2>10 DEF Continue
<1>5. CASE SetForce
  BY <1>5 DEF SetForce, TypeOK, Context, tables, seen, card
<1>6. CASE Crash
  <2>1. /\ head' \in [Copy -> Table] /\ entries' \in [Copy -> Table]
        /\ unsound' \in BOOLEAN
    <3>1. CASE CutShort
      BY <3>1, TornType DEF CutShort, TypeOK, Copy
    <3>2. CASE UNCHANGED <<head, entries, unsound>>
      BY <3>2 DEF TypeOK
    <3>. QED
      BY <1>6, <3>1, <3>2 DEF Crash
  <2>2. kernel' \in Table
    BY <1>6, <2>1 DEF Crash, OnDisk, Copy
  <2>3. usrdata_changed' = FALSE /\ from_mota' = FALSE /\ isResizeFail' = 0
    BY <1>6 DEF Crash, Restart
  <2>4. isResizeFail' \in 0..DiskEnd
    BY <2>3, LbaOnDisk
  <2>. QED
    BY <1>6, <2>1, <2>2, <2>3, <2>4 DEF Crash, Restart, TypeOK, Context, Writing, Place
<1>7. CASE Use
  <2>1. data' \in Data \cup {None}
    BY <1>7, <1>a, RoomType DEF Use, TypeOK, Data, Table
  <2>2. /\ usrdata_changed' = FALSE /\ from_mota' = FALSE /\ given_up' = FALSE
        /\ isResizeFail' = 0
    BY <1>7 DEF Use, Restart
  <2>3. isResizeFail' \in 0..DiskEnd
    BY <2>2, LbaOnDisk
  <2>. QED
    BY <1>7, <1>a, <2>1, <2>2, <2>3 DEF Use, Restart, TypeOK, Context, Writing, Place
<1>8. CASE UNCHANGED vars
  BY <1>8 DEF vars, tables, seen, card, flags, TypeOK, Context
<1>. QED
  BY <1>1, <1>2, <1>3, <1>4, <1>5, <1>6, <1>7, <1>8 DEF Next

\* In every reachable state the variables have their types: what is written to
\* the eMMC is a table of the partitions, a backup that backup_path or
\* .data_backup_name names exists, and no size exceeds the eMMC.
THEOREM TypesKept == Spec => []TypeOK
<1>1. TypeInv => TypeOK
  BY DEF TypeInv
<1>. QED
  BY <1>1, InitTypes, StepTypes, PTL DEF Spec

-----------------------------------------------------------------------------
(* One copy of the table survives.                                         *)

\* What each write relies on: while one copy is being rewritten the other one
\* is valid, and the last header is written after the entries it belongs to.
\* The copies only differ after a write was cut short.
TableInv ==
    /\ pc \notin Writing => \E c \in Copy : Valid(c)
    /\ pc \notin Writing /\ ~unsound => \A c \in Copy : Valid(c)
    /\ pc \notin Writing \ {"PPE"} /\ ~unsound => entries["primary"] = entries["secondary"]
    /\ pc \notin Writing /\ ~Valid("primary") =>
          \E n \in Cut : entries["primary"] = Torn(entries["secondary"], head["primary"], n)
    /\ pc = "PPE" /\ ~unsound => Valid("secondary")
    /\ pc = "SPE" => Valid("primary")
    /\ pc = "SGPT" => Valid("primary") /\ entries["secondary"] = head["primary"]

Quiet ==
    /\ pc \notin Writing /\ pc' \notin Writing
    /\ UNCHANGED <<head, entries, unsound, blind>>
    /\ kernel' \in {kernel, OnDisk}

\* The table is only touched by the steps of mt_gpt_update_part_entry and by a
\* loss of power.
LEMMA OthersAreQuiet ==
    ASSUME \/ Check \/ BackUp \/ Continue \/ SetForce \/ Use
           \/ UpdateFails \/ NothingWritten \/ Reread \/ RereadFails
    PROVE  Quiet
<1>1. CASE Check
  <2> SUFFICES ASSUME NEW o \in Offsets,
                      \/ CheckSame(o) \/ CheckFails(o) \/ CheckDataStays(o)
                      \/ CheckEncrypted(o) \/ CheckChanged(o) \/ CheckAgain(o)
               PROVE  Quiet
    BY <1>1 DEF Check
  <2>1. Compare(o) /\ pc' \in {"install", "idle", "update", "resize", "backup"}
    BY DEF CheckSame, CheckFails, CheckDataStays, CheckEncrypted, CheckChanged,
           CheckAgain, Proceed
  <2>. QED
    BY <2>1 DEF Compare, Quiet, tables, seen, Writing
<1>2. CASE BackUp
  <2>1. CASE ResizeDone
    BY <2>1 DEF ResizeDone, Goto, Quiet, tables, seen, Writing
  <2>2. CASE ResizeFails
    BY <2>2 DEF ResizeFails, ResizeGoesWrong, Goto, Return, Quiet, tables, seen, Writing
  <2>3. CASE StartBackup \/ BackupFails
    BY <2>3 DEF StartBackup, BackupFails, Goto, Return, Quiet, tables, seen, Writing
  <2>4. CASE CopyDone \/ CopyFails \/ Unmark
    BY <2>4 DEF CopyDone, CopyFails, Unmark, Goto, Return, Quiet, tables, seen, Writing
  <2>. QED
    BY <1>2, <2>1, <2>2, <2>3, <2>4 DEF BackUp
<1>3. CASE Continue
  <2>1. CASE Erase \/ EraseFails \/ FormatCache \/ Install
    BY <2>1 DEF Erase, EraseFails, FormatCache, Install, Goto, Return, Quiet,
                tables, seen, Writing
  <2>2. CASE NothingToRestore \/ Restore \/ RestoreFails \/ RestoreFromCard
    BY <2>2 DEF NothingToRestore, Restore, RestoreFails, RestoreFromCard, Goto,
                Quiet, tables, seen, Writing
  <2>3. CASE RestoreDone \/ RestoreCopyFails
    BY <2>3 DEF RestoreDone, RestoreCopyFails, Quiet, tables, seen, Writing
  <2>. QED
    BY <1>3, <2>1, <2>2, <2>3 DEF Continue
<1>4. CASE SetForce
  BY <1>4 DEF SetForce, Quiet, tables, seen, Writing
<1>5. CASE Use
  BY <1>5 DEF Use, Restart, Quiet, Writing
<1>6. CASE UpdateFails \/ NothingWritten \/ Reread \/ RereadFails
  BY <1>6 DEF UpdateFails, NothingWritten, Reread, RereadFails, Goto, Return,
              Quiet, tables, seen, Writing
<1>. QED
  BY <1>1, <1>2, <1>3, <1>4, <1>5, <1>6

LEMMA InitTable == Init => TableInv
<1> SUFFICES ASSUME Init PROVE TableInv
  OBVIOUS
<1>1. PICK o \in Offsets : /\ head = [c \in Copy |-> TableOf(o)]
                          /\ entries = [c \in Copy |-> TableOf(o)]
                          /\ pc = "idle"
  BY DEF Init
<1>2. \A c \in Copy : Valid(c) /\ entries[c] = TableOf(o)
  BY <1>1 DEF Valid
<1>. QED
  BY <1>1, <1>2 DEF TableInv, Writing, Copy

LEMMA StepTable == TypeInv /\ TableInv /\ [Next]_vars => TableInv'
<1> SUFFICES ASSUME TypeInv, TableInv, [Next]_vars PROVE TableInv'
  OBVIOUS
<1>t. /\ head \in [Copy -> Table] /\ entries \in [Copy -> Table]
      /\ pc \in Writing => then \in {"reread", "install"}
  BY DEF TypeInv, TypeOK, Context
<1>1. CASE Quiet
  <2>1. (\A c \in Copy : Valid(c)' <=> Valid(c)) /\ (unsound' <=> unsound)
    BY <1>1 DEF Quiet, Valid
  <2>2. pc \notin Writing /\ pc' \notin Writing /\ head' = head /\ entries' = entries
    BY <1>1 DEF Quiet
  <2>. QED
    BY <2>1, <2>2 DEF TableInv, Copy, Writing
<1>2. ASSUME NEW t, NEW to \in {"reread", "install"}, BeginWrite(t, to),
             pc \notin Writing
      PROVE  TableInv'
  <2>1. head'["secondary"] = head["secondary"] /\ pc' = "PPE"
    BY <1>2, <1>t DEF BeginWrite, Copy
  <2>2. ~unsound => Valid("secondary") /\ entries["primary"] = entries["secondary"]
    BY <1>2 DEF TableInv, Copy
  <2>3. UNCHANGED <<entries, unsound>>
    BY <1>2 DEF BeginWrite
  <2>. QED
    BY <2>1, <2>2, <2>3 DEF TableInv, Valid, Writing
<1>3. CASE BeginUpdate
  BY <1>3, <1>2 DEF BeginUpdate, Writing
<1>4. CASE SetActive
  BY <1>4, <1>2 DEF SetActive, Writing
<1>5. CASE WriteEntries("primary")
  <2>1. /\ pc = "PPE" /\ pc' = "SPE" /\ head' = head
        /\ entries'["primary"] = head["primary"]
    BY <1>5, <1>t DEF WriteEntries, Entries, Written, EndWrite, Following, Copy
  <2>. QED
    BY <2>1 DEF TableInv, Valid, Writing
<1>6. CASE WriteEntries("secondary")
  <2>1. /\ pc = "SPE" /\ pc' = "SGPT" /\ head' = head
        /\ entries'["secondary"] = head["primary"]
        /\ entries'["primary"] = entries["primary"]
    BY <1>6, <1>t DEF WriteEntries, Entries, Written, EndWrite, Following, Copy
  <2>2. Valid("primary")
    BY <2>1 DEF TableInv
  <2>. QED
    BY <2>1, <2>2 DEF TableInv, Valid, Writing
<1>7. CASE WriteLastHeader
  <2>1. /\ pc = "SGPT" /\ entries' = entries
        /\ head'["primary"] = head["primary"]
        /\ head'["secondary"] = head["primary"]
    BY <1>7, <1>t DEF WriteLastHeader, Copy
  <2>2. pc' \notin Writing
    BY <1>7, <1>t, <2>1 DEF WriteLastHeader, Written, EndWrite, Following, Writing
  <2>3. Valid("primary") /\ entries["secondary"] = head["primary"]
    BY <2>1 DEF TableInv
  <2>4. \A c \in Copy : Valid(c)'
    BY <2>1, <2>3 DEF Valid, Copy
  <2>5. entries'["primary"] = entries'["secondary"]
    BY <2>1, <2>3 DEF Valid
  <2>. QED
    BY <2>2, <2>4, <2>5 DEF TableInv, Writing, Copy
<1>8. ASSUME CutShort, pc' \notin Writing PROVE TableInv'
  <2>1. pc \in Writing /\ ~unsound /\ unsound' /\ head' = head
    BY <1>8 DEF CutShort
  <2>2. \A c \in Copy : pc # Entries[c] => entries'[c] = entries[c]
    BY <1>8 DEF CutShort
  <2>3. \E c \in Copy : Valid(c)'
    <3>1. CASE pc = "PPE"
      BY <3>1, <2>1, <2>2 DEF TableInv, Valid, Copy, Entries
    <3>2. CASE pc \in {"SPE", "SGPT"}
      BY <3>2, <2>1, <2>2 DEF TableInv, Valid, Copy, Entries
    <3>. QED
      BY <2>1, <3>1, <3>2 DEF Writing
  <2>4. ~Valid("primary")' =>
          \E n \in Cut : entries'["primary"] = Torn(entries'["secondary"], head'["primary"], n)
    <3>1. CASE pc = "PPE"
      <4>1. entries["primary"] = entries["secondary"]
        BY <3>1, <2>1 DEF TableInv, Writing
      <4>2. entries'["secondary"] = entries["secondary"]
        BY <3>1, <2>2 DEF Copy, Entries
      <4>3. \E n \in Cut : entries'["primary"] = Torn(entries["primary"], head["primary"], n)
        BY <3>1, <1>8 DEF CutShort, Copy, Entries
      <4>. QED
        BY <4>1, <4>2, <4>3, <2>1
    <3>2. CASE pc \in {"SPE", "SGPT"}
      BY <3>2, <2>1, <2>2 DEF TableInv, Valid, Copy, Entries
    <3>. QED
      BY <2>1, <3>1, <3>2 DEF Writing
  <2>. QED
    BY <1>8, <2>1, <2>3, <2>4 DEF TableInv, Writing
<1>9. CASE WriteFails
  <2>1. pc' \notin Writing
    BY <1>9, <1>t DEF WriteFails, CutShort, EndWrite, Writing
  <2>. QED
    BY <1>9, <2>1, <1>8 DEF WriteFails
<1>10. CASE Crash
  <2>1. pc' = "idle"
    BY <1>10 DEF Crash, Restart
  <2>2. CASE CutShort
    BY <2>1, <2>2, <1>8 DEF Writing
  <2>3. CASE pc \notin Writing /\ UNCHANGED <<head, entries, unsound>>
    <3>1. (\A c \in Copy : Valid(c)' <=> Valid(c)) /\ (unsound' <=> unsound)
      BY <2>3 DEF Valid
    <3>. QED
      BY <2>1, <2>3, <3>1 DEF TableInv, Writing, Copy
  <2>. QED
    BY <1>10, <2>2, <2>3 DEF Crash
<1>11. CASE UNCHANGED vars
  <2>1. /\ (\A c \in Copy : Valid(c)' <=> Valid(c)) /\ (unsound' <=> unsound)
        /\ head' = head /\ entries' = entries /\ pc' = pc
    BY <1>11 DEF vars, tables, Valid
  <2>. QED
    BY <2>1 DEF TableInv, Copy
<1>. QED
  BY <1>1, <1>3, <1>4, <1>5, <1>6, <1>7, <1>9, <1>10, <1>11, OthersAreQuiet
  DEF Next, Update, Copy

\* Wherever power fails and whichever write fails, the phone starts: the writes
\* of mt_gpt_update_part_entry leave one copy of the table valid.
THEOREM TableKept == Spec => []TableSurvives
<1>1. TypeInv /\ TableInv => TableSurvives
  <2> SUFFICES ASSUME TypeInv, TableInv, ~(pc \in Writing /\ unsound)
               PROVE  \E c \in Copy : Valid(c)
    BY DEF TableSurvives
  <2>. QED
    BY DEF TableInv, Writing, Copy
<1>. QED
  BY <1>1, InitTypes, StepTypes, InitTable, StepTable, PTL DEF Spec

-----------------------------------------------------------------------------
(* No partition overlaps the next.                                         *)

\* The partitions of a table follow each other and userdata is the last one.
Ordered(t) == Whole(t) /\ t.cache < t.userdata

\* The tables that the CRCs of the headers belong to are in order, also those
\* whose entries have not been written completely.
WholeInv == ~blind => Ordered(kernel) /\ \A c \in Copy : Ordered(head[c])

LEMMA RecomputedOrdered ==
    ASSUME NEW t, Ordered(t), NEW o \in Offsets
    PROVE  Ordered(Recomputed(t, o))
BY OffsetsInOrder DEF Ordered, Whole, Recomputed

\* What the kernel finds when no table is being written.
LEMMA DiskOrdered ==
    ASSUME TableInv, pc \notin Writing, \A c \in Copy : Ordered(head[c])
    PROVE  Ordered(OnDisk)
BY DEF TableInv, OnDisk, Valid, Copy

LEMMA InitWhole == Init => WholeInv
<1> SUFFICES ASSUME Init PROVE WholeInv
  OBVIOUS
<1>1. PICK o \in Offsets : head = [c \in Copy |-> TableOf(o)] /\ kernel = TableOf(o)
  BY DEF Init
<1>. QED
  BY <1>1, OffsetsInOrder DEF WholeInv, Ordered, Whole, TableOf

LEMMA StepWhole == TypeInv /\ TableInv /\ TableInv' /\ WholeInv /\ [Next]_vars => WholeInv'
<1> SUFFICES ASSUME TypeInv, TableInv, TableInv', WholeInv, [Next]_vars PROVE WholeInv'
  OBVIOUS
<1>t. head \in [Copy -> Table] /\ entries["primary"] \in Table
  BY DEF TypeInv, TypeOK, Copy
<1>d. ~blind /\ pc \notin Writing => Ordered(OnDisk)
  BY DiskOrdered DEF WholeInv
<1>1. CASE UNCHANGED <<head, blind, kernel>>
  BY <1>1 DEF WholeInv
<1>2. ASSUME NEW t, NEW to, BeginWrite(t, to), kernel' = kernel,
             Ordered(entries["primary"]) => Ordered(t)
      PROVE  WholeInv'
  <2> SUFFICES ASSUME ~blind' PROVE Ordered(kernel') /\ \A c \in Copy : Ordered(head'[c])
    BY DEF WholeInv
  <2>1. ~blind /\ (Valid("primary") \/ t = head["primary"])
    BY <1>2 DEF BeginWrite
  <2>2. Ordered(kernel) /\ \A c \in Copy : Ordered(head[c])
    BY <2>1 DEF WholeInv
  <2>3. Ordered(t)
    BY <1>2, <2>1, <2>2 DEF Valid, Copy
  <2>4. head' = [head EXCEPT !["primary"] = t]
    BY <1>2 DEF BeginWrite
  <2>. QED
    BY <1>t, <1>2, <2>2, <2>3, <2>4 DEF Copy
<1>3. CASE BeginUpdate
  <2>1. part_scatter \in Offsets
    BY <1>3 DEF BeginUpdate, TypeInv, Context
  <2>. QED
    BY <1>3, <1>2, <2>1, RecomputedOrdered DEF BeginUpdate, seen
<1>4. CASE SetActive
  <2>1. PICK b \in BOOLEAN : BeginWrite([entries["primary"] EXCEPT !.active = b], "install")
    BY <1>4 DEF SetActive
  <2>2. Ordered(entries["primary"]) => Ordered([entries["primary"] EXCEPT !.active = b])
    BY <1>t DEF Ordered, Whole, Table
  <2>. QED
    BY <1>4, <2>1, <2>2, <1>2 DEF SetActive, seen
<1>5. CASE WriteLastHeader
  <2>1. /\ blind' = blind /\ kernel' = kernel
        /\ head' = [head EXCEPT !["secondary"] = head["primary"]]
    BY <1>5 DEF WriteLastHeader, Written, EndWrite, seen
  <2>. QED
    BY <1>t, <2>1 DEF WholeInv, Copy
<1>6. CASE \E c \in Copy : WriteEntries(c)
  BY <1>6, <1>1 DEF WriteEntries, Written, EndWrite, seen
<1>7. CASE WriteFails
  BY <1>7, <1>1 DEF WriteFails, CutShort, EndWrite, seen
<1>8. CASE Crash
  <2>1. UNCHANGED <<head, blind>> /\ kernel' = OnDisk' /\ pc' = "idle"
    BY <1>8 DEF Crash, CutShort, Restart
  <2>2. ~blind' => Ordered(OnDisk')
    BY <2>1 DEF WholeInv, TableInv, OnDisk, Valid, Copy, Writing
  <2>. QED
    BY <2>1, <2>2 DEF WholeInv
<1>9. CASE UNCHANGED vars
  BY <1>9, <1>1 DEF vars, tables, seen
<1>10. CASE Quiet
  <2>1. kernel' \in {kernel, OnDisk}
    BY <1>10 DEF Quiet
  <2>2. UNCHANGED <<head, blind>> /\ pc \notin Writing
    BY <1>10 DEF Quiet
  <2>. QED
    BY <1>d, <2>1, <2>2 DEF WholeInv
<1>. QED
  BY <1>3, <1>4, <1>5, <1>6, <1>7, <1>8, <1>9, <1>10, OthersAreQuiet DEF Next, Update

\* A table that the kernel accepts has no partition that overlaps the next, also
\* after an update that was cut short, as long as no other layout has been
\* written over entries that fail their CRC.
THEOREM TablesWhole == Spec => []WholeTables
<1>1. WholeInv => WholeTables
  BY DEF WholeInv, WholeTables, Valid, Ordered
<1>. QED
  BY <1>1, InitTypes, StepTypes, InitTable, StepTable, InitWhole, StepWhole, PTL DEF Spec

-----------------------------------------------------------------------------
(* What each place in the recovery relies on.                              *)

PlaceInv ==
    /\ pc \in {"resize", "backup", "copy", "unmark", "restore"} => usrdata_changed
    /\ pc = "resize" => Room(part_scatter.userdata) < Room(kernel.userdata)
    /\ pc = "update" /\ ~usrdata_changed => part_scatter.userdata = kernel.userdata
    /\ pc = "restore_copy" => data = None
    /\ pc = "copy" => backup_path = "other"

\* The places that PlaceInv says nothing about.
Free == Writing \cup {"idle", "reread", "erase", "cache", "install", "card_copy"}

LEMMA WriteSteps ==
    ASSUME TypeInv,
           \/ \E c \in Copy : WriteEntries(c)
           \/ WriteLastHeader \/ WriteFails
    PROVE  /\ pc \in Writing /\ pc' \in {"SPE", "SGPT", then} /\ then \in {"reread", "install"}
           /\ then' = then \/ pc' = then
           /\ UNCHANGED <<seen, blind, part_scatter, card, data, flags>>
<1>1. pc \in Writing => then \in {"reread", "install"}
  BY DEF TypeInv, TypeOK, Context
<1>2. pc \in Writing => Following(pc) \in {"SPE", "SGPT", then}
  BY DEF Following, Writing
<1>3. ASSUME NEW to, EndWrite(to), to \in {"SPE", "SGPT", then}
      PROVE  /\ pc' \in {"SPE", "SGPT", then} /\ (then' = then \/ pc' = then)
             /\ UNCHANGED <<seen, blind, part_scatter, card, data, flags>>
  BY <1>3 DEF EndWrite
<1>4. CASE \E c \in Copy : WriteEntries(c)
  <2>1. pc \in Writing /\ EndWrite(Following(pc))
    BY <1>4 DEF WriteEntries, Entries, Written, Writing, Copy
  <2>. QED
    BY <1>1, <1>2, <1>3, <2>1
<1>5. CASE WriteLastHeader
  <2>1. pc \in Writing /\ EndWrite(Following(pc))
    BY <1>5 DEF WriteLastHeader, Written, Writing
  <2>. QED
    BY <1>1, <1>2, <1>3, <2>1
<1>6. CASE WriteFails
  <2>1. pc \in Writing /\ EndWrite(then)
    BY <1>6 DEF WriteFails, CutShort
  <2>. QED
    BY <1>1, <1>3, <2>1
<1>. QED
  BY <1>4, <1>5, <1>6

LEMMA InitPlace == Init => PlaceInv
BY DEF Init, PlaceInv

LEMMA StepPlace == TypeInv /\ PlaceInv /\ [Next]_vars => PlaceInv'
<1> SUFFICES ASSUME TypeInv, PlaceInv, [Next]_vars PROVE PlaceInv'
  OBVIOUS
<1>0. CASE pc' \in Free
  BY <1>0 DEF Free, Writing, PlaceInv
<1>1. CASE Check
  <2> SUFFICES ASSUME NEW o \in Offsets,
                      \/ CheckSame(o) \/ CheckFails(o) \/ CheckDataStays(o)
                      \/ CheckEncrypted(o) \/ CheckChanged(o) \/ CheckAgain(o)
               PROVE  PlaceInv'
    BY <1>1 DEF Check
  <2>1. CASE CheckSame(o) \/ CheckFails(o)
    BY <2>1, <1>0 DEF CheckSame, CheckFails, Proceed, Free
  <2>2. CASE CheckDataStays(o)
    BY <2>2 DEF CheckDataStays, Compare, Changed, Proceed, PlaceInv, seen
  <2>3. CASE CheckEncrypted(o) \/ CheckAgain(o)
    BY <2>3 DEF CheckEncrypted, CheckAgain, Compare, Proceed, PlaceInv
  <2>4. CASE CheckChanged(o)
    BY <2>4 DEF CheckChanged, Compare, Proceed, PlaceInv, seen
  <2>. QED
    BY <2>1, <2>2, <2>3, <2>4
<1>2. CASE BackUp
  <2>1. CASE ResizeDone
    BY <2>1 DEF ResizeDone, Goto, PlaceInv, flags
  <2>2. CASE ResizeFails
    BY <2>2 DEF ResizeFails, ResizeGoesWrong, Return, Goto, PlaceInv
  <2>3. CASE StartBackup
    BY <2>3 DEF StartBackup, Goto, PlaceInv, flags
  <2>4. CASE BackupFails \/ CopyFails
    BY <2>4, <1>0 DEF BackupFails, CopyFails, Return, Free
  <2>5. CASE CopyDone
    BY <2>5 DEF CopyDone, Goto, PlaceInv, flags
  <2>6. CASE Unmark
    BY <2>6 DEF Unmark, Goto, PlaceInv, flags
  <2>. QED
    BY <1>2, <2>1, <2>2, <2>3, <2>4, <2>5, <2>6 DEF BackUp
<1>3. CASE Update
  <2>1. CASE BeginUpdate \/ SetActive
    BY <2>1, <1>0 DEF BeginUpdate, SetActive, BeginWrite, Free, Writing
  <2>2. CASE UpdateFails \/ NothingWritten \/ RereadFails
    BY <2>2, <1>0 DEF UpdateFails, NothingWritten, RereadFails, Return, Goto, Free
  <2>3. CASE Reread
    BY <2>3, <1>0 DEF Reread, Goto, Free
  <2>4. CASE (\E c \in Copy : WriteEntries(c)) \/ WriteLastHeader \/ WriteFails
    BY <2>4, <1>0, WriteSteps DEF Free, Writing
  <2>. QED
    BY <1>3, <2>1, <2>2, <2>3, <2>4 DEF Update
<1>4. CASE Continue
  <2>1. CASE Erase \/ EraseFails \/ FormatCache
    BY <2>1, <1>0 DEF Erase, EraseFails, FormatCache, Goto, Return, Free
  <2>2. CASE Install
    BY <2>2, <1>0 DEF Install, Goto, Free, PlaceInv, flags
  <2>3. CASE NothingToRestore \/ RestoreFails \/ RestoreFromCard
    BY <2>3, <1>0 DEF NothingToRestore, RestoreFails, RestoreFromCard, Goto, Free
  <2>4. CASE Restore
    BY <2>4 DEF Restore, Goto, PlaceInv
  <2>5. CASE RestoreDone \/ RestoreCopyFails
    BY <2>5, <1>0 DEF RestoreDone, RestoreCopyFails, Free
  <2>. QED
    BY <1>4, <2>1, <2>2, <2>3, <2>4, <2>5 DEF Continue
<1>5. CASE SetForce \/ Crash \/ Use
  BY <1>5, <1>0 DEF SetForce, Crash, Use, Restart, Free
<1>6. CASE UNCHANGED vars
  BY <1>6 DEF vars, seen, card, flags, PlaceInv
<1>. QED
  BY <1>1, <1>2, <1>3, <1>4, <1>5, <1>6 DEF Next

-----------------------------------------------------------------------------
(* Sizes.                                                                  *)

\* A file system fits where it is, and an image holds no more than its size.
SizeInv ==
    /\ data # None => data.size <= Room(data.at)
    /\ archive # None => archive.holds <= archive.size
    /\ pc \in {"backup", "copy"} /\ InPlace => data.size <= backup_size

Smaller == data' = data \/ data' = None

LEMMA InitSize == Init => SizeInv
<1> SUFFICES ASSUME Init PROVE SizeInv
  OBVIOUS
<1>1. PICK o \in Offsets : data = [at |-> o.userdata, size |-> Room(o.userdata)]
  BY DEF Init
<1>2. pc = "idle" /\ archive = None
  BY DEF Init
<1>3. Room(o.userdata) \in Nat
  BY OffsetType, RoomType
<1>. QED
  BY <1>1, <1>2, <1>3 DEF SizeInv

LEMMA StepSize == TypeInv /\ PlaceInv /\ SizeInv /\ [Next]_vars => SizeInv'
<1> SUFFICES ASSUME TypeInv, PlaceInv, SizeInv, [Next]_vars PROVE SizeInv'
  OBVIOUS
<1>t. data \in Data \cup {None} /\ archive \in Archive \cup {None} /\ kernel.userdata \in Lba
  BY DEF TypeInv, TypeOK, Table
<1>r. Room(kernel.userdata) \in 1..DiskEnd
  BY <1>t, RoomType
<1>p. part_scatter \in Offsets => Room(part_scatter.userdata) \in 1..DiskEnd
  BY OffsetType, RoomType
<1>0. ASSUME pc' \notin {"backup", "copy"}, Smaller, archive' = archive \/ archive' = None
      PROVE  SizeInv'
  BY <1>0 DEF Smaller, SizeInv
<1>s. ASSUME NEW f, NEW e, data' \in {data, Spared(f, e)} PROVE Smaller
  BY <1>s DEF Smaller, Spared
<1>1. CASE Check
  <2> SUFFICES ASSUME NEW o \in Offsets,
                      \/ CheckSame(o) \/ CheckFails(o) \/ CheckDataStays(o)
                      \/ CheckEncrypted(o) \/ CheckChanged(o) \/ CheckAgain(o)
               PROVE  SizeInv'
    BY <1>1 DEF Check
  <2>1. CASE \/ CheckSame(o) \/ CheckFails(o) \/ CheckDataStays(o)
             \/ CheckEncrypted(o) \/ CheckAgain(o)
    BY <2>1, <1>0 DEF CheckSame, CheckFails, CheckDataStays, CheckEncrypted,
                      CheckAgain, Compare, Proceed, Smaller, card
  <2>2. CASE CheckChanged(o)
    <3>1. /\ data' = data /\ archive' = archive /\ kernel' = kernel /\ part_scatter' = o
          /\ pc' = IF Room(o.userdata) < Room(kernel.userdata) THEN "resize" ELSE "backup"
      BY <2>2 DEF CheckChanged, Compare, Proceed, card, seen
    <3>2. Room(o.userdata) \in 1..DiskEnd
      BY OffsetType, RoomType
    <3>3. pc' = "backup" => backup_size' = Room(kernel.userdata)
      BY <3>1, <3>2, <1>r DEF backup_size
    <3>. QED
      BY <3>1, <3>3 DEF SizeInv, InPlace
  <2>. QED
    BY <2>1, <2>2
<1>2. CASE BackUp
  <2>s. ASSUME pc = "resize", data' \in {data, Shrunk}
        PROVE  /\ data' # None => data'.size <= Room(data'.at)
               /\ InPlace => data' \in {data, [data EXCEPT !.size = Room(part_scatter.userdata)]}
               /\ InPlace /\ data' = Shrunk => data'.size = Room(part_scatter.userdata)
               /\ ~InPlace => Smaller
    <3>0. part_scatter \in Offsets /\ Room(part_scatter.userdata) < Room(kernel.userdata)
      BY <2>s DEF TypeInv, Context, PlaceInv
    <3>1. CASE InPlace
      BY <3>0, <3>1, <2>s, <1>t, <1>r, <1>p DEF Shrunk, InPlace, SizeInv, Data
    <3>2. CASE ~InPlace
      <4>1. data' \in {data, Spared(kernel.userdata, DiskEnd)}
        BY <3>2, <2>s DEF Shrunk
      <4>2. Smaller
        BY <4>1, <1>s
      <4>. QED
        BY <4>2, <3>2 DEF Smaller, SizeInv
    <3>. QED
      BY <3>1, <3>2
  <2>1. CASE ResizeDone
    <3>1. /\ pc = "resize" /\ pc' = "backup" /\ part_scatter' = part_scatter
          /\ kernel' = kernel /\ archive' = archive /\ data' = Shrunk
      BY <2>1 DEF ResizeDone, Goto, seen, card
    <3>2. Room(part_scatter.userdata) < Room(kernel.userdata)
      BY <3>1 DEF PlaceInv
    <3>3. backup_size' = Room(part_scatter.userdata)
      BY <3>1, <3>2 DEF backup_size
    <3>4. InPlace' => InPlace
      BY <3>1 DEF InPlace, Shrunk, Spared
    <3>5. InPlace => data'.size = Room(part_scatter.userdata)
      BY <3>1, <2>s
    <3>6. InPlace' => data'.size <= backup_size'
      <4>1. part_scatter \in Offsets
        BY <3>1 DEF TypeInv, Context
      <4>. QED
        BY <3>3, <3>4, <3>5, <4>1, <1>p
    <3>. QED
      BY <3>1, <3>6, <2>s DEF SizeInv
  <2>2. CASE ResizeFails
    <3>1. pc = "resize" /\ pc' \in {"idle", "update"} /\ data' \in {data, Shrunk} /\ archive' = archive
      BY <2>2 DEF ResizeFails, ResizeGoesWrong, Return, Goto, card
    <3>. QED
      BY <3>1, <2>s DEF SizeInv
  <2>3. CASE StartBackup
    BY <2>3 DEF StartBackup, CleanUp, Goto, seen, SizeInv, InPlace, backup_size
  <2>4. CASE BackupFails \/ CopyFails \/ Unmark
    BY <2>4, <1>0 DEF BackupFails, CopyFails, Unmark, CleanUp, Return, Goto, card, Smaller
  <2>5. CASE CopyDone
    <3>1. pc' = "unmark" /\ data' = data
      BY <2>5 DEF CopyDone, Goto
    <3>2. archive' \in {archive, [size |-> backup_size, holds |-> data.size]}
          /\ (archive' # archive => data.size <= backup_size)
      BY <2>5 DEF CopyDone
    <3>. QED
      BY <3>1, <3>2 DEF SizeInv
  <2>. QED
    BY <1>2, <2>1, <2>2, <2>3, <2>4, <2>5 DEF BackUp
<1>3. CASE Update
  <2>1. CASE BeginUpdate \/ SetActive
    BY <2>1, <1>0 DEF BeginUpdate, SetActive, BeginWrite, card, Smaller
  <2>2. CASE UpdateFails \/ NothingWritten \/ Reread \/ RereadFails
    BY <2>2, <1>0 DEF UpdateFails, NothingWritten, Reread, RereadFails, Return, Goto,
                      card, Smaller
  <2>3. CASE (\E c \in Copy : WriteEntries(c)) \/ WriteLastHeader \/ WriteFails
    BY <2>3, <1>0, WriteSteps DEF card, Smaller
  <2>. QED
    BY <1>3, <2>1, <2>2, <2>3 DEF Update
<1>4. CASE Continue
  <2>1. CASE Erase \/ EraseFails \/ Restore \/ RestoreFails \/ RestoreFromCard
    BY <2>1, <1>0 DEF Erase, EraseFails, Restore, RestoreFails, RestoreFromCard, Return,
                      Goto, card, Smaller
  <2>2. CASE FormatCache \/ Install
    BY <2>2, <1>0, <1>s DEF FormatCache, Install, Return, Goto, card
  <2>3. CASE NothingToRestore \/ RestoreCopyFails
    BY <2>3, <1>0 DEF NothingToRestore, RestoreCopyFails, Goto, card, Smaller
  <2>4. CASE RestoreDone
    <3>1. pc' = "idle" /\ archive' = archive
      BY <2>4 DEF RestoreDone, card
    <3>2. CASE pc = "card_copy" \/ backup_path = "archive"
      <4>1. archive \in Archive
        BY <3>2 DEF TypeInv, TypeOK, Context
      <4>2. archive.size <= Room(kernel.userdata)
            /\ data' = [at |-> kernel.userdata, size |-> archive.holds]
        BY <3>2, <2>4 DEF RestoreDone
      <4>3. archive # None
        BY <4>1, NoneIsNothing
      <4>. QED
        BY <3>1, <4>1, <4>2, <4>3, <1>r DEF SizeInv, Archive
    <3>3. CASE ~(pc = "card_copy" \/ backup_path = "archive")
      BY <3>1, <3>3, <2>4, <1>0 DEF RestoreDone, Smaller
    <3>. QED
      BY <3>2, <3>3
  <2>. QED
    BY <1>4, <2>1, <2>2, <2>3, <2>4 DEF Continue
<1>5. CASE SetForce \/ Crash
  BY <1>5, <1>0 DEF SetForce, Crash, Restart, card, Smaller
<1>6. CASE Use
  <2>1. pc' = "idle" /\ archive' = None
    BY <1>6 DEF Use, Restart
  <2>2. CASE data' = data
    BY <2>1, <2>2, <1>0 DEF Smaller
  <2>3. CASE data' = [at |-> OnDisk.userdata, size |-> Room(OnDisk.userdata)]
    <3>1. OnDisk.userdata \in Lba
      BY DEF OnDisk, TypeInv, TypeOK, Copy, Table
    <3>2. Room(OnDisk.userdata) \in Nat
      BY <3>1, RoomType
    <3>. QED
      BY <2>1, <2>3, <3>2 DEF SizeInv
  <2>. QED
    BY <1>6, <2>2, <2>3 DEF Use
<1>7. CASE UNCHANGED vars
  BY <1>7 DEF vars, card, seen, SizeInv, InPlace, backup_size
<1>. QED
  BY <1>1, <1>2, <1>3, <1>4, <1>5, <1>6, <1>7 DEF Next

-----------------------------------------------------------------------------
(* Where userdata starts while the table is being written.                 *)

\* userdata starts at u, whether the table that is being written is completed or
\* cut short.
StartsAt(u) ==
    /\ pc \notin Writing => OnDisk.userdata = u
    /\ pc \in Writing => head["primary"].userdata = u
    /\ pc = "PPE" /\ ~unsound => entries["secondary"].userdata = u

\* A write, or the loss of power in it, leaves userdata where it was to start.
LEMMA WriteStarts ==
    ASSUME TypeInv, TableInv, NEW u, StartsAt(u),
           \/ \E c \in Copy : WriteEntries(c)
           \/ WriteLastHeader
           \/ CutShort /\ pc' \notin Writing
    PROVE  StartsAt(u)'
<1>t. /\ head \in [Copy -> Table] /\ entries \in [Copy -> Table]
      /\ pc \in Writing => then \in {"reread", "install"}
  BY DEF TypeInv, TypeOK, Context
<1>1. CASE \E c \in Copy : WriteEntries(c)
  <2>1. head' = head /\ pc \in Writing
    BY <1>1 DEF WriteEntries, Entries, Writing, Copy
  <2>2. pc' \in {"SPE", "SGPT"}
    BY <1>1, <1>t DEF WriteEntries, Entries, Written, EndWrite, Following, Copy
  <2>. QED
    BY <2>1, <2>2 DEF StartsAt, Writing
<1>2. CASE WriteLastHeader
  <2>1. /\ pc = "SGPT" /\ entries' = entries /\ head'["primary"] = head["primary"]
    BY <1>2, <1>t DEF WriteLastHeader, Copy
  <2>2. pc' \notin Writing
    BY <1>2, <1>t, <2>1 DEF WriteLastHeader, Written, EndWrite, Following, Writing
  <2>3. OnDisk' = head["primary"]
    BY <2>1 DEF TableInv, OnDisk, Valid
  <2>. QED
    BY <2>1, <2>2, <2>3 DEF StartsAt, Writing
<1>3. CASE CutShort /\ pc' \notin Writing
  <2>1. pc \in Writing /\ ~unsound /\ head' = head
    BY <1>3 DEF CutShort
  <2>2. \A c \in Copy : pc # Entries[c] => entries'[c] = entries[c]
    BY <1>3 DEF CutShort
  <2>3. OnDisk'.userdata = u
    <3>1. CASE pc = "PPE"
      <4>1. entries'["secondary"] = entries["secondary"]
        BY <3>1, <2>2 DEF Copy, Entries
      <4>. QED
        BY <3>1, <4>1, <2>1 DEF OnDisk, Valid, StartsAt, Writing
    <3>2. CASE pc \in {"SPE", "SGPT"}
      <4>1. entries'["primary"] = entries["primary"] /\ entries["primary"] = head["primary"]
        BY <3>2, <2>2 DEF Copy, Entries, TableInv, Valid
      <4>. QED
        BY <3>2, <4>1, <2>1 DEF OnDisk, Valid, StartsAt, Writing
    <3>. QED
      BY <2>1, <3>1, <3>2 DEF Writing
  <2>. QED
    BY <1>3, <2>3 DEF StartsAt, Writing
<1>. QED
  BY <1>1, <1>2, <1>3

\* A table with another start is only begun if it may be found in either place.
LEMMA BeginStarts ==
    ASSUME TypeInv, TableInv, pc \notin Writing, NEW t, NEW to, BeginWrite(t, to),
           NEW u, t.userdata = u, OnDisk.userdata = u
    PROVE  StartsAt(u)'
<1>t. head \in [Copy -> Table]
  BY DEF TypeInv, TypeOK
<1>1. pc' = "PPE" /\ head'["primary"] = t /\ UNCHANGED <<entries, unsound>>
  BY <1>t DEF BeginWrite, Copy
<1>2. ~unsound => entries["secondary"] = OnDisk
  BY DEF TableInv, OnDisk, Valid, Copy, Writing
<1>. QED
  BY <1>1, <1>2 DEF StartsAt, Writing

\* Setting the active bit leaves userdata where the kernel finds it, unless it
\* takes over the entries of another table.
LEMMA ActiveStarts ==
    ASSUME TypeInv, TableInv, NEW b \in BOOLEAN, pc \notin Writing,
           BeginWrite([entries["primary"] EXCEPT !.active = b], "install"), ~blind'
    PROVE  entries["primary"].userdata = OnDisk.userdata
<1> DEFINE t == [entries["primary"] EXCEPT !.active = b]
<1>t. entries["primary"] \in Table /\ entries["secondary"] \in Table
  BY DEF TypeInv, TypeOK, Copy
<1>1. Valid("primary") \/ t = head["primary"]
  BY DEF BeginWrite
<1>2. CASE Valid("primary")
  BY <1>2 DEF OnDisk
<1>3. CASE ~Valid("primary")
  <2>1. t = head["primary"] /\ OnDisk = entries["secondary"]
    BY <1>1, <1>3 DEF OnDisk
  <2>2. PICK n \in Cut : entries["primary"] = Torn(entries["secondary"], head["primary"], n)
    BY <1>3 DEF TableInv
  <2>3. n \in 0..4
    BY CutIsPrefix
  <2>4. CASE n > 0
    <3>1. entries["primary"].active = t.active
      BY <2>1, <2>2, <2>4 DEF Torn
    <3>2. t = entries["primary"]
      BY <3>1, <1>t DEF Table
    <3>. QED
      BY <3>2, <2>1, <1>3 DEF Valid
  <2>5. CASE n = 0
    BY <2>1, <2>2, <2>5 DEF Torn
  <2>. QED
    BY <2>3, <2>4, <2>5
<1>. QED
  BY <1>2, <1>3

\* What userdata_backup and the others do does not move it.
LEMMA QuietStarts ==
    ASSUME Quiet, NEW u
    PROVE  StartsAt(u)' <=> StartsAt(u)
BY DEF Quiet, StartsAt, OnDisk, Valid, Writing

-----------------------------------------------------------------------------
(* The user's data.                                                        *)

\* Something has happened after which the data need not be kept.
Excused == given_up \/ blind \/ removed

\* What follows the backup, or the agreement to do without one.
Afterwards == Writing \cup {"unmark", "update", "reread", "erase", "cache", "install", "restore"}

\* Data that are only on the eMMC are where the kernel finds them now and will
\* find them however the writing of a table ends; once a package that moves
\* userdata has come to change the eMMC there is a backup.
OnlyCopyInPlace ==
    ~Excused /\ archive = None /\ data # None =>
        \A u : u = data.at => u = kernel.userdata /\ StartsAt(u)
BackedUp ==
    pc \in Afterwards /\ usrdata_changed /\ ~Excused /\ data # None => archive # None
KeptInv == OnlyCopyInPlace /\ BackedUp

LEMMA InitKept == Init => KeptInv
<1> SUFFICES ASSUME Init PROVE KeptInv
  OBVIOUS
<1>1. PICK o \in Offsets :
        /\ head = [c \in Copy |-> TableOf(o)] /\ entries = [c \in Copy |-> TableOf(o)]
        /\ kernel = TableOf(o) /\ data = [at |-> o.userdata, size |-> Room(o.userdata)]
        /\ pc = "idle"
  BY DEF Init
<1>2. OnDisk = TableOf(o) /\ kernel.userdata = o.userdata
  BY <1>1 DEF OnDisk, Copy, TableOf
<1>. QED
  BY <1>1, <1>2 DEF KeptInv, OnlyCopyInPlace, BackedUp, StartsAt, Writing, Afterwards, TableOf

LEMMA StepKept ==
    /\ TypeInv /\ TypeInv' /\ TableInv /\ PlaceInv /\ SizeInv /\ KeptInv
    /\ [Next]_vars
    => KeptInv'
<1> SUFFICES ASSUME TypeInv, TypeInv', TableInv, PlaceInv, SizeInv, KeptInv, [Next]_vars
             PROVE  KeptInv'
  OBVIOUS
<1> DEFINE SamePlace == data' # None => data # None /\ data'.at = data.at
           NoWorse == ~Excused' /\ archive' = None => ~Excused /\ archive = None
<1>t. data \in Data \cup {None}
  BY DEF TypeInv, TypeOK
<1>s. ASSUME NEW f, NEW e, data' \in {data, Spared(f, e)} PROVE SamePlace
  BY <1>s DEF Spared
<1>r. ASSUME data' \in {data, Shrunk} PROVE SamePlace
  <2>1. CASE InPlace
    BY <2>1, <1>r, <1>t DEF InPlace, Data, Shrunk
  <2>2. CASE ~InPlace
    <3>1. data' \in {data, Spared(kernel.userdata, DiskEnd)}
      BY <2>2, <1>r DEF Shrunk
    <3>. QED
      BY <3>1, <1>s
  <2>. QED
    BY <2>1, <2>2
<1>q. ASSUME Quiet, SamePlace, NoWorse PROVE OnlyCopyInPlace'
  <2> SUFFICES ASSUME ~Excused', archive' = None, data' # None, NEW u, u = data'.at
               PROVE  u = kernel'.userdata /\ StartsAt(u)'
    BY DEF OnlyCopyInPlace
  <2>1. u = kernel.userdata /\ StartsAt(u)
    BY <1>q DEF KeptInv, OnlyCopyInPlace
  <2>2. StartsAt(u)'
    BY <2>1, <1>q, QuietStarts
  <2>3. kernel' \in {kernel, OnDisk} /\ OnDisk.userdata = u
    BY <2>1, <1>q DEF Quiet, StartsAt
  <2>. QED
    BY <2>1, <2>2, <2>3
<1>b. ASSUME pc' \notin Afterwards \/ ~usrdata_changed' \/ given_up' \/ data' = None
      PROVE  BackedUp'
  BY <1>b DEF BackedUp, Excused
<1>c. ASSUME pc \in Afterwards, usrdata_changed' = usrdata_changed, SamePlace, NoWorse
      PROVE  BackedUp'
  BY <1>c DEF KeptInv, BackedUp
<1>1. CASE Check
  <2> SUFFICES ASSUME NEW o \in Offsets,
                      \/ CheckSame(o) \/ CheckFails(o) \/ CheckDataStays(o)
                      \/ CheckEncrypted(o) \/ CheckChanged(o) \/ CheckAgain(o)
               PROVE  KeptInv'
    BY <1>1 DEF Check
  <2>1. /\ data' = data /\ archive' = archive /\ removed' = removed /\ blind' = blind
        /\ given_up => given_up'
        /\ usrdata_changed' = Changed(o)
    BY DEF CheckSame, CheckFails, CheckDataStays, CheckEncrypted, CheckChanged,
           CheckAgain, Compare, card, tables
  <2>2. OnlyCopyInPlace'
    BY <1>1, <1>q, <2>1, OthersAreQuiet DEF Excused
  <2>3. pc' \notin Afterwards \/ ~usrdata_changed' \/ given_up'
    BY <2>1 DEF CheckSame, CheckFails, CheckDataStays, CheckEncrypted, CheckChanged,
                CheckAgain, Proceed, Moved, Afterwards, Writing
  <2>. QED
    BY <1>b, <2>2, <2>3 DEF KeptInv
<1>2. CASE BackUp
  <2>q. ASSUME SamePlace, NoWorse PROVE OnlyCopyInPlace'
    BY <1>2, <2>q, <1>q, OthersAreQuiet
  <2>1. CASE ResizeDone
    <3>1. /\ pc' = "backup" /\ UNCHANGED <<archive, removed, blind, given_up>>
          /\ data' = Shrunk
      BY <2>1 DEF ResizeDone, Goto, card, tables, flags
    <3>. QED
      BY <3>1, <1>r, <1>b, <2>q DEF KeptInv, Excused, Afterwards, Writing
  <2>2. CASE ResizeFails
    <3>1. /\ pc' = "idle" \/ (pc' = "update" /\ given_up')
          /\ UNCHANGED <<archive, removed, blind>>
          /\ given_up => given_up'
          /\ data' \in {data, Shrunk}
      BY <2>2 DEF ResizeFails, ResizeGoesWrong, Return, Goto, card, tables
    <3>. QED
      BY <3>1, <1>r, <1>b, <2>q DEF KeptInv, Excused, Afterwards, Writing
  <2>3. CASE StartBackup \/ BackupFails \/ CopyFails
    <3>1. /\ pc' \in {"copy", "idle"} /\ UNCHANGED <<data, blind, given_up>>
          /\ removed => removed'
          /\ archive' = archive \/ removed'
      <4>1. CleanUp => (removed => removed') /\ (archive' = archive \/ removed')
        BY DEF CleanUp
      <4>2. CASE StartBackup
        BY <4>1, <4>2 DEF StartBackup, Goto, tables, flags
      <4>3. CASE BackupFails
        BY <4>1, <4>3 DEF BackupFails, Return, tables, flags
      <4>4. CASE CopyFails
        BY <4>4 DEF CopyFails, Return, card, tables, flags
      <4>. QED
        BY <2>3, <4>2, <4>3, <4>4
    <3>. QED
      BY <3>1, <1>b, <2>q DEF KeptInv, Excused, Afterwards, Writing
  <2>4. CASE CopyDone
    <3>1. /\ pc = "copy" /\ UNCHANGED <<data, blind, given_up, removed>>
      BY <2>4 DEF CopyDone, Goto, tables, flags
    <3>2. InPlace => archive' # None
      BY <2>4, <3>1 DEF CopyDone, SizeInv, TypeInv, TypeOK
    <3>3. archive' = None => archive = None
      BY <2>4, <3>2 DEF CopyDone
    <3>4. OnlyCopyInPlace'
      BY <3>1, <3>3, <2>q DEF Excused
    <3>5. BackedUp'
      <4> SUFFICES ASSUME ~Excused', data' # None, archive' = None PROVE FALSE
        BY DEF BackedUp
      <4>1. ~Excused /\ data # None /\ archive = None
        BY <3>1, <3>3 DEF Excused
      <4>2. InPlace
        BY <4>1 DEF KeptInv, OnlyCopyInPlace, InPlace
      <4>. QED
        BY <4>2, <3>2
    <3>. QED
      BY <3>4, <3>5 DEF KeptInv
  <2>5. CASE Unmark
    <3>1. /\ pc = "unmark"
          /\ UNCHANGED <<data, archive, blind, given_up, removed, usrdata_changed>>
      BY <2>5 DEF Unmark, Goto, tables, flags
    <3>. QED
      BY <3>1, <1>c, <2>q DEF KeptInv, Excused, Afterwards
  <2>. QED
    BY <1>2, <2>1, <2>2, <2>3, <2>4, <2>5 DEF BackUp
<1>3. CASE Update
  <2>1. ASSUME pc \in Afterwards, UNCHANGED <<card, data, flags>>, blind => blind'
        PROVE  SamePlace /\ NoWorse /\ BackedUp' /\ (~Excused' => ~Excused)
    <3>1. NoWorse /\ (~Excused' => ~Excused)
      BY <2>1 DEF Excused, card, flags
    <3>. QED
      BY <2>1, <3>1, <1>c DEF flags
  <2>q. ASSUME Quiet, pc \in Afterwards, UNCHANGED <<card, data, flags>>
        PROVE  KeptInv'
    BY <2>q, <2>1, <1>q DEF Quiet, KeptInv
  <2>2. CASE UpdateFails \/ NothingWritten \/ Reread \/ RereadFails
    <3>1. pc \in Afterwards /\ UNCHANGED <<card, data, flags>>
      BY <2>2 DEF UpdateFails, NothingWritten, Reread, RereadFails, Return, Goto, Afterwards
    <3>. QED
      BY <2>2, <3>1, <2>q, OthersAreQuiet
  <2>3. ASSUME NEW t, NEW to, BeginWrite(t, to), pc \in {"update", "install"},
               UNCHANGED <<seen, card, data, flags>>,
               ~Excused' /\ archive = None /\ data # None /\ OnDisk.userdata = kernel.userdata
                  => t.userdata = OnDisk.userdata
        PROVE  KeptInv'
    <3>1. blind => blind'
      BY <2>3 DEF BeginWrite
    <3>2. pc \in Afterwards /\ pc \notin Writing
      BY <2>3 DEF Afterwards, Writing
    <3>3. BackedUp' /\ (~Excused' => ~Excused)
      BY <2>1, <2>3, <3>1, <3>2
    <3>4. OnlyCopyInPlace'
      <4> SUFFICES ASSUME ~Excused', archive' = None, data' # None, NEW u, u = data'.at
                   PROVE  u = kernel'.userdata /\ StartsAt(u)'
        BY DEF OnlyCopyInPlace
      <4>1. data' = data /\ archive' = archive /\ kernel' = kernel
        BY <2>3 DEF seen, card
      <4>2. u = kernel.userdata /\ OnDisk.userdata = u
        BY <4>1, <3>2, <3>3 DEF KeptInv, OnlyCopyInPlace, StartsAt
      <4>3. t.userdata = u
        BY <2>3, <4>1, <4>2
      <4>4. StartsAt(u)'
        BY <2>3, <3>2, <4>2, <4>3, BeginStarts
      <4>. QED
        BY <4>1, <4>2, <4>4
    <3>. QED
      BY <3>3, <3>4 DEF KeptInv
  <2>4. CASE BeginUpdate
    <3>1. /\ pc = "update" /\ UNCHANGED <<seen, card, data, flags>>
          /\ BeginWrite(Recomputed(entries["primary"], part_scatter), "reread")
      BY <2>4 DEF BeginUpdate
    <3>2. blind => blind'
      BY <3>1 DEF BeginWrite
    <3>3. ~Excused' => ~Excused
      BY <3>1, <3>2, <2>1 DEF Afterwards
    <3>4. ~Excused' /\ archive = None /\ data # None => part_scatter.userdata = kernel.userdata
      BY <3>1, <3>3 DEF KeptInv, BackedUp, PlaceInv, Afterwards
    <3>5. Recomputed(entries["primary"], part_scatter).userdata = part_scatter.userdata
      BY DEF Recomputed
    <3>. QED
      BY <3>1, <3>4, <3>5, <2>3
  <2>5. CASE SetActive
    <3>1. PICK b \in BOOLEAN : BeginWrite([entries["primary"] EXCEPT !.active = b], "install")
      BY <2>5 DEF SetActive
    <3>2. pc = "install" /\ pc \notin Writing /\ UNCHANGED <<seen, card, data, flags>>
      BY <2>5 DEF SetActive, Writing
    <3>3. [entries["primary"] EXCEPT !.active = b].userdata = entries["primary"].userdata
      BY DEF TypeInv, TypeOK, Copy, Table
    <3>4. ~Excused' => entries["primary"].userdata = OnDisk.userdata
      BY <3>1, <3>2, ActiveStarts DEF Excused
    <3>. QED
      BY <3>1, <3>2, <3>3, <3>4, <2>3
  <2>6. CASE (\E c \in Copy : WriteEntries(c)) \/ WriteLastHeader \/ WriteFails
    <3>1. /\ pc \in Writing /\ pc' \in {"SPE", "SGPT", then} /\ then \in {"reread", "install"}
          /\ UNCHANGED <<seen, blind, card, data, flags>>
      BY <2>6, WriteSteps
    <3>2. BackedUp' /\ (~Excused' => ~Excused)
      BY <3>1, <2>1 DEF Afterwards
    <3>3. \/ \E c \in Copy : WriteEntries(c)
          \/ WriteLastHeader
          \/ CutShort /\ pc' \notin Writing
      BY <2>6, <3>1 DEF WriteFails, EndWrite, Writing
    <3>4. \A u : StartsAt(u) => StartsAt(u)'
      BY <3>3, WriteStarts
    <3>5. data' = data /\ archive' = archive /\ kernel' = kernel
      BY <3>1 DEF seen, card
    <3>. QED
      BY <3>2, <3>4, <3>5 DEF KeptInv, OnlyCopyInPlace
  <2>. QED
    BY <1>3, <2>2, <2>4, <2>5, <2>6 DEF Update
<1>4. CASE Continue
  <2>q. ASSUME SamePlace, UNCHANGED <<archive, removed, blind, given_up>>
        PROVE  OnlyCopyInPlace' /\ NoWorse
    BY <1>4, <2>q, <1>q, OthersAreQuiet DEF Excused
  <2>1. CASE Erase \/ EraseFails \/ FormatCache \/ Install
    <3>1. /\ pc \in Afterwards /\ usrdata_changed' = usrdata_changed
          /\ UNCHANGED <<archive, removed, blind, given_up>>
      BY <2>1 DEF Erase, EraseFails, FormatCache, Install, Return, Goto, card, tables,
                  flags, Afterwards
    <3>2. SamePlace
      <4>1. CASE Erase \/ EraseFails
        BY <4>1 DEF Erase, EraseFails
      <4>2. CASE FormatCache \/ Install
        BY <4>2, <1>s DEF FormatCache, Install
      <4>. QED
        BY <2>1, <4>1, <4>2
    <3>. QED
      BY <3>1, <3>2, <2>q, <1>c DEF KeptInv
  <2>2. CASE \/ NothingToRestore \/ Restore \/ RestoreFails \/ RestoreFromCard
             \/ RestoreCopyFails
    <3>1. /\ pc' \in {"idle", "restore_copy", "card_copy"}
          /\ UNCHANGED <<archive, removed, blind, given_up>>
          /\ data' \in {data, None}
      BY <2>2 DEF NothingToRestore, Restore, RestoreFails, RestoreFromCard,
                  RestoreCopyFails, Goto, card, tables, flags
    <3>. QED
      BY <3>1, <2>q, <1>b DEF KeptInv, Afterwards, Writing
  <2>3. CASE RestoreDone
    <3>1. pc' = "idle" /\ archive' = archive
      BY <2>3 DEF RestoreDone, card
    <3>2. archive # None \/ data' = None
      BY <2>3 DEF RestoreDone, TypeInv, TypeOK, Context
    <3>. QED
      BY <3>1, <3>2 DEF KeptInv, OnlyCopyInPlace, BackedUp, Afterwards, Writing
  <2>. QED
    BY <1>4, <2>1, <2>2, <2>3 DEF Continue
<1>5. CASE SetForce
  <2>1. /\ pc' = "idle" /\ UNCHANGED <<data, archive, removed, blind, given_up>>
    BY <1>5 DEF SetForce, card, tables
  <2>. QED
    BY <1>5, <2>1, <1>q, <1>b, OthersAreQuiet DEF KeptInv, Excused, Afterwards, Writing
<1>6. CASE Crash
  <2>1. /\ pc' = "idle" /\ UNCHANGED <<data, archive, removed, blind, given_up>>
        /\ kernel' = OnDisk'
    BY <1>6 DEF Crash, Restart
  <2>2. \A u : StartsAt(u) => StartsAt(u)'
    <3>1. CASE CutShort
      BY <3>1, <2>1, WriteStarts DEF Writing
    <3>2. CASE pc \notin Writing /\ UNCHANGED <<head, entries, unsound>>
      BY <3>2, <2>1 DEF StartsAt, OnDisk, Valid, Writing
    <3>. QED
      BY <1>6, <3>1, <3>2 DEF Crash
  <2>3. \A u : StartsAt(u)' => kernel'.userdata = u
    BY <2>1 DEF StartsAt, Writing
  <2>4. OnlyCopyInPlace'
    BY <2>1, <2>2, <2>3 DEF KeptInv, OnlyCopyInPlace, Excused
  <2>. QED
    BY <2>1, <2>4, <1>b DEF KeptInv, Afterwards, Writing
<1>7. CASE Use
  <2>1. pc' = "idle" /\ UNCHANGED <<head, entries>> /\ kernel' = OnDisk
    BY <1>7 DEF Use, Restart
  <2>2. data'.at = OnDisk.userdata
    BY <1>7 DEF Use
  <2>3. OnDisk' = OnDisk
    BY <2>1 DEF OnDisk, Valid
  <2>. QED
    BY <2>1, <2>2, <2>3, <1>b DEF KeptInv, OnlyCopyInPlace, StartsAt, Afterwards, Writing
<1>8. CASE UNCHANGED vars
  <2>1. UNCHANGED <<tables, kernel, pc, data, archive, removed, given_up, usrdata_changed>>
    BY <1>8 DEF vars, seen, card, flags
  <2>2. UNCHANGED <<head, entries, unsound, blind>>
    BY <2>1 DEF tables
  <2>3. \A u : StartsAt(u)' <=> StartsAt(u)
    BY <2>1, <2>2 DEF StartsAt, OnDisk, Valid
  <2>. QED
    BY <2>1, <2>2, <2>3 DEF KeptInv, OnlyCopyInPlace, BackedUp, Excused
<1>. QED
  BY <1>1, <1>2, <1>3, <1>4, <1>5, <1>6, <1>7, <1>8 DEF Next

\* The blocks that are written for other partitions are not those of the data.
LEMMA NotSpared ==
    ASSUME TypeInv, WholeInv, ~blind, InPlace
    PROVE  /\ Spared(kernel.cache, kernel.cache_end) = data
           /\ Spared(0, kernel.system_end) = data
<1>1. Ordered(kernel)
  BY DEF WholeInv
<1>2. kernel.cache \in Nat /\ kernel.userdata \in Nat
  BY LbaOnDisk DEF TypeInv, TypeOK, Table
<1>3. /\ kernel.cache_end = data.at /\ ~(data.at < data.at)
      /\ kernel.system_end = kernel.cache /\ kernel.cache < data.at
      /\ ~(data.at < kernel.cache)
  BY <1>1, <1>2 DEF Ordered, Whole, InPlace
<1>. QED
  BY <1>3 DEF Spared

LEMMA StepLoses ==
    ASSUME TypeInv, WholeInv, PlaceInv, KeptInv, [Next]_vars, Kept, ~Kept',
           ~given_up, ~blind
    PROVE  removed'
<1> SUFFICES ASSUME ~removed' PROVE FALSE
  OBVIOUS
<1>n. data' = None /\ archive' = None
  BY DEF Kept
<1>t. data \in Data \cup {None} /\ kernel.userdata \in Lba
  BY DEF TypeInv, TypeOK, Table
\* A step that loses data which are not on the card.
<1>k. ASSUME UNCHANGED <<archive, removed>>
      PROVE  /\ archive = None /\ data # None /\ InPlace
             /\ ~(pc \in Afterwards /\ usrdata_changed)
  <2>1. ~Excused /\ archive = None /\ data # None
    BY <1>k, <1>n DEF Excused, Kept
  <2>. QED
    BY <2>1 DEF KeptInv, OnlyCopyInPlace, BackedUp, InPlace
<1>1. CASE Check \/ SetForce \/ Crash \/ UNCHANGED vars
  <2>1. UNCHANGED <<data, archive>>
    BY <1>1 DEF Check, CheckSame, CheckFails, CheckDataStays, CheckEncrypted, CheckChanged,
                CheckAgain, Compare, SetForce, Crash, card, vars
  <2>. QED
    BY <2>1 DEF Kept
<1>2. CASE BackUp
  <2>1. CASE ResizeDone \/ ResizeFails
    <3>1. pc = "resize" /\ data' \in {data, Shrunk} /\ UNCHANGED <<archive, removed>>
      BY <2>1 DEF ResizeDone, ResizeFails, ResizeGoesWrong, Return, Goto, card
    <3>2. InPlace
      BY <3>1, <1>k
    <3>3. part_scatter \in Offsets
      BY <3>1 DEF TypeInv, Context
    <3>4. Shrunk \in Data
      BY <3>2, <3>3, <1>t, OffsetType, RoomType DEF Shrunk, InPlace, Data
    <3>. QED
      BY <3>1, <3>2, <3>4, <1>n, NoneIsNothing DEF InPlace
  <2>2. CASE StartBackup \/ BackupFails
    <3>1. CleanUp \/ archive' = archive
      BY <2>2 DEF StartBackup, BackupFails
    <3>2. archive' = archive /\ data' = data
      BY <2>2, <3>1 DEF StartBackup, BackupFails, CleanUp
    <3>. QED
      BY <3>2 DEF Kept
  <2>3. CASE CopyDone \/ CopyFails \/ Unmark
    <3>1. data' = data
      BY <2>3 DEF CopyDone, CopyFails, Unmark
    <3>2. data = None /\ archive # None
      BY <3>1, <1>n DEF Kept
    <3>3. archive' = archive
      BY <2>3, <3>2 DEF CopyDone, CopyFails, Unmark, InPlace, card
    <3>. QED
      BY <3>2, <3>3, <1>n
  <2>. QED
    BY <1>2, <2>1, <2>2, <2>3 DEF BackUp
<1>3. CASE Update
  <2>1. UNCHANGED <<data, archive>>
    <3>1. CASE \/ BeginUpdate \/ UpdateFails \/ NothingWritten \/ SetActive
               \/ Reread \/ RereadFails
      BY <3>1 DEF BeginUpdate, UpdateFails, NothingWritten, SetActive, Reread,
                  RereadFails, card
    <3>2. CASE (\E c \in Copy : WriteEntries(c)) \/ WriteLastHeader \/ WriteFails
      BY <3>2, WriteSteps DEF card
    <3>. QED
      BY <1>3, <3>1, <3>2 DEF Update
  <2>. QED
    BY <2>1 DEF Kept
<1>4. CASE Continue
  <2>1. UNCHANGED <<archive, removed>>
    BY <1>4 DEF Continue, Erase, EraseFails, FormatCache, Install, NothingToRestore,
                Restore, RestoreFails, RestoreFromCard, RestoreDone, RestoreCopyFails, card
  <2>2. /\ archive = None /\ data # None /\ InPlace
        /\ ~(pc \in Afterwards /\ usrdata_changed)
    BY <2>1, <1>k
  <2>3. CASE Erase \/ EraseFails
    BY <2>3, <2>2, <1>n DEF Erase, EraseFails, Return, Goto, Afterwards
  <2>4. CASE FormatCache \/ Install
    BY <2>4, <2>2, <1>n, NotSpared DEF FormatCache, Install
  <2>5. CASE NothingToRestore \/ Restore \/ RestoreFails
    BY <2>5, <2>2 DEF NothingToRestore, Restore, RestoreFails, Goto, Afterwards, PlaceInv
  <2>6. CASE RestoreFromCard
    BY <2>6, <2>2 DEF RestoreFromCard
  <2>7. CASE RestoreDone \/ RestoreCopyFails
    BY <2>7, <2>2 DEF RestoreDone, RestoreCopyFails, TypeInv, Context, PlaceInv
  <2>. QED
    BY <1>4, <2>3, <2>4, <2>5, <2>6, <2>7 DEF Continue
<1>5. CASE Use
  <2>1. OnDisk.userdata \in Lba
    BY DEF OnDisk, TypeInv, TypeOK, Copy, Table
  <2>2. [at |-> OnDisk.userdata, size |-> Room(OnDisk.userdata)] \in Data
    BY <2>1, RoomType DEF Data
  <2>. QED
    BY <1>5, <1>n, <2>2, NoneIsNothing DEF Use
<1>. QED
  BY <1>1, <1>2, <1>3, <1>4, <1>5 DEF Next

\* In no execution is the last copy of the user's data destroyed, on the eMMC or
\* on the card, without the user's agreement, unless an update took over entries
\* that fail their CRC or a complete backup was taken for an incomplete one.
THEOREM LastCopyKept == Spec => DataKept
<1>1. TypeInv /\ WholeInv /\ PlaceInv /\ KeptInv /\ [Next]_vars
      => [Kept /\ ~Kept' => given_up \/ blind \/ removed']_vars
  BY StepLoses
<1>. QED
  BY <1>1, InitTypes, StepTypes, InitTable, StepTable, InitWhole, StepWhole,
     InitPlace, StepPlace, InitSize, StepSize, InitKept, StepKept, PTL
  DEF Spec, DataKept

\* However an update ended, data that are not on the card start where the next
\* start of the phone finds userdata, and cache ends before them.
THEOREM DataFound == Spec => []DataReachable
<1>1. TypeInv /\ TableInv /\ WholeInv /\ KeptInv => DataReachable
  <2> SUFFICES ASSUME TypeInv, TableInv, WholeInv, KeptInv,
                      pc = "idle", archive = None, data # None, ~Excused
               PROVE  data.at = OnDisk.userdata /\ OnDisk.cache_end <= data.at
    BY DEF DataReachable, Excused
  <2>1. data.at = OnDisk.userdata
    BY DEF KeptInv, OnlyCopyInPlace, StartsAt, Writing
  <2>2. Ordered(OnDisk)
    BY DiskOrdered DEF WholeInv, Excused, Writing
  <2>3. OnDisk.userdata \in Nat
    BY LbaOnDisk DEF OnDisk, TypeInv, TypeOK, Copy, Table
  <2>. QED
    BY <2>1, <2>2, <2>3 DEF Ordered, Whole
<1>. QED
  BY <1>1, InitTypes, StepTypes, InitTable, StepTable, InitWhole, StepWhole,
     InitPlace, StepPlace, InitSize, StepSize, InitKept, StepKept, PTL
  DEF Spec

-----------------------------------------------------------------------------
(* Room for the backup.                                                    *)

\* What the kernel will find is what it sees, or what the package asks for.
SeenInv ==
    ~stale /\ ~blind =>
        /\ pc \notin Writing \cup {"reread"} => OnDisk.userdata = kernel.userdata
        /\ pc \in Writing /\ then = "install" => \A u : u = kernel.userdata => StartsAt(u)
        /\ pc \in Writing /\ then = "reread" =>
              head["primary"].userdata = part_scatter.userdata
        /\ pc = "PPE" /\ ~unsound => entries["secondary"].userdata = kernel.userdata
        /\ pc = "reread" => OnDisk.userdata \in {kernel.userdata, part_scatter.userdata}

LEMMA InitSeen == Init => SeenInv
<1> SUFFICES ASSUME Init PROVE SeenInv
  OBVIOUS
<1>1. PICK o \in Offsets : /\ entries = [c \in Copy |-> TableOf(o)]
                          /\ kernel = TableOf(o) /\ pc = "idle"
  BY DEF Init
<1>2. OnDisk = TableOf(o)
  BY <1>1 DEF OnDisk, Copy
<1>. QED
  BY <1>1, <1>2 DEF SeenInv, Writing

LEMMA StepSeen == TypeInv /\ TableInv /\ SeenInv /\ [Next]_vars => SeenInv'
<1> SUFFICES ASSUME TypeInv, TableInv, SeenInv, [Next]_vars, ~stale', ~blind' PROVE SeenInv'
  BY DEF SeenInv
<1>1. ASSUME Quiet, UNCHANGED seen, pc # "reread"
      PROVE  SeenInv'
  <2>1. OnDisk' = OnDisk /\ kernel' = kernel /\ ~stale /\ ~blind
    BY <1>1 DEF Quiet, OnDisk, Valid, seen
  <2>2. OnDisk.userdata = kernel.userdata
    BY <1>1, <2>1 DEF SeenInv, Quiet
  <2>. QED
    BY <1>1, <2>1, <2>2 DEF SeenInv, Quiet, Writing
<1>2. ASSUME kernel' = OnDisk', pc' \notin Writing PROVE SeenInv'
  BY <1>2 DEF SeenInv, Writing
<1>3. CASE Check \/ BackUp \/ Continue \/ SetForce \/ UpdateFails \/ NothingWritten
  <2>1. UNCHANGED seen /\ pc # "reread"
    <3>1. CASE Check \/ SetForce
      BY <3>1 DEF Check, CheckSame, CheckFails, CheckDataStays, CheckEncrypted,
                  CheckChanged, CheckAgain, Compare, SetForce
    <3>2. CASE BackUp
      BY <3>2 DEF BackUp, ResizeDone, ResizeFails, ResizeGoesWrong, StartBackup,
                  BackupFails, CopyDone, CopyFails, Unmark, Goto, Return
    <3>3. CASE Continue
      BY <3>3 DEF Continue, Erase, EraseFails, FormatCache, Install, NothingToRestore,
                  Restore, RestoreFails, RestoreFromCard, RestoreDone, RestoreCopyFails,
                  Goto, Return
    <3>4. CASE UpdateFails \/ NothingWritten
      BY <3>4 DEF UpdateFails, NothingWritten, Goto, Return
    <3>. QED
      BY <1>3, <3>1, <3>2, <3>3, <3>4
  <2>. QED
    BY <1>1, <1>3, <2>1, OthersAreQuiet
<1>4. CASE Reread \/ RereadFails \/ Use
  <2>1. Quiet /\ kernel' = OnDisk
    BY <1>4, OthersAreQuiet DEF Reread, RereadFails, Use
  <2>2. OnDisk' = OnDisk
    BY <2>1 DEF Quiet, OnDisk, Valid
  <2>. QED
    BY <1>2, <2>1, <2>2 DEF Quiet
<1>5. CASE Crash
  BY <1>2, <1>5 DEF Crash, Restart, Writing
<1>b. ASSUME NEW t, NEW to, BeginWrite(t, to), pc \in {"update", "install"}, UNCHANGED seen
      PROVE  /\ ~stale /\ ~blind /\ pc \notin Writing /\ kernel' = kernel
             /\ OnDisk.userdata = kernel.userdata
             /\ pc' = "PPE" /\ then' = to /\ head'["primary"] = t
             /\ ~unsound' => entries'["secondary"].userdata = kernel.userdata
  <2>1. ~stale /\ ~blind /\ pc \notin Writing /\ kernel' = kernel
    BY <1>b DEF BeginWrite, seen, Writing
  <2>2. OnDisk.userdata = kernel.userdata
    BY <1>b, <2>1 DEF SeenInv
  <2>3. ~unsound => entries["secondary"] = OnDisk
    BY <2>1 DEF TableInv, OnDisk, Copy, Valid, Writing
  <2>. QED
    BY <1>b, <2>1, <2>2, <2>3 DEF BeginWrite, TypeInv, TypeOK, Copy
<1>6. CASE BeginUpdate
  <2>1. /\ pc = "update" /\ UNCHANGED <<seen, part_scatter>>
        /\ BeginWrite(Recomputed(entries["primary"], part_scatter), "reread")
    BY <1>6 DEF BeginUpdate
  <2>2. Recomputed(entries["primary"], part_scatter).userdata = part_scatter.userdata
    BY DEF Recomputed
  <2>3. /\ kernel' = kernel /\ pc' = "PPE" /\ then' = "reread"
        /\ head'["primary"].userdata = part_scatter.userdata
        /\ ~unsound' => entries'["secondary"].userdata = kernel.userdata
    BY <1>b, <2>1, <2>2
  <2>. QED
    BY <2>1, <2>3 DEF SeenInv, Writing
<1>7. CASE SetActive
  <2>1. PICK b \in BOOLEAN : BeginWrite([entries["primary"] EXCEPT !.active = b], "install")
    BY <1>7 DEF SetActive
  <2>2. pc = "install" /\ UNCHANGED seen
    BY <1>7 DEF SetActive
  <2>3. /\ pc \notin Writing /\ kernel' = kernel /\ pc' = "PPE" /\ then' = "install"
        /\ OnDisk.userdata = kernel.userdata
        /\ ~unsound' => entries'["secondary"].userdata = kernel.userdata
    BY <1>b, <2>1, <2>2
  <2>4. entries["primary"].userdata = kernel.userdata
    BY <2>1, <2>3, ActiveStarts
  <2>5. [entries["primary"] EXCEPT !.active = b].userdata = kernel.userdata
    BY <2>4 DEF TypeInv, TypeOK, Copy, Table
  <2>6. \A u : u = kernel.userdata => StartsAt(u)'
    BY <2>1, <2>3, <2>5, BeginStarts
  <2>. QED
    BY <2>3, <2>6 DEF SeenInv, Writing
<1>8. CASE (\E c \in Copy : WriteEntries(c)) \/ WriteLastHeader \/ WriteFails
  <2>1. /\ pc \in Writing /\ pc' \in {"SPE", "SGPT", then} /\ then \in {"reread", "install"}
        /\ then' = then \/ pc' = then
        /\ UNCHANGED <<seen, blind, part_scatter>>
    BY <1>8, WriteSteps
  <2>2. /\ ~stale /\ ~blind /\ kernel' = kernel
        /\ \/ \E c \in Copy : WriteEntries(c)
           \/ WriteLastHeader
           \/ CutShort /\ pc' \notin Writing
    <3>1. WriteFails => CutShort /\ pc' \notin Writing
      BY <2>1 DEF WriteFails, EndWrite, Writing
    <3>. QED
      BY <1>8, <2>1, <3>1 DEF seen
  <2>3. CASE then = "install"
    <3>1. \A u : u = kernel.userdata => StartsAt(u)'
      BY <2>1, <2>2, <2>3, WriteStarts DEF SeenInv
    <3>. QED
      BY <2>1, <2>2, <2>3, <3>1 DEF SeenInv, StartsAt, Writing
  <2>4. CASE then = "reread"
    <3>1. head["primary"].userdata = part_scatter.userdata
      BY <2>1, <2>2, <2>4 DEF SeenInv
    <3>2. head'["primary"] = head["primary"]
      BY <1>8 DEF WriteEntries, WriteLastHeader, WriteFails, CutShort, TypeInv, TypeOK, Copy
    <3>3. pc' # "reread" => pc' \in {"SPE", "SGPT"} /\ then' = "reread"
      BY <2>1, <2>4
    <3>4. pc' = "reread" => OnDisk'.userdata \in {kernel.userdata, part_scatter.userdata}
      <4> SUFFICES ASSUME pc' = "reread"
                   PROVE  OnDisk'.userdata \in {kernel.userdata, part_scatter.userdata}
        OBVIOUS
      <4>1. \/ pc = "PPE" /\ WriteFails
            \/ Valid("primary") /\ entries'["primary"] = entries["primary"]
        <5>1. CASE \E c \in Copy : WriteEntries(c)
          BY <5>1, <2>1, <2>4 DEF WriteEntries, Entries, Written, EndWrite, Following, Copy
        <5>2. CASE WriteLastHeader
          BY <5>2 DEF WriteLastHeader, TableInv
        <5>3. CASE WriteFails /\ pc # "PPE"
          <6>1. entries'["primary"] = entries["primary"]
            BY <5>3 DEF WriteFails, CutShort, Copy, Entries
          <6>. QED
            BY <5>3, <6>1, <2>1 DEF TableInv, Writing
        <5>. QED
          BY <1>8, <5>1, <5>2, <5>3
      <4>2. CASE pc = "PPE" /\ WriteFails
        <5>1. entries'["secondary"] = entries["secondary"] /\ ~unsound
          BY <4>2 DEF WriteFails, CutShort, Copy, Entries
        <5>2. entries["secondary"].userdata = kernel.userdata
          BY <4>2, <5>1, <2>2 DEF SeenInv
        <5>. QED
          BY <5>1, <5>2, <3>1, <3>2 DEF OnDisk, Valid
      <4>3. CASE Valid("primary") /\ entries'["primary"] = entries["primary"]
        BY <4>3, <3>1, <3>2 DEF OnDisk, Valid
      <4>. QED
        BY <4>1, <4>2, <4>3
    <3>. QED
      BY <2>1, <2>2, <3>1, <3>2, <3>3, <3>4 DEF SeenInv, Writing
  <2>. QED
    BY <2>1, <2>3, <2>4
<1>9. CASE UNCHANGED vars
  <2>1. UNCHANGED <<tables, kernel, stale, pc, part_scatter>>
    BY <1>9 DEF vars, seen
  <2>2. UNCHANGED <<head, entries, then, unsound, blind>>
    BY <2>1 DEF tables
  <2>3. OnDisk' = OnDisk
    BY <2>2 DEF OnDisk, Valid
  <2>4. \A u : StartsAt(u)' <=> StartsAt(u)
    BY <2>1, <2>2, <2>3 DEF StartsAt
  <2>. QED
    BY <2>1, <2>2, <2>3, <2>4 DEF SeenInv
<1>. QED
  BY <1>3, <1>4, <1>5, <1>6, <1>7, <1>8, <1>9 DEF Next, Update

Fits(start) == archive.size <= Room(start)

\* The way to Reread with a new table, and the way from there to the restoring.
ToReread == pc \in {"unmark", "update", "reread"} \/ (pc \in Writing /\ then = "reread")
ToRestore == pc \in {"cache", "install", "restore"} \/ (pc \in Writing /\ then = "install")

\* Until the kernel has read the table again it is open which of the two it will
\* find; the backup fits in both.
FitInv ==
    usrdata_changed /\ backup_path = "archive" =>
        /\ ToReread => \/ encrypted \/ isResizeFail # 0
                       \/ Fits(kernel.userdata) /\ Fits(part_scatter.userdata)
        /\ ToRestore => stale \/ blind \/ Fits(kernel.userdata)

LEMMA InitFit == Init => FitInv
BY DEF Init, FitInv

LEMMA StepFit == TypeInv /\ PlaceInv /\ SeenInv /\ FitInv /\ [Next]_vars => FitInv'
<1> SUFFICES ASSUME TypeInv, PlaceInv, SeenInv, FitInv, [Next]_vars PROVE FitInv'
  OBVIOUS
<1>0. CASE pc' \in {"idle", "resize", "backup", "copy", "restore_copy", "card_copy", "erase"}
  BY <1>0 DEF FitInv, ToReread, ToRestore, Writing
<1>u. CASE ~usrdata_changed'
  BY <1>u DEF FitInv
<1>k. ASSUME ToReread' => ToReread, ToRestore' => ToRestore,
             UNCHANGED <<kernel, stale, usrdata_changed, backup_path, archive, encrypted,
                         isResizeFail>>,
             blind => blind', ToReread' => part_scatter' = part_scatter
      PROVE  FitInv'
  BY <1>k DEF FitInv, Fits, Room
<1>1. CASE Check
  <2> SUFFICES ASSUME NEW o \in Offsets,
                      \/ CheckSame(o) \/ CheckFails(o) \/ CheckDataStays(o)
                      \/ CheckEncrypted(o) \/ CheckChanged(o) \/ CheckAgain(o)
               PROVE  FitInv'
    BY <1>1 DEF Check
  <2>1. CASE CheckSame(o) \/ CheckDataStays(o)
    BY <2>1, <1>u DEF CheckSame, CheckDataStays, Compare, Moved
  <2>2. CASE CheckFails(o) \/ CheckChanged(o)
    BY <2>2, <1>0 DEF CheckFails, CheckChanged, Proceed
  <2>3. CASE CheckEncrypted(o)
    BY <2>3 DEF CheckEncrypted, Compare, Proceed, FitInv, ToRestore, Writing
  <2>4. CASE CheckAgain(o)
    <3>1. pc' = "update" /\ isResizeFail' = Room(o.userdata)
      BY <2>4 DEF CheckAgain, Proceed
    <3>2. isResizeFail' # 0
      BY <3>1, OffsetType, RoomType
    <3>. QED
      BY <3>1, <3>2 DEF FitInv, ToRestore, Writing
  <2>. QED
    BY <2>1, <2>2, <2>3, <2>4
<1>2. CASE BackUp
  <2>1. CASE ResizeDone \/ StartBackup \/ BackupFails \/ CopyFails
    BY <2>1, <1>0 DEF ResizeDone, StartBackup, BackupFails, CopyFails, Return, Goto
  <2>2. CASE ResizeFails
    <3>1. pc = "resize" /\ pc' \in {"idle", "update"}
          /\ isResizeFail' = Room(part_scatter.userdata)
      BY <2>2 DEF ResizeFails, ResizeGoesWrong, Return, Goto
    <3>2. part_scatter \in Offsets
      BY <3>1 DEF TypeInv, Context
    <3>3. isResizeFail' # 0
      BY <3>1, <3>2, OffsetType, RoomType
    <3>. QED
      BY <3>1, <3>3, <1>0 DEF FitInv, ToRestore, Writing
  <2>3. CASE CopyDone
    <3>1. /\ pc = "copy" /\ pc' = "unmark" /\ UNCHANGED <<kernel, part_scatter>>
      BY <2>3 DEF CopyDone, Goto, seen
    <3>2. part_scatter \in Offsets
      BY <3>1 DEF TypeInv, Context
    <3>3. backup_path' = "archive" => archive'.size = backup_size
      BY <2>3, <3>1 DEF CopyDone, PlaceInv
    <3>4. Room(kernel.userdata) \in 1..DiskEnd /\ Room(part_scatter.userdata) \in 1..DiskEnd
      BY <3>2, OffsetType, RoomType DEF TypeInv, TypeOK, Table
    <3>5. backup_size <= Room(kernel.userdata) /\ backup_size <= Room(part_scatter.userdata)
      BY <3>4 DEF backup_size
    <3>6. Room(kernel.userdata)' = Room(kernel.userdata)
          /\ Room(part_scatter.userdata)' = Room(part_scatter.userdata)
      BY <3>1 DEF Room
    <3>. QED
      BY <3>1, <3>3, <3>5, <3>6 DEF FitInv, Fits, ToRestore, Writing
  <2>4. CASE Unmark
    BY <2>4, <1>k DEF Unmark, Goto, tables, seen, flags, ToReread, ToRestore, Writing
  <2>. QED
    BY <1>2, <2>1, <2>2, <2>3, <2>4 DEF BackUp
<1>3. CASE Update
  <2>1. CASE UpdateFails \/ RereadFails
    BY <2>1, <1>0 DEF UpdateFails, RereadFails, Return
  <2>2. CASE NothingWritten
    BY <2>2, <1>k DEF NothingWritten, Goto, tables, seen, card, flags, ToReread,
                      ToRestore, Writing
  <2>3. CASE BeginUpdate \/ SetActive
    <3>1. CASE BeginUpdate
      BY <3>1, <1>k DEF BeginUpdate, BeginWrite, seen, card, flags, ToReread, ToRestore, Writing
    <3>2. CASE SetActive
      <4>1. /\ pc = "install" /\ pc' = "PPE" /\ then' = "install" /\ (blind => blind')
            /\ UNCHANGED <<seen, part_scatter, card, flags>>
        BY <3>2 DEF SetActive, BeginWrite
      <4>. QED
        BY <4>1, <1>k DEF seen, card, flags, ToReread, ToRestore, Writing
    <3>. QED
      BY <2>3, <3>1, <3>2
  <2>4. CASE (\E c \in Copy : WriteEntries(c)) \/ WriteLastHeader \/ WriteFails
    <3>1. /\ pc \in Writing /\ pc' \in {"SPE", "SGPT", then} /\ then \in {"reread", "install"}
          /\ then' = then \/ pc' = then
          /\ UNCHANGED <<seen, blind, part_scatter, card, flags>>
      BY <2>4, WriteSteps
    <3>2. (ToReread' => ToReread) /\ (ToRestore' => ToRestore)
      BY <3>1 DEF ToReread, ToRestore, Writing
    <3>. QED
      BY <3>1, <3>2, <1>k DEF seen, card, flags
  <2>5. CASE Reread
    <3>1. /\ pc = "reread" /\ UNCHANGED <<stale, blind, card, flags>> /\ kernel' = OnDisk
          /\ pc' = IF encrypted \/ isResizeFail # 0 THEN "erase" ELSE "cache"
      BY <2>5 DEF Reread, Goto, tables
    <3>2. CASE encrypted \/ isResizeFail # 0
      BY <3>1, <3>2, <1>0
    <3>3. CASE ~(encrypted \/ isResizeFail # 0)
      <4>1. ~stale /\ ~blind => OnDisk.userdata \in {kernel.userdata, part_scatter.userdata}
        BY <3>1 DEF SeenInv
      <4>2. usrdata_changed /\ backup_path = "archive" =>
               Fits(kernel.userdata) /\ Fits(part_scatter.userdata)
        BY <3>1, <3>3 DEF FitInv, ToReread
      <4>3. Fits(OnDisk.userdata) => Fits(kernel.userdata)'
        BY <3>1 DEF Fits, Room, card
      <4>. QED
        BY <3>1, <3>3, <4>1, <4>2, <4>3 DEF FitInv, ToReread, Writing, card, flags
    <3>. QED
      BY <3>2, <3>3
  <2>. QED
    BY <1>3, <2>1, <2>2, <2>3, <2>4, <2>5 DEF Update
<1>4. CASE Continue
  <2>1. CASE Erase
    BY <2>1 DEF Erase, FitInv
  <2>2. CASE \/ EraseFails \/ NothingToRestore \/ Restore \/ RestoreFails
             \/ RestoreFromCard \/ RestoreDone \/ RestoreCopyFails
    BY <2>2, <1>0 DEF EraseFails, NothingToRestore, Restore, RestoreFails, RestoreFromCard,
                      RestoreDone, RestoreCopyFails, Return, Goto
  <2>3. CASE FormatCache \/ Install
    <3>1. /\ pc \in {"cache", "install"} /\ pc' \in {"install", "restore", "idle"}
          /\ UNCHANGED <<seen, card, flags, tables>>
      BY <2>3 DEF FormatCache, Install, Return, Goto
    <3>2. ToRestore /\ ~ToReread'
      BY <3>1 DEF ToRestore, ToReread, Writing
    <3>. QED
      BY <3>1, <3>2, <1>k DEF seen, card, flags, tables
  <2>. QED
    BY <1>4, <2>1, <2>2, <2>3 DEF Continue
<1>5. CASE SetForce \/ Crash \/ Use
  BY <1>5, <1>0 DEF SetForce, Crash, Use, Restart
<1>6. CASE UNCHANGED vars
  <2>1. /\ UNCHANGED <<tables, seen, pc, part_scatter, card, flags>>
    BY <1>6 DEF vars
  <2>2. (ToReread' => ToReread) /\ (ToRestore' => ToRestore)
    BY <2>1 DEF ToReread, ToRestore, tables
  <2>. QED
    BY <2>1, <2>2, <1>k DEF tables, seen, card, flags
<1>. QED
  BY <1>1, <1>2, <1>3, <1>4, <1>5, <1>6 DEF Next

\* The backup that userdata_restore finds for this update fits in userdata,
\* whichever table the kernel has found: userdata_backup limits it to the smaller
\* of the two, and one that an earlier update left is not taken.
THEOREM BackupHasRoom == Spec => []BackupFits
<1>1. PlaceInv /\ FitInv => BackupFits
  BY DEF BackupFits, PlaceInv, FitInv, ToRestore, Fits
<1>. QED
  BY <1>1, InitTypes, StepTypes, InitTable, StepTable, InitPlace, StepPlace,
     InitSeen, StepSeen, InitFit, StepFit, PTL
  DEF Spec
=============================================================================
