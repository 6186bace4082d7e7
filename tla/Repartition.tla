---------------------------- MODULE Repartition ----------------------------
(***************************************************************************)
(* An update package that moves the cache and userdata partitions          *)
(* (bootable/recovery/utils): check_part_size compares the package's       *)
(* scatter file with the kernel's partitions, backs the user data up to    *)
(* the SD card, rewrites both copies of the GUID partition table, has the  *)
(* kernel read the table again and formats; the recovery then installs the *)
(* package and calls userdata_restore.  Modelled for eMMC with a GPT and   *)
(* an enforcing recovery, which backs up raw images.                       *)
(*                                                                         *)
(* Power may be lost between any two steps and within the write of the     *)
(* entries; every access that can fail may fail.                           *)
(***************************************************************************)
EXTENDS Naturals

CONSTANTS
    Lba,      \* places on the eMMC where a partition may start or end
    DiskEnd,  \* end of userdata, which a package never moves
    Offsets,  \* scatter files: where cache and userdata start
    Cut,      \* entries that are on the eMMC when a write of them is cut short
    None

VARIABLES
    head,             \* per copy of the table: the table its header's CRCs are of
    entries,          \* per copy: the table its entries hold
    kernel,           \* the partitions as the kernel sees them
    stale,            \* history: it has failed to see what is on the eMMC, and
                      \* has not been started since
    pc,               \* where the recovery is; "idle" is its menu
    then,             \* where it goes on when a table has been written
    part_scatter,     \* the package's offsets, during check_part_size
    usrdata_changed,
    isResizeFail,     \* 0, or resizeFailDataSize if the flag is set
    from_mota,        \* the user has agreed to lose the data
    backup_path,      \* what the file of that name is
    data_backup_name, \* what /sdcard/.data_backup_name names
    archive,          \* complete backup, on the card, of the data as they are
    data,             \* the file system on the eMMC with the user's data
    encrypted,        \* phone_encrypt_state
    unsound,          \* history: a table's writing was cut short, and none has
                      \* been completed since
    blind,            \* history: an update took over entries that fail their
                      \* CRC and were to become another table
    given_up,         \* history: the user's agreement to lose the data was used
    removed           \* history: a complete backup was taken for an incomplete one

tables == <<head, entries, then, unsound, blind>>
card == <<backup_path, data_backup_name, archive, removed>>
seen == <<kernel, stale>>
flags == <<usrdata_changed, isResizeFail, from_mota, encrypted, given_up>>
vars == <<tables, seen, pc, part_scatter, card, data, flags>>

Copy == {"primary", "secondary"}

\* What a package or the updater changes, in the order the entries have on the
\* eMMC: the active bit of another partition, the end of system (its start is
\* fixed), start and end of cache, the start of userdata.
Table == [active : BOOLEAN, system_end : Lba, cache : Lba, cache_end : Lba,
          userdata : Lba]

TableOf(o) == [active |-> FALSE, system_end |-> o.cache, cache |-> o.cache,
               cache_end |-> o.userdata, userdata |-> o.userdata]

\* The partitions follow each other: none overlaps the next.
Whole(t) == t.system_end = t.cache /\ t.cache_end = t.userdata

\* The size of a userdata partition.
Room(start) == DiskEnd - start

\* A file system at "at"; an image on the card has the size of the device it
\* was read from and holds a file system.
Data == [at : Lba, size : 1..DiskEnd]
Archive == [size : 1..DiskEnd, holds : 1..DiskEnd]

ASSUME LbaOnDisk == DiskEnd \in Nat /\ \A b \in Lba : b \in Nat /\ b < DiskEnd
ASSUME OffsetsInOrder ==
    /\ Offsets \subseteq [cache : Lba, userdata : Lba]
    /\ \A o \in Offsets : o.cache < o.userdata
ASSUME CutIsPrefix == Cut \subseteq 0..4
ASSUME NoneIsNothing == None \notin Data /\ None \notin Archive /\ None \notin Offsets

\* The header of the primary copy has been written; what comes next: its
\* entries, those of the secondary copy, the header of that.
Entries == [primary |-> "PPE", secondary |-> "SPE"]
Writing == {"PPE", "SPE", "SGPT"}

Place == Writing \cup {"idle", "resize", "backup", "copy", "unmark", "update",
                       "reread", "erase", "cache", "install", "restore",
                       "restore_copy", "card_copy"}

TypeOK ==
    /\ head \in [Copy -> Table]
    /\ entries \in [Copy -> Table]
    /\ kernel \in Table
    /\ pc \in Place
    /\ then \in {"none", "reread", "install"}
    /\ part_scatter \in Offsets \cup {None}
    /\ usrdata_changed \in BOOLEAN
    /\ isResizeFail \in 0..DiskEnd
    /\ from_mota \in BOOLEAN
    /\ backup_path \in {"none", "other", "archive"}
    /\ data_backup_name \in {"none", "other", "archive"}
    /\ archive \in Archive \cup {None}
    /\ archive = None => "archive" \notin {backup_path, data_backup_name}
    /\ data \in Data \cup {None}
    /\ encrypted \in BOOLEAN /\ unsound \in BOOLEAN /\ blind \in BOOLEAN /\ stale \in BOOLEAN
    /\ given_up \in BOOLEAN /\ removed \in BOOLEAN

\* The recovery has started on a phone in use.
Init ==
    \E o \in Offsets :
        /\ head = [c \in Copy |-> TableOf(o)]
        /\ entries = [c \in Copy |-> TableOf(o)]
        /\ kernel = TableOf(o)
        /\ stale = FALSE
        /\ part_scatter = None
        /\ pc = "idle"
        /\ then = "none"
        /\ usrdata_changed = FALSE
        /\ isResizeFail = 0
        /\ from_mota = FALSE
        /\ backup_path = "none"
        /\ data_backup_name = "none"
        /\ archive = None
        /\ data = [at |-> o.userdata, size |-> Room(o.userdata)]
        /\ encrypted \in BOOLEAN
        /\ unsound = FALSE
        /\ blind = FALSE
        /\ given_up = FALSE
        /\ removed = FALSE

Goto(from, to) == pc = from /\ pc' = to /\ part_scatter' = part_scatter

\* The end of check_part_size, which frees part_scatter.
Return(from, to) == pc = from /\ pc' = to /\ part_scatter' = None

\* The file system with the user's data is where the kernel looks for it.
InPlace == data # None /\ data.at = kernel.userdata

\* What is left of the data when the blocks from "first" up to "end" are written.
Spared(first, end) ==
    IF data # None /\ data.at < end /\ first < data.at + data.size
    THEN None ELSE data

-----------------------------------------------------------------------------
(* The two copies of the table (mt_gpt.cpp).                               *)

\* A copy is valid if its header's CRCs are those of its entries.
Valid(c) == head[c] = entries[c]

\* The table the kernel finds: the secondary copy if the primary is not valid.
OnDisk == IF Valid("primary") THEN entries["primary"] ELSE entries["secondary"]

\* Mutant: an end is recomputed only if its own partition's start changed.
RecomputedByStart(t, o) ==
    [t EXCEPT !.cache = o.cache, !.userdata = o.userdata,
              !.cache_end = IF o.cache # t.cache THEN o.userdata ELSE @,
              !.system_end = IF o.cache # t.cache THEN o.cache ELSE @]

\* Mutant: an end is one block short.
RecomputedShort(t, o) ==
    [TableOf(o) EXCEPT !.active = t.active, !.system_end = o.cache - 1]

\* update_gpt: an entry is changed if its start, or its successor's, differs.
Recomputed(t, o) ==
    LET system_moves == o.cache # t.cache
        cache_moves == o.cache # t.cache \/ o.userdata # t.userdata
    IN  [active     |-> t.active,
         system_end |-> IF system_moves THEN o.cache ELSE t.system_end,
         cache      |-> o.cache,
         cache_end  |-> IF cache_moves THEN o.userdata ELSE t.cache_end,
         userdata   |-> o.userdata]

\* mt_gpt_get_part_entry takes the entries of the primary copy whatever their
\* CRC; the new table is then in the memory of mt_gpt_update_part_entry and,
\* as its CRC, in the header of the primary copy, which is written first.
BeginWrite(table, next) ==
    /\ pc' = "PPE"
    /\ then' = next
    /\ head' = [head EXCEPT !["primary"] = table]
    /\ blind' = (blind \/ (~Valid("primary") /\ table # head["primary"]))
    /\ UNCHANGED <<entries, unsound>>

BeginUpdate ==
    /\ pc = "update"
    /\ BeginWrite(Recomputed(entries["primary"], part_scatter), "reread")
    /\ UNCHANGED <<seen, part_scatter, card, data, flags>>

\* The sector size or the table cannot be read.
UpdateFails ==
    /\ Return("update", "idle")
    /\ UNCHANGED <<tables, seen, card, data, flags>>

\* mt_gpt_update_part_entry fails before anything has been written; update_gpt
\* does not look at its result.
NothingWritten ==
    /\ Goto("update", "reread")
    /\ UNCHANGED <<tables, seen, card, data, flags>>

\* mt_gpt_update_active_part, which the updater calls.
SetActive ==
    /\ pc = "install"
    /\ \E b \in BOOLEAN :
          BeginWrite([entries["primary"] EXCEPT !.active = b], "install")
    /\ UNCHANGED <<seen, part_scatter, card, data, flags>>

\* Mutant: the two headers first, then the two arrays of entries.
HeadersFirst(part) ==
    [SGPT |-> "PPE", PPE |-> "SPE", SPE |-> then][part]

\* The order of the writes in mt_gpt_update_part_entry.
Following(part) == [PPE |-> "SPE", SPE |-> "SGPT", SGPT |-> then][part]

EndWrite(to) ==
    /\ pc' = to
    /\ then' = IF to = then THEN "none" ELSE then
    /\ UNCHANGED <<blind, seen, part_scatter, card, data, flags>>

Written ==
    /\ EndWrite(Following(pc))
    /\ unsound' = (unsound /\ pc' # then)

WriteEntries(c) ==
    /\ pc = Entries[c]
    /\ entries' = [entries EXCEPT ![c] = head["primary"]]
    /\ Written
    /\ UNCHANGED head

WriteLastHeader ==
    /\ pc = "SGPT"
    /\ head' = [head EXCEPT !["secondary"] = head["primary"]]
    /\ Written
    /\ UNCHANGED entries

\* The first n of the entries that change are new.
Torn(old, new, n) ==
    [active     |-> IF n > 0 THEN new.active ELSE old.active,
     system_end |-> IF n > 1 THEN new.system_end ELSE old.system_end,
     cache      |-> IF n > 2 THEN new.cache ELSE old.cache,
     cache_end  |-> IF n > 2 THEN new.cache_end ELSE old.cache_end,
     userdata   |-> IF n > 3 THEN new.userdata ELSE old.userdata]

\* A write is not completed.  A header, which is one sector, is then the old
\* one.  Bound: this does not happen again before a table has been completed.
CutShort ==
    /\ pc \in Writing
    /\ ~unsound
    /\ unsound' = TRUE
    /\ \E n \in Cut :
          entries' = [c \in Copy |-> IF pc = Entries[c]
                                     THEN Torn(entries[c], head["primary"], n)
                                     ELSE entries[c]]
    /\ UNCHANGED head

\* A failure ends mt_gpt_update_part_entry; neither caller looks at its result.
WriteFails ==
    /\ CutShort
    /\ EndWrite(then)

\* BLKRRPART, and the nodes of the partitions appear.
Reread ==
    /\ Goto("reread", IF encrypted \/ isResizeFail # 0 THEN "erase" ELSE "cache")
    /\ kernel' = OnDisk
    /\ UNCHANGED <<tables, stale, card, data, flags>>

\* The kernel refuses, or the nodes do not appear in time.
RereadFails ==
    /\ Return("reread", "idle")
    /\ kernel' \in {kernel, OnDisk}
    /\ stale' = (stale \/ kernel' # OnDisk)
    /\ UNCHANGED <<tables, card, data, flags>>

-----------------------------------------------------------------------------
(* check_part_size up to the rewriting of the table.                       *)

\* Mutant: a start of userdata that moves down is not noticed.
ChangedUpwards(o) == kernel.userdata < o.userdata

Changed(o) == kernel.userdata # o.userdata
Moved(o) == Changed(o) \/ kernel.cache # o.cache

Compare(o) ==
    /\ pc = "idle"
    /\ usrdata_changed' = Changed(o)
    /\ UNCHANGED <<tables, seen, card, data, from_mota, encrypted>>

\* The call goes on to "to" and remembers the offsets.
Proceed(to, o) == pc' = to /\ part_scatter' = o

CheckSame(o) ==
    /\ Compare(o)
    /\ ~Moved(o)
    /\ Proceed("install", None)
    /\ UNCHANGED <<isResizeFail, given_up>>

\* A differential package, one read from /data that moves it, no card or no
\* room on it, or a package that needs the user's agreement and has it not.
CheckFails(o) ==
    /\ Compare(o)
    /\ Moved(o)
    /\ Proceed("idle", None)
    /\ UNCHANGED <<isResizeFail, given_up>>

\* userdata stays where it is.
CheckDataStays(o) ==
    /\ Compare(o)
    /\ Moved(o) /\ ~Changed(o)
    /\ Proceed("update", o)
    /\ UNCHANGED <<isResizeFail, given_up>>

\* force_upgrade: encrypted data are not backed up.
CheckEncrypted(o) ==
    /\ Compare(o)
    /\ Changed(o) /\ encrypted /\ from_mota
    /\ Proceed("update", o)
    /\ given_up' = TRUE
    /\ UNCHANGED isResizeFail

\* A file system that is too big for the new partition has to be shrunk first,
\* unless that has failed before for a partition of this size.
CheckChanged(o) ==
    /\ Compare(o)
    /\ Changed(o) /\ ~encrypted
    /\ isResizeFail # Room(o.userdata)
    /\ isResizeFail' = 0
    /\ Proceed(IF Room(o.userdata) < Room(kernel.userdata) THEN "resize" ELSE "backup", o)
    /\ UNCHANGED given_up

\* It has: the data are erased if the user agrees.
CheckAgain(o) ==
    /\ Compare(o)
    /\ Changed(o) /\ ~encrypted
    /\ isResizeFail = Room(o.userdata)
    /\ from_mota
    /\ Proceed("update", o)
    /\ given_up' = TRUE
    /\ UNCHANGED isResizeFail

\* What do_resize2fs leaves of the data when it has run.
Shrunk ==
    IF InPlace THEN [data EXCEPT !.size = Room(part_scatter.userdata)]
               ELSE Spared(kernel.userdata, DiskEnd)

ResizeDone ==
    /\ Goto("resize", "backup")
    /\ data' = Shrunk
    /\ UNCHANGED <<tables, seen, card, flags>>

\* do_resize2fs has failed, before or after the shrinking.
ResizeGoesWrong ==
    /\ data' \in {data, Shrunk}
    /\ isResizeFail' = Room(part_scatter.userdata)
    /\ UNCHANGED <<tables, seen, card, usrdata_changed, from_mota, encrypted>>

\* Mutant: the user is not asked.
ResizeFailsUnasked ==
    /\ Goto("resize", "update")
    /\ given_up' = (given_up \/ from_mota)
    /\ ResizeGoesWrong

ResizeFails ==
    /\ \/ ~from_mota /\ Return("resize", "idle")
       \/ from_mota /\ Goto("resize", "update")
    /\ given_up' = (given_up \/ from_mota)
    /\ ResizeGoesWrong

-----------------------------------------------------------------------------
(* userdata_backup.                                                        *)

\* The file that .data_backup_name names is taken for an incomplete backup.
CleanUp ==
    /\ archive' = IF data_backup_name = "archive" THEN None ELSE archive
    /\ removed' = (removed \/ data_backup_name = "archive")

\* The new name is in .data_backup_name before the copying begins.
StartBackup ==
    /\ Goto("backup", "copy")
    /\ CleanUp
    /\ data_backup_name' = "other"
    /\ backup_path' = "other"
    /\ UNCHANGED <<tables, seen, data, flags>>

\* No card or no room on it, before the clean-up or after it; backup_path may
\* be left with the name of what was removed.
BackupFails ==
    /\ Return("backup", "idle")
    /\ \/ backup_path' = "none" /\ UNCHANGED <<archive, data_backup_name, removed>>
       \/ CleanUp /\ data_backup_name' = "none" /\ backup_path' \in {"none", "other"}
    /\ UNCHANGED <<tables, seen, data, flags>>

\* Mutant: the whole partition is copied although the new one is smaller.
OldSize == Room(kernel.userdata)

\* The size of userdata, or the size it has been shrunk to.
backup_size ==
    IF Room(part_scatter.userdata) < Room(kernel.userdata)
    THEN Room(part_scatter.userdata) ELSE Room(kernel.userdata)

\* The raw image is complete; it holds the data if they were in it.
CopyDone ==
    /\ Goto("copy", "unmark")
    /\ removed' = removed
    /\ IF InPlace /\ data.size <= backup_size
       THEN /\ archive' = [size |-> backup_size, holds |-> data.size]
            /\ backup_path' = "archive"
            /\ data_backup_name' = "archive"
       ELSE UNCHANGED <<archive, backup_path, data_backup_name>>
    /\ UNCHANGED <<tables, seen, data, flags>>

\* The incomplete file is removed, .data_backup_name is not.
CopyFails ==
    /\ Return("copy", "idle")
    /\ UNCHANGED <<tables, seen, card, data, flags>>

Unmark ==
    /\ Goto("unmark", "update")
    /\ data_backup_name' = "none"
    /\ UNCHANGED <<tables, seen, backup_path,
                   archive, removed, data, flags>>

-----------------------------------------------------------------------------
(* check_part_size after the rewriting of the table, and the installation. *)

\* Encrypted data, or a file system that was too big, are erased if userdata moved.
Erase ==
    /\ Goto("erase", "cache")
    /\ data' = IF usrdata_changed THEN None ELSE data
    /\ backup_path' = "none"
    /\ UNCHANGED <<tables, seen, data_backup_name,
                   archive, removed, flags>>

EraseFails ==
    /\ Return("erase", "idle")
    /\ usrdata_changed
    /\ data' \in {data, None}
    /\ UNCHANGED <<tables, seen, card, flags>>

FormatCache ==
    /\ Return("cache", "install") \/ Return("cache", "idle")
    /\ data' \in {data, Spared(kernel.cache, kernel.cache_end)}
    /\ UNCHANGED <<tables, seen, card, flags>>

\* The recovery installs the package and restores the data if userdata moved.
Install ==
    /\ Goto("install", IF usrdata_changed THEN "restore" ELSE "idle")
       \/ Goto("install", "idle")
    /\ data' \in {data, Spared(0, kernel.system_end)}
    /\ UNCHANGED <<tables, seen, card, flags>>

-----------------------------------------------------------------------------
(* userdata_restore.  Formatting /data ends what the eMMC held of the data. *)

NothingToRestore ==
    /\ Goto("restore", "idle")
    /\ encrypted \/ backup_path = "none"
    /\ encrypted' = FALSE
    /\ UNCHANGED <<tables, seen, card, data, usrdata_changed,
                   isResizeFail, from_mota, given_up>>

\* The file has its header and the right checksum.
Restore ==
    /\ Goto("restore", "restore_copy")
    /\ ~encrypted /\ backup_path # "none"
    /\ data' = None
    /\ UNCHANGED <<tables, seen, card, flags>>

\* The file cannot be read, or /data cannot be formatted.
RestoreFails ==
    /\ Goto("restore", "idle")
    /\ ~encrypted /\ backup_path # "none"
    /\ data' \in {data, None}
    /\ UNCHANGED <<tables, seen, card, flags>>

\* The user has a backup on the card restored: mode 0, which looks at the sizes.
RestoreFromCard ==
    /\ Goto("idle", "card_copy")
    /\ archive # None /\ archive.size <= Room(kernel.userdata)
    /\ data' = None
    /\ UNCHANGED <<tables, seen, card, flags>>

\* The image goes to the start of userdata; a file that does not hold the data
\* leaves none.
RestoreDone ==
    /\ pc \in {"restore_copy", "card_copy"}
    /\ pc' = "idle"
    /\ IF pc = "card_copy" \/ backup_path = "archive"
       THEN /\ archive.size <= Room(kernel.userdata)
            /\ data' = [at |-> kernel.userdata, size |-> archive.holds]
       ELSE data' = None
    /\ UNCHANGED <<tables, seen, part_scatter, card, flags>>

\* /data is formatted again.
RestoreCopyFails ==
    /\ pc \in {"restore_copy", "card_copy"}
    /\ pc' = "idle"
    /\ data' = None
    /\ encrypted' = FALSE
    /\ UNCHANGED <<tables, seen, part_scatter, card, usrdata_changed,
                   isResizeFail, from_mota, given_up>>

-----------------------------------------------------------------------------
(* The user and the power supply.                                          *)

\* set_force_upgrade, clear_force_upgrade
SetForce ==
    /\ pc = "idle"
    /\ from_mota' = ~from_mota
    /\ UNCHANGED <<tables, seen, pc, part_scatter, card, data,
                   usrdata_changed, isResizeFail, encrypted, given_up>>

\* What lives in the memory of the recovery starts afresh.
Restart ==
    /\ pc' = "idle"
    /\ stale' = FALSE
    /\ then' = "none"
    /\ part_scatter' = None
    /\ usrdata_changed' = FALSE
    /\ isResizeFail' = 0
    /\ from_mota' = FALSE
    /\ UNCHANGED <<blind, removed>>

\* Power is lost, or the phone is restarted, and the recovery starts again.
Crash ==
    /\ \/ CutShort
       \/ pc \notin Writing /\ UNCHANGED <<head, entries, unsound>>
    /\ kernel' = OnDisk'
    /\ Restart
    /\ backup_path' = "none"
    /\ UNCHANGED <<data, data_backup_name, archive, encrypted, given_up>>

\* The phone is used: its data change, a backup is then out of date.  Android
\* makes a new file system if there are no data and no backup of them.
Use ==
    /\ pc = "idle"
    /\ Restart
    /\ kernel' = OnDisk
    /\ \/ data # None /\ data.at = OnDisk.userdata /\ UNCHANGED data
       \/ /\ data = None \/ given_up
          /\ archive = None
          /\ data' = [at |-> OnDisk.userdata, size |-> Room(OnDisk.userdata)]
    /\ archive' = None
    /\ data_backup_name' = IF data_backup_name = "archive" THEN "other" ELSE data_backup_name
    /\ backup_path' = "none"
    /\ encrypted' \in BOOLEAN
    /\ given_up' = FALSE
    /\ UNCHANGED <<head, entries, unsound>>

-----------------------------------------------------------------------------
Check ==
    \E o \in Offsets :
        \/ CheckSame(o) \/ CheckFails(o) \/ CheckDataStays(o)
        \/ CheckEncrypted(o) \/ CheckChanged(o) \/ CheckAgain(o)

BackUp ==
    \/ ResizeDone \/ ResizeFails \/ StartBackup \/ BackupFails
    \/ CopyDone \/ CopyFails \/ Unmark

Update ==
    \/ BeginUpdate \/ UpdateFails \/ NothingWritten \/ SetActive
    \/ \E c \in Copy : WriteEntries(c)
    \/ WriteLastHeader \/ WriteFails
    \/ Reread \/ RereadFails

Continue ==
    \/ Erase \/ EraseFails \/ FormatCache \/ Install
    \/ NothingToRestore \/ Restore \/ RestoreFails \/ RestoreFromCard
    \/ RestoreDone \/ RestoreCopyFails

Next == Check \/ BackUp \/ Update \/ Continue \/ SetForce \/ Crash \/ Use

Spec == Init /\ [][Next]_vars

-----------------------------------------------------------------------------
(* Properties.                                                             *)

\* Wherever power fails and whichever write fails, the phone starts: one copy of
\* the table is valid, if no second failure hits before a table is complete.
TableSurvives == (pc \in Writing /\ unsound) \/ \E c \in Copy : Valid(c)

\* No partition overlaps the next: a table that the kernel may find is that of
\* one package, also after an update was cut short and is tried again.
WholeTables ==
    ~blind => \A c \in Copy : Valid(c) => Whole(entries[c])

\* The last copy of the user's data, on the eMMC or on the card, is only
\* destroyed if the user has agreed to it.
Kept == data # None \/ archive # None
DataKept ==
    [][Kept /\ ~Kept' => given_up \/ blind \/ removed']_vars

\* Data that are not on the card are where the next start of the phone looks
\* for them, however the update ended.
DataReachable ==
    pc = "idle" /\ archive = None /\ data # None /\ ~given_up /\ ~blind /\ ~removed =>
        data.at = OnDisk.userdata /\ OnDisk.cache_end <= data.at

\* What was backed up for this package fits where it is restored to, whichever
\* table the kernel has found after the update.  It need not if another package
\* is tried after the kernel has failed to see the table that one has written.
BackupFits ==
    pc = "restore" /\ backup_path = "archive" /\ ~blind /\ ~stale =>
        archive.size <= Room(kernel.userdata)
=============================================================================
