------------------------------ MODULE Keepsakes -----------------------------
(***************************************************************************)
(* One member's private journal, the diary section copied from it into a   *)
(* round, and the round's photo dump.  The copies share the files of the   *)
(* journal: whoever deletes a row counts the rows that still refer to its  *)
(* file and unlinks it when there are none.  Requests interleave between   *)
(* their check, their transaction and their clean-up, the round is         *)
(* published, the day changes, and the process may stop anywhere.          *)
(***************************************************************************)
EXTENDS Naturals, FiniteSets

CONSTANTS Jobs,         \* requests in flight together
          LastDay,      \* bound: days
          MaxItems,     \* bound: blocks and dump items ever made
          MaxIds,       \* bound: attachments and refreshes
          From          \* the day the Loop's last round was published

ASSUME KeepsakesAssumption ==
    /\ LastDay \in Nat \ {0} /\ From \in 1..LastDay
    /\ MaxItems \in Nat /\ MaxIds \in Nat

Days == 1..LastDay
Items == 1..MaxItems
Detached == [id |-> 0, through |-> 1]
ThisPage == 1

VARIABLES journal,    \* ramble_blocks: item, its day, whether it has a file
          page,       \* rambles: the days with a row, also an empty one
          section,    \* diary_sections: id and copied_through
          diary,      \* diary_blocks: the item, and day and id of its diary_days row
          dump,       \* dump_items
          uploads,    \* files on disk; a file has the name of its item
          nextItem, nextKey,      \* AUTOINCREMENT
          today,                  \* in the Loop's timezone
          collecting,             \* the round is still open
          job,                    \* requests in flight
          left,       \* history: days trimmed, or written once their time was over
          spared      \* history: files whose clean-up was given up

keepsakeVars == <<journal, page, section, diary, dump, uploads, nextItem, nextKey, today,
                  collecting, job, left, spared>>

Operation == {"upload", "attach", "refresh", "detach", "dropDay", "dropBlock"}
NoJob == [at |-> "free", op |-> "upload", day |-> 1, item |-> 0, key |-> 0, paths |-> {}]

KeepsakesTypeOK ==
    /\ journal \subseteq [item : Items, day : Days, file : BOOLEAN]
    /\ page \subseteq Days
    /\ section \in [id : 0..MaxIds, through : Days]
    /\ diary \subseteq [item : Items, day : Days, file : BOOLEAN, key : 1..MaxIds]
    /\ dump \subseteq Items /\ uploads \subseteq Items
    /\ nextItem \in 1..(MaxItems + 1) /\ nextKey \in 1..(MaxIds + 1)
    /\ today \in Days /\ collecting \in BOOLEAN
    /\ job \in [Jobs -> [at : {"free", "tx", "count", "unlink"},
                         op : Operation, day : Days, item : 0..MaxItems, key : 0..(MaxIds + 1),
                         paths : SUBSET Items]]
    /\ left \subseteq Days /\ spared \subseteq Items

KeepsakesInit ==
    /\ journal = {} /\ page = {}
    /\ section = Detached /\ diary = {} /\ dump = {}
    /\ uploads = {}
    /\ nextItem = 1 /\ nextKey = 1
    /\ today = From
    /\ collecting = TRUE
    /\ job = [j \in Jobs |-> NoJob]
    /\ left = {} /\ spared = {}

HasFile(rows) == {r.item : r \in {r \in rows : r.file}}
Referenced == HasFile(journal) \cup HasFile(diary) \cup dump

\* BUG: diary copies are not counted.
NotInJournal(f) == f \notin HasFile(journal)

\* CountUploadsReferencing = 0
Unreferenced(f) == f \notin HasFile(journal) \cup HasFile(diary)

Free(j) == job' = [job EXCEPT ![j] = NoJob]
Request(j, r) == job[j].at = "free" /\ job' = [job EXCEPT ![j] = r]
Cleaning(paths) == [NoJob EXCEPT !.at = "count", !.paths = paths]
Serving(j, at, op) == job[j].at = at /\ job[j].op = op

\* What was written on a day the section has been copied past stays out of it.
WrittenLate(d) == left' = IF section # Detached /\ d < section.through THEN left \cup {d} ELSE left

-----------------------------------------------------------------------------
\* Journal pages are made on demand, media blocks in two steps.
CreateRambleTextBlock(d) ==
    /\ nextItem <= MaxItems
    /\ journal' = journal \cup {[item |-> nextItem, day |-> d, file |-> FALSE]}
    /\ page' = page \cup {d}
    /\ nextItem' = nextItem + 1
    /\ WrittenLate(d)
    /\ UNCHANGED <<section, diary, dump, uploads, nextKey, today, collecting, job, spared>>

\* An upload makes the page and stores the file under a new name; it remembers
\* the page's id, which is valid until the page is removed.
ReceiveRambleMedia(j, d) ==
    /\ nextItem <= MaxItems
    /\ page' = page \cup {d}
    /\ uploads' = uploads \cup {nextItem}
    /\ nextItem' = nextItem + 1
    /\ Request(j, [NoJob EXCEPT !.at = "tx", !.day = d, !.key = ThisPage, !.item = nextItem])
    /\ UNCHANGED <<journal, section, diary, dump, nextKey, today, collecting, left, spared>>

\* The foreign key refuses a block on a page that was removed meanwhile.
CreateRambleBlock(j) ==
    LET r == job[j] IN
    /\ Serving(j, "tx", "upload")
    /\ IF r.key = ThisPage
         THEN /\ journal' = journal \cup {[item |-> r.item, day |-> r.day, file |-> TRUE]}
              /\ WrittenLate(r.day) /\ UNCHANGED spared
         ELSE spared' = spared \cup {r.item} /\ UNCHANGED <<journal, left>>
    /\ Free(j)
    /\ UNCHANGED <<page, section, diary, dump, uploads, nextItem, nextKey, today, collecting>>

\* A deleted media block, or a text block saved empty; the last one takes the
\* page with it.
DeleteRambleBlock(j, x) ==
    LET rest == journal \ {x}
        emptied == {x.day} \ {y.day : y \in rest} IN
    /\ job[j].at = "free" /\ x \in journal
    /\ journal' = rest
    /\ page' = page \ emptied
    /\ job' = [k \in Jobs |->
                 IF k = j THEN IF x.file THEN Cleaning({x.item}) ELSE NoJob
                 ELSE IF job[k].op = "upload" /\ job[k].day \in emptied
                   THEN [job[k] EXCEPT !.key = 0] ELSE job[k]]
    /\ UNCHANGED <<section, diary, dump, uploads, nextItem, nextKey, today, collecting, left,
                   spared>>

-----------------------------------------------------------------------------
\* removeUploadIfUnreferenced, one path after the other; a count that fails gives
\* the file up (bound: while no file is spared yet).
Without(j, f) == IF job[j].paths = {f} THEN NoJob ELSE Cleaning(job[j].paths \ {f})

CountUploadsReferencing(j, f) ==
    /\ job[j].at = "count" /\ f \in job[j].paths
    /\ \/ /\ job' = [job EXCEPT ![j] = IF Unreferenced(f) THEN [@ EXCEPT !.at = "unlink", !.item = f]
                                       ELSE Without(j, f)]
          /\ UNCHANGED spared
       \/ /\ spared = {} /\ spared' = {f}
          /\ job' = [job EXCEPT ![j] = Without(j, f)]
    /\ UNCHANGED <<journal, page, section, diary, dump, uploads, nextItem, nextKey, today,
                   collecting, left>>

RemoveUpload(j) ==
    LET f == job[j].item IN
    /\ job[j].at = "unlink"
    /\ uploads' = uploads \ {f}
    /\ job' = [job EXCEPT ![j] = Without(j, f)]
    /\ UNCHANGED <<journal, page, section, diary, dump, nextItem, nextKey, today, collecting,
                   left, spared>>

-----------------------------------------------------------------------------
\* The section's requests look at the round first, and take today's date along.
RequestAttach(j) ==
    /\ collecting
    /\ Request(j, [NoJob EXCEPT !.at = "tx", !.op = "attach", !.day = today])
    /\ UNCHANGED <<journal, page, section, diary, dump, uploads, nextItem, nextKey, today,
                   collecting, left, spared>>

RequestRefresh(j) ==
    /\ collecting /\ section # Detached
    /\ Request(j, [NoJob EXCEPT !.at = "tx", !.op = "refresh", !.key = section.id, !.day = today])
    /\ UNCHANGED <<journal, page, section, diary, dump, uploads, nextItem, nextKey, today,
                   collecting, left, spared>>

\* copyDiaryDays: the days of the journal in the window that the section has not.
CopyDiaryDays(old, lo, hi) ==
    old \cup {[item |-> x.item, day |-> x.day, file |-> x.file, key |-> nextKey] :
                x \in {x \in journal : /\ lo <= x.day /\ x.day <= hi
                                       /\ ~\E c \in old : c.day = x.day}}

AttachDiarySection(j) ==
    /\ Serving(j, "tx", "attach")
    /\ IF section # Detached THEN UNCHANGED <<section, diary, left, nextKey>>
       ELSE /\ nextKey <= MaxIds /\ nextKey' = nextKey + 1
            /\ section' = [id |-> nextKey, through |-> job[j].day]
            /\ diary' = CopyDiaryDays({}, From, job[j].day)
            /\ left' = {}
    /\ Free(j)
    /\ UNCHANGED <<journal, page, dump, uploads, nextItem, today, collecting, spared>>

\* BUG: the boundary day is left out.
AfterBoundary == section.through + 1

\* The lower bound is inclusive.
PullFrom == section.through

RefreshDiarySection(j) ==
    /\ Serving(j, "tx", "refresh")
    /\ IF section.id # job[j].key \/ job[j].day < section.through
         THEN UNCHANGED <<section, diary, nextKey>>
         ELSE /\ nextKey <= MaxIds /\ nextKey' = nextKey + 1
              /\ diary' = CopyDiaryDays(diary, PullFrom, job[j].day)
              /\ section' = [section EXCEPT !.through = job[j].day]
    /\ Free(j)
    /\ UNCHANGED <<journal, page, dump, uploads, nextItem, today, collecting, left, spared>>

\* BUG: one row is read instead of all of them.
FirstPath(rows) == IF HasFile(rows) = {} THEN {} ELSE {CHOOSE f \in HasFile(rows) : TRUE}

CollectedPaths(rows) == HasFile(rows)

\* A detach, the removal of a day and that of a block; the first two collect
\* their paths before the transaction.
RequestDetach(j) ==
    /\ collecting /\ section # Detached
    /\ Request(j, [NoJob EXCEPT !.at = "tx", !.op = "detach", !.key = section.id,
                                !.paths = CollectedPaths(diary)])
    /\ UNCHANGED <<journal, page, section, diary, dump, uploads, nextItem, nextKey, today,
                   collecting, left, spared>>

RequestDropDay(j, x) ==
    /\ collecting /\ x \in diary
    /\ Request(j, [NoJob EXCEPT !.at = "tx", !.op = "dropDay", !.key = x.key, !.day = x.day,
                     !.paths = CollectedPaths({y \in diary : y.day = x.day /\ y.key = x.key})])
    /\ UNCHANGED <<journal, page, section, diary, dump, uploads, nextItem, nextKey, today,
                   collecting, left, spared>>

RequestDropBlock(j, x) ==
    /\ collecting /\ x \in diary
    /\ Request(j, [NoJob EXCEPT !.at = "tx", !.op = "dropBlock", !.key = x.key, !.item = x.item])
    /\ UNCHANGED <<journal, page, section, diary, dump, uploads, nextItem, nextKey, today,
                   collecting, left, spared>>

\* What its transaction finds to delete.
Doomed(j) == CASE job[j].op = "detach" -> IF section.id = job[j].key THEN diary ELSE {}
               [] job[j].op = "dropDay" -> {x \in diary : x.day = job[j].day /\ x.key = job[j].key}
               [] OTHER -> {x \in diary : x.item = job[j].item /\ x.key = job[j].key}

\* DeleteDiarySection, DeleteDiaryDay and DeleteDiaryBlock (or a text block saved
\* empty).  What a refresh added after the paths were read is not cleaned up.
DeleteDiaryRows(j) ==
    LET r == job[j]
        paths == IF r.op = "dropBlock" THEN HasFile(Doomed(j)) ELSE r.paths IN
    /\ r.at = "tx" /\ r.op \in {"detach", "dropDay", "dropBlock"}
    /\ diary' = diary \ Doomed(j)
    /\ section' = IF r.op = "detach" /\ section.id = r.key THEN Detached ELSE section
    /\ left' = IF section' = Detached THEN {}
               ELSE left \cup {x.day : x \in {x \in Doomed(j) : ~\E c \in diary' : c.day = x.day}}
    /\ spared' = IF r.op = "detach" THEN spared \cup (HasFile(Doomed(j)) \ (paths \cup HasFile(journal)))
                 ELSE spared
    /\ job' = [job EXCEPT ![j] = IF paths = {} THEN NoJob
                                 ELSE Cleaning(paths)]
    /\ UNCHANGED <<journal, page, dump, uploads, nextItem, nextKey, today, collecting>>

-----------------------------------------------------------------------------
\* The dump shares nothing with the journal, so its requests are taken whole: the
\* file and its row (a caption that is too long is refused after the file was
\* stored), the row and its file.
UploadToDump ==
    /\ collecting /\ nextItem <= MaxItems
    /\ uploads' = uploads \cup {nextItem}
    /\ nextItem' = nextItem + 1
    /\ \/ dump' = dump \cup {nextItem} /\ UNCHANGED spared
       \/ spared' = spared \cup {nextItem} /\ UNCHANGED dump
    /\ UNCHANGED <<journal, page, section, diary, nextKey, today, collecting, job, left>>

DeleteFromDump(i) ==
    /\ collecting /\ i \in dump
    /\ dump' = dump \ {i} /\ uploads' = uploads \ {i}
    /\ UNCHANGED <<journal, page, section, diary, nextItem, nextKey, today, collecting, job, left,
                   spared>>

-----------------------------------------------------------------------------
PublishKeepsakes ==
    /\ collecting /\ collecting' = FALSE
    /\ UNCHANGED <<journal, page, section, diary, dump, uploads, nextItem, nextKey, today, job,
                   left, spared>>

\* The next day; or the day before, when the Loop's timezone is changed.
TodayChanges ==
    /\ today' \in Days \cap {today - 1, today + 1}
    /\ UNCHANGED <<journal, page, section, diary, dump, uploads, nextItem, nextKey, collecting,
                   job, left, spared>>

KeepsakesHalt ==
    /\ job' = [j \in Jobs |-> NoJob]
    /\ spared' = spared \cup (uploads \ Referenced)
    /\ UNCHANGED <<journal, page, section, diary, dump, uploads, nextItem, nextKey, today,
                   collecting, left>>

KeepsakesNext ==
    \/ \E d \in Days : CreateRambleTextBlock(d)
    \/ UploadToDump \/ (\E i \in dump : DeleteFromDump(i))
    \/ PublishKeepsakes \/ TodayChanges \/ KeepsakesHalt
    \/ \E j \in Jobs :
         \/ (\E d \in Days : ReceiveRambleMedia(j, d)) \/ CreateRambleBlock(j)
         \/ (\E x \in journal : DeleteRambleBlock(j, x))
         \/ (\E f \in Items : CountUploadsReferencing(j, f)) \/ RemoveUpload(j)
         \/ RequestAttach(j) \/ AttachDiarySection(j)
         \/ RequestRefresh(j) \/ RefreshDiarySection(j)
         \/ RequestDetach(j) \/ (\E x \in diary : RequestDropDay(j, x) \/ RequestDropBlock(j, x))
         \/ DeleteDiaryRows(j)

KeepsakesSpec == KeepsakesInit /\ [][KeepsakesNext]_keepsakeVars

-----------------------------------------------------------------------------
\* Every row that names a file finds it on disk: no clean-up unlinks a file that
\* a journal block, a diary copy or a dump item still uses, also one copied
\* while the clean-up ran (what the integrity check calls missing).
RowsHaveFiles == Referenced \subseteq uploads

\* Conversely, when two requests remove the last rows of a file at the same
\* time, one of them unlinks it: with nothing in flight, a file without a row
\* is one whose clean-up was given up (what the integrity check calls an orphan).
NothingLeftBehind ==
    (\A j \in Jobs : job[j].at = "free") => uploads \subseteq Referenced \cup spared

\* Nothing falls in a crack: a day of the journal inside the round's window is
\* in the section, or was left out by the member (trimmed, or written once the
\* section had been copied past it), or a refresh can still pull it.
NothingInACrack ==
    section # Detached =>
      \A x \in journal : \/ x.day < From \/ x.day \in left \/ x.day >= section.through
                         \/ \E c \in diary : c.day = x.day
=============================================================================
