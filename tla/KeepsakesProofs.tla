-------------------------- MODULE KeepsakesProofs ---------------------------
(***************************************************************************)
(* No file is unlinked while a row needs it, and none is forgotten, for    *)
(* every number of requests, days, blocks and attachments.                 *)
(***************************************************************************)
EXTENDS Keepsakes, TLAPS

Kept == HasFile(journal) \cup HasFile(diary)

Uploading(j, f) == job[j].at = "tx" /\ job[j].op = "upload" /\ job[j].item = f
Unlinking(j, f) == job[j].at = "unlink" /\ job[j].item = f
Removing(j, f) == f \in job[j].paths \/ Unlinking(j, f)

\* A file belongs to the journal and its copies, to the dump, to one upload, or
\* to nobody; what a request unlinks has no row left and can get none, as only
\* journal rows are copied.
FileOK(f) ==
    /\ f \in Kept \cup dump => f \in uploads
    /\ f \in dump => f \notin Kept
    /\ f >= nextItem => f \notin uploads /\ \A j \in Jobs : ~Uploading(j, f) /\ ~Removing(j, f)
    /\ \A j \in Jobs : Removing(j, f) => f \notin dump
    /\ \A j \in Jobs : Unlinking(j, f) => f \notin Kept
    /\ \A j \in Jobs : Uploading(j, f) =>
         f \in uploads \ (Kept \cup dump) /\ \A k \in Jobs : ~Removing(k, f) /\ (Uploading(k, f) => k = j)

\* A request that writes a block has stored a file.
UploadsNamed == \A j \in Jobs : job[j].at = "tx" /\ job[j].op = "upload" => job[j].item \in Items

FilesOK == \A f \in Items : FileOK(f)

\* What a request knows while it waits: only a detach and the removal of a day
\* carry paths, and the latter's are those of all the rows it will find, as
\* rows that come later have another key.
Knows(j) ==
    LET r == job[j] IN
    /\ r.at = "free" \/ (r.at = "tx" /\ r.op \notin {"detach", "dropDay"}) => r.paths = {}
    /\ r.at = "tx" /\ r.op = "refresh" => r.key >= 1
    /\ r.at = "tx" /\ r.op = "dropDay" =>
         /\ r.key < nextKey
         /\ HasFile({x \in diary : x.day = r.day /\ x.key = r.key}) \subseteq r.paths

SectionOK == /\ section = Detached => diary = {}
             /\ section # Detached => section.id >= 1
             /\ \A x \in diary : x.key < nextKey

\* A file is in use, given up, or in the hands of a request.
InHand(f) == \E j \in Jobs : Uploading(j, f) \/ Removing(j, f)
Accounted(f) == f \in uploads => f \in Kept \cup dump \cup spared \/ InHand(f)

OrphansInv == SectionOK /\ (\A j \in Jobs : Knows(j)) /\ (\A f \in Items : Accounted(f))

KeepsakesInv == KeepsakesTypeOK /\ UploadsNamed /\ FilesOK

Job == [at : {"free", "tx", "count", "unlink"}, op : Operation, day : Days, item : 0..MaxItems,
        key : 0..(MaxIds + 1), paths : SUBSET Items]

-----------------------------------------------------------------------------
\* A file is a row's when that row holds it.
LEMMA FileRow ==
    ASSUME NEW rows, NEW f
    PROVE  f \in HasFile(rows) <=> \E r \in rows : r.file /\ r.item = f
BY DEF HasFile

\* Copying the journal into the diary brings in no file of its own.
LEMMA Copied ==
    ASSUME NEW old, NEW lo, NEW hi, NEW f, f \in HasFile(CopyDiaryDays(old, lo, hi))
    PROVE  f \in HasFile(old) \cup HasFile(journal)
<1>1. PICK r \in CopyDiaryDays(old, lo, hi) : r.file /\ r.item = f
  BY FileRow
<1>2. CASE r \in old
  BY <1>1, <1>2, FileRow
<1>3. CASE \E x \in journal : r = [item |-> x.item, day |-> x.day, file |-> x.file, key |-> nextKey]
  BY <1>1, <1>3, FileRow
<1> QED
  BY <1>2, <1>3 DEF CopyDiaryDays

\* What the requests in flight hold, and the bounds they count to.
LEMMA JobTypes ==
    ASSUME KeepsakesTypeOK
    PROVE  /\ job \in [Jobs -> Job] /\ NoJob \in Job
           /\ nextItem \in 1..(MaxItems + 1) /\ nextItem \in Nat /\ MaxItems \in Nat /\ MaxIds \in Nat
           /\ LastDay \in Nat /\ 1 \in Days /\ 1 <= LastDay
           /\ \A paths \in SUBSET Items : Cleaning(paths) \in Job
<1> USE KeepsakesAssumption
<1>1. job \in [Jobs -> Job]
  BY DEF KeepsakesTypeOK, Job
<1>2. 1 \in Days /\ 1 <= LastDay /\ LastDay \in Nat /\ MaxItems \in Nat /\ MaxIds \in Nat
  BY DEF Days
<1>3. NoJob \in Job
  BY <1>2 DEF NoJob, Job, Operation
<1>4. nextItem \in 1..(MaxItems + 1) /\ nextItem \in Nat
  BY DEF KeepsakesTypeOK
<1>5. ASSUME NEW paths \in SUBSET Items PROVE Cleaning(paths) \in Job
  BY <1>3, <1>5 DEF Cleaning, Job
<1> QED
  BY <1>1, <1>2, <1>3, <1>4, <1>5

\* The tables and the requests in flight keep their types.
LEMMA KeepsakesTypeInductive ==
    ASSUME KeepsakesTypeOK, UploadsNamed, [KeepsakesNext]_keepsakeVars
    PROVE  KeepsakesTypeOK'
<1> USE KeepsakesAssumption
<1>j. /\ job \in [Jobs -> Job] /\ NoJob \in Job /\ 1 \in Days /\ 1 <= LastDay
      /\ LastDay \in Nat /\ MaxItems \in Nat /\ MaxIds \in Nat
      /\ \A paths \in SUBSET Items : Cleaning(paths) \in Job
  BY JobTypes
<1>p. job' \in [Jobs -> Job] => job' \in [Jobs -> [at : {"free", "tx", "count", "unlink"},
                         op : Operation, day : Days, item : 0..MaxItems, key : 0..(MaxIds + 1),
                         paths : SUBSET Items]]
  BY DEF Job
<1>l. ASSUME NEW d \in Days, WrittenLate(d) PROVE left' \subseteq Days
  BY <1>l DEF WrittenLate, KeepsakesTypeOK
<1>n. nextItem \in 1..(MaxItems + 1) /\ (nextItem <= MaxItems =>
        nextItem \in Items /\ nextItem \in 0..MaxItems /\ nextItem + 1 \in 1..(MaxItems + 1))
  BY <1>j DEF KeepsakesTypeOK, Items
<1>r. ASSUME NEW op \in Operation, NEW day \in Days, NEW item \in 0..MaxItems,
             NEW key \in 0..(MaxIds + 1), NEW paths \in SUBSET Items
      PROVE  /\ [NoJob EXCEPT !.at = "tx", !.day = day, !.key = key, !.item = item] \in Job
             /\ [NoJob EXCEPT !.at = "tx", !.op = op, !.day = day] \in Job
             /\ [NoJob EXCEPT !.at = "tx", !.op = op, !.key = key, !.day = day] \in Job
             /\ [NoJob EXCEPT !.at = "tx", !.op = op, !.key = key, !.item = item] \in Job
             /\ [NoJob EXCEPT !.at = "tx", !.op = op, !.key = key, !.paths = paths] \in Job
             /\ [NoJob EXCEPT !.at = "tx", !.op = op, !.key = key, !.day = day, !.paths = paths] \in Job
  BY <1>j DEF Job
<1>o. Operation = {"upload", "attach", "refresh", "detach", "dropDay", "dropBlock"} /\ ThisPage \in 0..(MaxIds + 1)
  BY <1>j DEF Operation, ThisPage
<1>w. ASSUME NEW j \in Jobs, NEW f PROVE Without(j, f) \in Job
  BY <1>j DEF Without, Job
<1>h. /\ HasFile(journal) \subseteq Items /\ HasFile(diary) \subseteq Items
      /\ \A rows : rows \subseteq diary => HasFile(rows) \subseteq Items
  BY DEF HasFile, KeepsakesTypeOK
<1>1. ASSUME NEW d \in Days, CreateRambleTextBlock(d) PROVE KeepsakesTypeOK'
  <2>1. nextItem \in Items /\ nextItem' \in 1..(MaxItems + 1)
    BY <1>1, <1>n DEF CreateRambleTextBlock
  <2>2. [item |-> nextItem, day |-> d, file |-> FALSE] \in [item : Items, day : Days, file : BOOLEAN]
    BY <2>1
  <2> QED
    BY <1>1, <1>l, <2>1, <2>2 DEF CreateRambleTextBlock, KeepsakesTypeOK
<1>2. CASE UploadToDump
  <2>1. nextItem \in Items /\ nextItem' \in 1..(MaxItems + 1)
    BY <1>2, <1>n DEF UploadToDump
  <2> QED
    BY <1>2, <2>1 DEF UploadToDump, KeepsakesTypeOK
<1>3. ASSUME NEW i \in dump, DeleteFromDump(i) PROVE KeepsakesTypeOK'
  BY <1>3 DEF DeleteFromDump, KeepsakesTypeOK
<1>4. CASE PublishKeepsakes \/ TodayChanges
  BY <1>4 DEF PublishKeepsakes, TodayChanges, KeepsakesTypeOK
<1>5. CASE KeepsakesHalt
  <2>1. job' \in [Jobs -> Job]
    BY <1>5, <1>j DEF KeepsakesHalt
  <2> QED
    BY <1>5, <1>p, <2>1 DEF KeepsakesHalt, KeepsakesTypeOK
<1>6. ASSUME NEW j \in Jobs, NEW d \in Days, ReceiveRambleMedia(j, d) PROVE KeepsakesTypeOK'
  <2>0. nextItem \in Items /\ nextItem \in 0..MaxItems /\ nextItem + 1 \in 1..(MaxItems + 1)
    BY <1>6, <1>n DEF ReceiveRambleMedia
  <2>1. [NoJob EXCEPT !.at = "tx", !.day = d, !.key = ThisPage, !.item = nextItem] \in Job
    BY <1>r, <1>o, <2>0
  <2>2. job' \in [Jobs -> Job]
    BY <1>6, <1>j, <2>1 DEF ReceiveRambleMedia, Request
  <2> QED
    BY <1>6, <1>p, <2>0, <2>2 DEF ReceiveRambleMedia, KeepsakesTypeOK
<1>7. ASSUME NEW j \in Jobs, CreateRambleBlock(j) PROVE KeepsakesTypeOK'
  <2>1. job' \in [Jobs -> Job]
    BY <1>7, <1>j DEF CreateRambleBlock, Free
  <2>2. job[j].day \in Days /\ job[j].item \in Items
    BY <1>7, <1>j DEF Job, CreateRambleBlock, Serving, UploadsNamed
  <2>3. [item |-> job[j].item, day |-> job[j].day, file |-> TRUE]
          \in [item : Items, day : Days, file : BOOLEAN]
    BY <2>2
  <2>4. journal' \subseteq [item : Items, day : Days, file : BOOLEAN] /\ spared' \subseteq Items
    BY <1>7, <2>2, <2>3 DEF CreateRambleBlock, KeepsakesTypeOK
  <2>5. left' \subseteq Days
    BY <1>7, <1>l, <2>2 DEF CreateRambleBlock, KeepsakesTypeOK
  <2> QED
    BY <1>7, <1>p, <2>1, <2>4, <2>5 DEF CreateRambleBlock, KeepsakesTypeOK
<1>8. ASSUME NEW j \in Jobs, NEW x \in journal, DeleteRambleBlock(j, x) PROVE KeepsakesTypeOK'
  <2>1. x.item \in Items /\ x.day \in Days
    BY DEF KeepsakesTypeOK
  <2>2. job' \in [Jobs -> Job]
    <3>1. ASSUME NEW k \in Jobs PROVE [job[k] EXCEPT !.key = 0] \in Job
      BY <1>j DEF Job
    <3>2. Cleaning({x.item}) \in Job
      BY <1>j, <2>1
    <3> QED
      BY <1>8, <1>j, <3>1, <3>2 DEF DeleteRambleBlock
  <2> QED
    BY <1>8, <1>p, <2>2 DEF DeleteRambleBlock, KeepsakesTypeOK
<1>9. ASSUME NEW j \in Jobs, NEW f \in Items, CountUploadsReferencing(j, f) PROVE KeepsakesTypeOK'
  <2>1. [job[j] EXCEPT !.at = "unlink", !.item = f] \in Job
    <3>1. f \in 0..MaxItems
      BY <1>j DEF Items
    <3> QED
      BY <1>j, <3>1 DEF Job
  <2>2. job' \in [Jobs -> Job]
    BY <1>9, <1>j, <1>w, <2>1 DEF CountUploadsReferencing
  <2> QED
    BY <1>9, <1>p, <2>2 DEF CountUploadsReferencing, KeepsakesTypeOK
<1>10. ASSUME NEW j \in Jobs, RemoveUpload(j) PROVE KeepsakesTypeOK'
  <2>2. job' \in [Jobs -> Job]
    BY <1>10, <1>j, <1>w DEF RemoveUpload
  <2> QED
    BY <1>10, <1>p, <2>2 DEF RemoveUpload, KeepsakesTypeOK
<1>11. ASSUME NEW j \in Jobs, RequestAttach(j) \/ RequestRefresh(j) \/ RequestDetach(j) PROVE KeepsakesTypeOK'
  <2>1. PICK t \in Days, i \in 0..(MaxIds + 1), p \in SUBSET Items :
               t = today /\ i = section.id /\ p = CollectedPaths(diary)
    <3>1. today \in Days /\ section.id \in 0..(MaxIds + 1) /\ CollectedPaths(diary) \subseteq Items
      BY <1>h DEF KeepsakesTypeOK, CollectedPaths
    <3> QED
      BY <3>1
  <2>2. job' \in [Jobs -> Job]
    <3>1. \E r \in Job : Request(j, r)
      <4>1. /\ [NoJob EXCEPT !.at = "tx", !.op = "attach", !.day = t] \in Job
            /\ [NoJob EXCEPT !.at = "tx", !.op = "refresh", !.key = i, !.day = t] \in Job
            /\ [NoJob EXCEPT !.at = "tx", !.op = "detach", !.key = i, !.paths = p] \in Job
        BY <1>j, <1>o DEF Job
      <4>2. CASE RequestAttach(j)
        <5>1. Request(j, [NoJob EXCEPT !.at = "tx", !.op = "attach", !.day = t])
          BY <4>2, <2>1 DEF RequestAttach
        <5> QED
          BY <4>1, <5>1, Zenon
      <4>3. CASE RequestRefresh(j)
        <5>1. Request(j, [NoJob EXCEPT !.at = "tx", !.op = "refresh", !.key = i, !.day = t])
          BY <4>3, <2>1 DEF RequestRefresh
        <5> QED
          BY <4>1, <5>1, Zenon
      <4>4. CASE RequestDetach(j)
        <5>1. Request(j, [NoJob EXCEPT !.at = "tx", !.op = "detach", !.key = i, !.paths = p])
          BY <4>4, <2>1 DEF RequestDetach
        <5> QED
          BY <4>1, <5>1, Zenon
      <4> QED
        BY <1>11, <4>2, <4>3, <4>4
    <3> QED
      BY <1>j, <3>1 DEF Request
  <2> QED
    BY <1>11, <1>p, <2>2 DEF RequestAttach, RequestRefresh, RequestDetach, KeepsakesTypeOK
<1>12. ASSUME NEW j \in Jobs, NEW x \in diary, RequestDropDay(j, x) \/ RequestDropBlock(j, x)
       PROVE  KeepsakesTypeOK'
  <2>1. x.day \in Days /\ x.item \in 0..MaxItems /\ x.key \in 0..(MaxIds + 1)
    BY <1>j DEF KeepsakesTypeOK, Items
  <2>2. CollectedPaths({y \in diary : y.day = x.day /\ y.key = x.key}) \subseteq Items
    BY <1>h DEF CollectedPaths
  <2>3. job' \in [Jobs -> Job]
    <3>1. \E r \in Job : Request(j, r)
      BY <1>12, <1>r, <1>o, <2>1, <2>2 DEF RequestDropDay, RequestDropBlock
    <3> QED
      BY <1>j, <3>1 DEF Request
  <2> QED
    BY <1>12, <1>p, <2>3 DEF RequestDropDay, RequestDropBlock, KeepsakesTypeOK
<1>13. ASSUME NEW j \in Jobs, AttachDiarySection(j) \/ RefreshDiarySection(j) PROVE KeepsakesTypeOK'
  <2>1. job' \in [Jobs -> Job]
    BY <1>13, <1>j DEF AttachDiarySection, RefreshDiarySection, Free
  <2>2. job[j].day \in Days
    BY <1>j DEF Job
  <2>3. nextKey <= MaxIds =>
          /\ nextKey \in 1..MaxIds
          /\ \A lo, hi : /\ CopyDiaryDays({}, lo, hi) \subseteq
                              [item : Items, day : Days, file : BOOLEAN, key : 1..MaxIds]
                         /\ CopyDiaryDays(diary, lo, hi) \subseteq
                              [item : Items, day : Days, file : BOOLEAN, key : 1..MaxIds]
    BY <1>j DEF CopyDiaryDays, KeepsakesTypeOK
  <2> QED
    BY <1>13, <1>j, <1>p, <2>1, <2>2, <2>3 DEF AttachDiarySection, RefreshDiarySection, KeepsakesTypeOK
<1>14. ASSUME NEW j \in Jobs, DeleteDiaryRows(j) PROVE KeepsakesTypeOK'
  <2>1. job[j].paths \subseteq Items
    BY <1>j DEF Job
  <2>2. Doomed(j) \subseteq diary
    BY DEF Doomed
  <2>3. HasFile(Doomed(j)) \subseteq Items
    BY <1>h, <2>2
  <2>4. job' \in [Jobs -> Job]
    BY <1>14, <1>j, <2>1, <2>3 DEF DeleteDiaryRows
  <2>5. section' \in [id : 0..MaxIds, through : Days]
    BY <1>14, <1>j DEF DeleteDiaryRows, Detached, KeepsakesTypeOK
  <2>6. diary' \subseteq diary /\ spared' \subseteq Items
    BY <1>14, <2>3 DEF DeleteDiaryRows, KeepsakesTypeOK
  <2>7. left' \subseteq Days
    BY <1>14, <2>2 DEF DeleteDiaryRows, KeepsakesTypeOK
  <2> QED
    BY <1>14, <1>p, <2>4, <2>5, <2>6, <2>7 DEF DeleteDiaryRows, KeepsakesTypeOK
<1>15. CASE UNCHANGED keepsakeVars
  BY <1>15 DEF keepsakeVars, KeepsakesTypeOK
<1> QED
  BY <1>1, <1>2, <1>3, <1>4, <1>5, <1>6, <1>7, <1>8, <1>9, <1>10, <1>11, <1>12, <1>13, <1>14, <1>15
     DEF KeepsakesNext

-----------------------------------------------------------------------------
\* Requests that give no file a new row and unlink none.
LEMMA RowsOnlyGo ==
    ASSUME NEW f \in Items, FileOK(f), nextItem \in Nat, nextItem' \in Nat, nextItem <= nextItem',
           f \in Kept' => f \in Kept, f \in dump' => f \in dump, f \in uploads' <=> f \in uploads,
           \A k \in Jobs : /\ Uploading(k, f)' => Uploading(k, f)
                           /\ Removing(k, f)' => Removing(k, f) \/ f \in Kept
                           /\ Unlinking(k, f)' => Unlinking(k, f)
    PROVE  FileOK(f)'
<1>0. f \in Nat
  BY KeepsakesAssumption DEF Items
<1>1. (f \in Kept \cup dump => f \in uploads)' /\ (f \in dump => f \notin Kept)'
  BY DEF FileOK
<1>2. (f >= nextItem => f \notin uploads /\ \A j \in Jobs : ~Uploading(j, f) /\ ~Removing(j, f))'
  BY <1>0 DEF FileOK
<1>3. (\A j \in Jobs : (Removing(j, f) => f \notin dump) /\ (Unlinking(j, f) => f \notin Kept))'
  BY DEF FileOK
<1>4. (\A j \in Jobs : Uploading(j, f) =>
         f \in uploads \ (Kept \cup dump) /\ \A k \in Jobs : ~Removing(k, f) /\ (Uploading(k, f) => k = j))'
  BY DEF FileOK
<1> QED
  BY <1>1, <1>2, <1>3, <1>4, Zenon DEF FileOK

\* An upload that waits for its transaction has its file on disk, with a name.
LEMMA UploadsNamedInductive ==
    ASSUME KeepsakesTypeOK, UploadsNamed, [KeepsakesNext]_keepsakeVars
    PROVE  UploadsNamed'
<1> USE KeepsakesAssumption
<1>t. \A j \in Jobs : \A r : job' = [job EXCEPT ![j] = r] =>
        \A k \in Jobs : job'[k] = IF k = j THEN r ELSE job[k]
  BY DEF KeepsakesTypeOK
<1>k. ASSUME NEW j \in Jobs, NEW r, job' = [job EXCEPT ![j] = r], r.at = "tx" /\ r.op = "upload" => r.item \in Items
      PROVE  UploadsNamed'
  BY <1>t, <1>k DEF UploadsNamed
<1>c. ASSUME NEW j \in Jobs, NEW f
      PROVE  NoJob.at = "free" /\ Without(j, f).at # "tx" /\ \A paths : Cleaning(paths).at = "count"
  BY DEF NoJob, Without, Cleaning
<1>1. CASE UNCHANGED job
  BY <1>1 DEF UploadsNamed
<1>2. CASE KeepsakesHalt
  BY <1>2 DEF KeepsakesHalt, NoJob, UploadsNamed
<1>3. ASSUME NEW j \in Jobs, NEW d \in Days, ReceiveRambleMedia(j, d) PROVE UploadsNamed'
  <2>1. nextItem \in Items
    BY <1>3, JobTypes DEF ReceiveRambleMedia, Items
  <2>2. [NoJob EXCEPT !.at = "tx", !.day = d, !.key = ThisPage, !.item = nextItem].item = nextItem
    BY DEF NoJob
  <2> QED
    BY <1>3, <1>t, <2>1, <2>2 DEF ReceiveRambleMedia, Request, UploadsNamed
<1>4. ASSUME NEW j \in Jobs, \/ CreateRambleBlock(j) \/ RemoveUpload(j) \/ DeleteDiaryRows(j)
                             \/ AttachDiarySection(j) \/ RefreshDiarySection(j)
                             \/ \E f \in Items : CountUploadsReferencing(j, f)
      PROVE  UploadsNamed'
  <2>1. \A f : [job[j] EXCEPT !.at = "unlink", !.item = f].at = "unlink"
    BY JobTypes DEF Job
  <2>2. \E r : job' = [job EXCEPT ![j] = r] /\ r.at # "tx"
    <3>1. CASE CreateRambleBlock(j) \/ AttachDiarySection(j) \/ RefreshDiarySection(j)
      BY <3>1, <1>c DEF CreateRambleBlock, AttachDiarySection, RefreshDiarySection, Free
    <3>2. CASE RemoveUpload(j)
      BY <3>2, <1>c DEF RemoveUpload
    <3>3. CASE DeleteDiaryRows(j)
      <4>1. PICK p : job' = [job EXCEPT ![j] = IF p = {} THEN NoJob ELSE Cleaning(p)]
        BY <3>3, Zenon DEF DeleteDiaryRows
      <4> QED
        BY <4>1, <1>c
    <3>4. ASSUME NEW f \in Items, CountUploadsReferencing(j, f)
          PROVE  \E r : job' = [job EXCEPT ![j] = r] /\ r.at # "tx"
      BY <3>4, <1>c, <2>1 DEF CountUploadsReferencing
    <3> QED
      BY <1>4, <3>1, <3>2, <3>3, <3>4
  <2> QED
    BY <1>k, <1>t, <2>2 DEF UploadsNamed
<1>5. ASSUME NEW j \in Jobs, NEW x \in journal, DeleteRambleBlock(j, x) PROVE UploadsNamed'
  <2>1. \A k \in Jobs : LET r == [job[k] EXCEPT !.key = 0] IN
                        r.at = job[k].at /\ r.op = job[k].op /\ r.item = job[k].item
    BY JobTypes DEF Job
  <2> QED
    BY <1>5, <1>c, <2>1 DEF DeleteRambleBlock, UploadsNamed
<1>6. ASSUME NEW j \in Jobs, \/ RequestAttach(j) \/ RequestRefresh(j) \/ RequestDetach(j)
                             \/ \E x \in diary : RequestDropDay(j, x) \/ RequestDropBlock(j, x)
      PROVE  UploadsNamed'
  <2>0. job \in [Jobs -> Job]
    BY JobTypes
  <2>1. job'[j].op # "upload" /\ \A k \in Jobs \ {j} : job'[k] = job[k]
    <3>1. CASE RequestAttach(j)
      BY <3>1, <2>0 DEF RequestAttach, Request, NoJob
    <3>2. CASE RequestRefresh(j)
      BY <3>2, <2>0 DEF RequestRefresh, Request, NoJob
    <3>3. CASE RequestDetach(j)
      BY <3>3, <2>0 DEF RequestDetach, Request, NoJob
    <3>4. ASSUME NEW x \in diary, RequestDropDay(j, x)
          PROVE  job'[j].op # "upload" /\ \A k \in Jobs \ {j} : job'[k] = job[k]
      BY <3>4, <2>0 DEF RequestDropDay, Request, NoJob
    <3>5. ASSUME NEW x \in diary, RequestDropBlock(j, x)
          PROVE  job'[j].op # "upload" /\ \A k \in Jobs \ {j} : job'[k] = job[k]
      BY <3>5, <2>0 DEF RequestDropBlock, Request, NoJob
    <3> QED
      BY <1>6, <3>1, <3>2, <3>3, <3>4, <3>5
  <2> QED
    BY <2>1 DEF UploadsNamed
<1>7. (\E d \in Days : CreateRambleTextBlock(d)) \/ UploadToDump \/ (\E i \in dump : DeleteFromDump(i))
        \/ PublishKeepsakes \/ TodayChanges \/ UNCHANGED keepsakeVars => UNCHANGED job
  BY DEF CreateRambleTextBlock, UploadToDump, DeleteFromDump, PublishKeepsakes, TodayChanges, keepsakeVars
<1> QED
  BY <1>1, <1>2, <1>3, <1>4, <1>5, <1>6, <1>7, Zenon DEF KeepsakesNext

\* Every step leaves every file in order.
LEMMA FileInductive ==
    ASSUME KeepsakesTypeOK, [KeepsakesNext]_keepsakeVars, NEW f \in Items, FilesOK
    PROVE  FileOK(f)'
<1> USE KeepsakesAssumption
<1>j. job \in [Jobs -> Job] /\ nextItem \in Nat
  BY JobTypes
<1>f. FileOK(f)
  BY DEF FilesOK
<1>n. NoJob.at = "free" /\ NoJob.paths = {} /\ \A p : Cleaning(p).at = "count" /\ Cleaning(p).paths = p
  BY DEF NoJob, Cleaning
<1>w. \A j \in Jobs : \A g : Without(j, g).at # "tx" /\ Without(j, g).at # "unlink" /\ Without(j, g).paths \subseteq job[j].paths
  BY <1>n DEF Without
<1>x. nextItem \in Nat /\ f \in Nat
  BY <1>j DEF Items
<1>k. ASSUME nextItem' = nextItem, HasFile(journal)' \subseteq HasFile(journal) \cup HasFile(diary),
             HasFile(diary)' \subseteq HasFile(journal) \cup HasFile(diary), UNCHANGED <<dump, uploads>>,
             NEW j \in Jobs, \A k \in Jobs \ {j} : job'[k] = job[k],
             job'[j].at # "unlink", job'[j].at = "tx" => job'[j].op # "upload",
             f \in job'[j].paths => f \in job[j].paths \/ f \in Kept
      PROVE  FileOK(f)'
  BY <1>k, <1>x, <1>f, RowsOnlyGo DEF Kept, Uploading, Removing, Unlinking
<1>1. ASSUME NEW d \in Days, CreateRambleTextBlock(d) PROVE FileOK(f)'
  <2>1. HasFile(journal)' = HasFile(journal)
    BY <1>1 DEF CreateRambleTextBlock, HasFile
  <2>2. UNCHANGED Kept
    BY <1>1, <2>1 DEF CreateRambleTextBlock, Kept, HasFile
  <2> QED
    BY <1>1, <1>x, <1>f, <2>1, <2>2 DEF CreateRambleTextBlock, FileOK, Uploading, Removing, Unlinking
<1>2. CASE UploadToDump
  <2>1. nextItem' = nextItem + 1 /\ nextItem \notin uploads /\ nextItem \notin Kept \cup dump
    BY <1>2, <1>x, JobTypes DEF UploadToDump, FilesOK, FileOK, Items
  <2>2. UNCHANGED <<Kept, job>>
    BY <1>2 DEF UploadToDump, Kept
  <2> QED
    BY <1>2, <1>x, <1>f, <2>1, <2>2 DEF UploadToDump, FileOK, Uploading, Removing, Unlinking
<1>3. ASSUME NEW i \in dump, DeleteFromDump(i) PROVE FileOK(f)'
  BY <1>3, <1>x, <1>f DEF DeleteFromDump, FileOK, Kept, Uploading, Removing, Unlinking
<1>4. CASE PublishKeepsakes \/ TodayChanges \/ UNCHANGED keepsakeVars
  BY <1>4, <1>x, <1>f, RowsOnlyGo DEF PublishKeepsakes, TodayChanges, keepsakeVars, Kept, Uploading, Removing, Unlinking
<1>5. CASE KeepsakesHalt
  BY <1>5, <1>x, <1>f, <1>n, RowsOnlyGo DEF KeepsakesHalt, Kept, Uploading, Removing, Unlinking
<1>6. ASSUME NEW j \in Jobs, NEW d \in Days, ReceiveRambleMedia(j, d) PROVE FileOK(f)'
  <2>1. nextItem' = nextItem + 1 /\ uploads' = uploads \cup {nextItem} /\ UNCHANGED <<Kept, dump>>
    BY <1>6 DEF ReceiveRambleMedia, Kept
  <2>2. nextItem \notin uploads /\ nextItem \notin Kept \cup dump
    BY <1>6, <1>x, JobTypes DEF ReceiveRambleMedia, FilesOK, FileOK, Items
  <2>3. /\ job'[j].at = "tx" /\ job'[j].op = "upload" /\ job'[j].item = nextItem /\ job'[j].paths = {}
        /\ \A k \in Jobs \ {j} : job'[k] = job[k]
    BY <1>6, <1>j DEF ReceiveRambleMedia, Request, NoJob
  <2> QED
    BY <1>x, <1>f, <2>1, <2>2, <2>3 DEF FileOK, Uploading, Removing, Unlinking
<1>7. ASSUME NEW j \in Jobs, CreateRambleBlock(j) PROVE FileOK(f)'
  <2>1. job'[j] = NoJob /\ \A k \in Jobs \ {j} : job'[k] = job[k]
    BY <1>7, <1>j DEF CreateRambleBlock, Free
  <2>2. Kept \subseteq Kept' /\ Kept' \subseteq Kept \cup {job[j].item}
    BY <1>7 DEF CreateRambleBlock, Kept, HasFile
  <2>3. Uploading(j, job[j].item)
    BY <1>7 DEF CreateRambleBlock, Serving, Uploading
  <2> QED
    BY <1>7, <1>x, <1>f, <1>n, <2>1, <2>2, <2>3 DEF CreateRambleBlock, FileOK, Uploading, Removing, Unlinking
<1>8. ASSUME NEW j \in Jobs, NEW x \in journal, DeleteRambleBlock(j, x) PROVE FileOK(f)'
  <2>1. \A k \in Jobs : LET r == [job[k] EXCEPT !.key = 0] IN
                        r.at = job[k].at /\ r.op = job[k].op /\ r.item = job[k].item /\ r.paths = job[k].paths
    BY <1>j DEF Job
  <2>2. \A k \in Jobs \ {j} : /\ job'[k].at = job[k].at /\ job'[k].op = job[k].op
                              /\ job'[k].item = job[k].item /\ job'[k].paths = job[k].paths
    BY <1>8, <2>1 DEF DeleteRambleBlock
  <2>3. x.file => x.item \in Kept
    BY FileRow DEF Kept
  <2>4. job'[j].at \in {"free", "count"} /\ (f \in job'[j].paths => f \in Kept)
    BY <1>8, <1>n, <2>3 DEF DeleteRambleBlock
  <2>5. Kept' \subseteq Kept
    BY <1>8 DEF DeleteRambleBlock, Kept, HasFile
  <2>6. UNCHANGED <<nextItem, dump, uploads>>
    BY <1>8 DEF DeleteRambleBlock
  <2>7. \A k \in Jobs : /\ Uploading(k, f)' => Uploading(k, f)
                        /\ Removing(k, f)' => Removing(k, f) \/ f \in Kept
                        /\ Unlinking(k, f)' => Unlinking(k, f)
    BY <2>2, <2>4 DEF Uploading, Removing, Unlinking
  <2> QED
    BY <1>x, <1>f, <2>5, <2>6, <2>7, RowsOnlyGo
<1>9. ASSUME NEW j \in Jobs, NEW g \in Items, CountUploadsReferencing(j, g) PROVE FileOK(f)'
  <2>1. \A k \in Jobs \ {j} : job'[k] = job[k]
    BY <1>9, <1>j DEF CountUploadsReferencing
  <2>2. \/ /\ g \notin Kept /\ job'[j].at = "unlink" /\ job'[j].item = g /\ job'[j].paths = job[j].paths
        \/ job'[j] = Without(j, g)
    BY <1>9, <1>j DEF CountUploadsReferencing, Unreferenced, Kept, Job
  <2>3. g \in job[j].paths /\ UNCHANGED <<Kept, dump, uploads, nextItem>>
    BY <1>9 DEF CountUploadsReferencing, Kept
  <2> QED
    BY <1>x, <1>f, <1>w, <2>1, <2>2, <2>3 DEF FileOK, Uploading, Removing, Unlinking
<1>10. ASSUME NEW j \in Jobs, RemoveUpload(j) PROVE FileOK(f)'
  <2>1. job'[j] = Without(j, job[j].item) /\ \A k \in Jobs \ {j} : job'[k] = job[k]
    BY <1>10, <1>j DEF RemoveUpload
  <2>2. Unlinking(j, job[j].item) /\ UNCHANGED <<Kept, dump, nextItem>> /\ uploads' = uploads \ {job[j].item}
    BY <1>10 DEF RemoveUpload, Unlinking, Kept
  <2> QED
    BY <1>x, <1>f, <1>w, <2>1, <2>2 DEF FileOK, Uploading, Removing, Unlinking
<1>11. ASSUME NEW j \in Jobs, \/ RequestAttach(j) \/ RequestRefresh(j) \/ RequestDetach(j)
                              \/ \E x \in diary : RequestDropDay(j, x) \/ RequestDropBlock(j, x)
       PROVE  FileOK(f)'
  <2>1. HasFile(diary) \subseteq Kept /\ \A rows : rows \subseteq diary => HasFile(rows) \subseteq Kept
    BY DEF HasFile, Kept
  <2>2. /\ job'[j].at = "tx" /\ job'[j].op # "upload" /\ job'[j].paths \subseteq Kept
        /\ UNCHANGED <<journal, diary, dump, uploads, nextItem>> /\ \A k \in Jobs \ {j} : job'[k] = job[k]
    <3>1. CASE RequestAttach(j)
      BY <3>1, <1>j DEF RequestAttach, Request, NoJob
    <3>2. CASE RequestRefresh(j)
      BY <3>2, <1>j DEF RequestRefresh, Request, NoJob
    <3>3. CASE RequestDetach(j)
      BY <3>3, <1>j, <2>1 DEF RequestDetach, Request, NoJob, CollectedPaths
    <3>4. CASE \E x \in diary : RequestDropDay(j, x)
      BY <3>4, <1>j, <2>1 DEF RequestDropDay, Request, NoJob, CollectedPaths
    <3>5. CASE \E x \in diary : RequestDropBlock(j, x)
      BY <3>5, <1>j DEF RequestDropBlock, Request, NoJob
    <3> QED
      BY <1>11, <3>1, <3>2, <3>3, <3>4, <3>5
  <2> QED
    BY <1>k, <2>2 DEF Kept
<1>12. ASSUME NEW j \in Jobs, AttachDiarySection(j) \/ RefreshDiarySection(j) PROVE FileOK(f)'
  <2>1. job'[j] = NoJob /\ \A k \in Jobs \ {j} : job'[k] = job[k]
    BY <1>12, <1>j DEF AttachDiarySection, RefreshDiarySection, Free
  <2>2. HasFile(diary)' \subseteq HasFile(journal) \cup HasFile(diary)
    <3>1. diary' = diary \/ \E old \in {{}, diary} : \E lo, hi : diary' = CopyDiaryDays(old, lo, hi)
      BY <1>12 DEF AttachDiarySection, RefreshDiarySection
    <3>2. HasFile({}) = {}
      BY DEF HasFile
    <3> QED
      BY <3>1, <3>2, Copied
  <2> QED
    BY <1>12, <1>k, <1>n, <2>1, <2>2 DEF AttachDiarySection, RefreshDiarySection
<1>13. ASSUME NEW j \in Jobs, DeleteDiaryRows(j) PROVE FileOK(f)'
  <2>1. Doomed(j) \subseteq diary /\ HasFile(Doomed(j)) \subseteq Kept
    BY DEF Doomed, HasFile, Kept
  <2>2. \A k \in Jobs \ {j} : job'[k] = job[k]
    BY <1>13, <1>j DEF DeleteDiaryRows
  <2>3. \E p : /\ p \subseteq Kept \cup job[j].paths
               /\ job'[j] = IF p = {} THEN NoJob ELSE Cleaning(p)
    BY <1>13, <1>j, <2>1 DEF DeleteDiaryRows
  <2>4. /\ UNCHANGED <<journal, dump, uploads, nextItem>> /\ HasFile(diary)' \subseteq HasFile(diary)
    BY <1>13 DEF DeleteDiaryRows, HasFile
  <2> QED
    BY <1>k, <1>n, <2>2, <2>3, <2>4 DEF Kept
<1> QED
  BY <1>1, <1>2, <1>3, <1>4, <1>5, <1>6, <1>7, <1>8, <1>9, <1>10, <1>11, <1>12, <1>13, Zenon DEF KeepsakesNext

-----------------------------------------------------------------------------
\* Rows that are copied get a key of their own.
LEMMA CopiesAreNew ==
    ASSUME KeepsakesTypeOK, [KeepsakesNext]_keepsakeVars
    PROVE  /\ nextKey \in Nat /\ nextKey' \in Nat /\ nextKey <= nextKey'
           /\ \A x \in diary' : x \in diary \/ (x.key = nextKey /\ nextKey < nextKey')
<1>1. nextKey \in Nat
  BY KeepsakesAssumption DEF KeepsakesTypeOK
<1>2. \A old, lo, hi : \A x \in CopyDiaryDays(old, lo, hi) : x \in old \/ x.key = nextKey
  BY DEF CopyDiaryDays
<1>3. ASSUME NEW j \in Jobs, AttachDiarySection(j) \/ RefreshDiarySection(j)
      PROVE  \/ UNCHANGED <<diary, nextKey>>
             \/ nextKey' = nextKey + 1 /\ \A x \in diary' : x \in diary \/ x.key = nextKey
  <2>1. CASE AttachDiarySection(j)
    BY <2>1, <1>2 DEF AttachDiarySection
  <2>2. CASE RefreshDiarySection(j)
    BY <2>2, <1>2 DEF RefreshDiarySection
  <2> QED
    BY <1>3, <2>1, <2>2
<1>4. (\E j \in Jobs : AttachDiarySection(j) \/ RefreshDiarySection(j)) \/ (nextKey' = nextKey /\ diary' \subseteq diary)
  BY DEF KeepsakesNext, keepsakeVars, CreateRambleTextBlock, UploadToDump, DeleteFromDump, PublishKeepsakes,
         TodayChanges, KeepsakesHalt, ReceiveRambleMedia, CreateRambleBlock, DeleteRambleBlock,
         CountUploadsReferencing, RemoveUpload, RequestAttach, RequestRefresh, RequestDetach,
         RequestDropDay, RequestDropBlock, DeleteDiaryRows
<1> QED
  BY <1>1, <1>3, <1>4

\* An attached section has an id, and only it holds diary days.
LEMMA SectionInductive ==
    ASSUME KeepsakesTypeOK, OrphansInv, [KeepsakesNext]_keepsakeVars
    PROVE  SectionOK'
<1>1. (\A x \in diary : x.key < nextKey)'
  BY CopiesAreNew DEF KeepsakesTypeOK, OrphansInv, SectionOK
<1>2. SectionOK /\ nextKey \in Nat /\ nextKey >= 1
  BY KeepsakesAssumption DEF OrphansInv, KeepsakesTypeOK
<1>3. (section = Detached => diary = {})' /\ (section # Detached => section.id >= 1)'
  <2>1. ASSUME NEW j \in Jobs, AttachDiarySection(j)
        PROVE  (section = Detached => diary = {})' /\ (section # Detached => section.id >= 1)'
    BY <1>2, <2>1 DEF AttachDiarySection, Detached, SectionOK
  <2>2. ASSUME NEW j \in Jobs, RefreshDiarySection(j)
        PROVE  (section = Detached => diary = {})' /\ (section # Detached => section.id >= 1)'
    <3>1. job[j].key >= 1
      BY <2>2 DEF RefreshDiarySection, Serving, OrphansInv, Knows
    <3>2. section'.id = section.id /\ (section.id = job[j].key \/ UNCHANGED <<section, diary>>)
      BY <2>2 DEF RefreshDiarySection, KeepsakesTypeOK
    <3> QED
      BY <1>2, <3>1, <3>2 DEF SectionOK, Detached
  <2>3. ASSUME NEW j \in Jobs, DeleteDiaryRows(j)
        PROVE  (section = Detached => diary = {})' /\ (section # Detached => section.id >= 1)'
    BY <1>2, <2>3 DEF DeleteDiaryRows, Doomed, SectionOK
  <2>4. \/ \E j \in Jobs : AttachDiarySection(j) \/ RefreshDiarySection(j) \/ DeleteDiaryRows(j)
        \/ UNCHANGED <<section, diary>>
    BY DEF KeepsakesNext, keepsakeVars, CreateRambleTextBlock, UploadToDump, DeleteFromDump, PublishKeepsakes,
           TodayChanges, KeepsakesHalt, ReceiveRambleMedia, CreateRambleBlock, DeleteRambleBlock,
           CountUploadsReferencing, RemoveUpload, RequestAttach, RequestRefresh, RequestDetach,
           RequestDropDay, RequestDropBlock
  <2> QED
    BY <1>2, <2>1, <2>2, <2>3, <2>4 DEF SectionOK
<1> QED
  BY <1>1, <1>3 DEF SectionOK

\* What a waiting request knows stays true until its transaction.
LEMMA KnowsInductive ==
    ASSUME KeepsakesTypeOK, OrphansInv, [KeepsakesNext]_keepsakeVars, NEW k \in Jobs
    PROVE  Knows(k)'
<1>j. job \in [Jobs -> Job] /\ NoJob.at = "free" /\ NoJob.paths = {} /\ \A p : Cleaning(p).at = "count"
  BY JobTypes DEF NoJob, Cleaning
<1>k. Knows(k)
  BY DEF OrphansInv
<1>d. /\ nextKey \in Nat /\ nextKey' \in Nat /\ nextKey <= nextKey'
      /\ \A x \in diary' : x \in diary \/ (x.key = nextKey /\ nextKey < nextKey')
  BY CopiesAreNew
<1>h. job[k].key \in Nat
  BY <1>j, JobTypes DEF Job
<1>s. ASSUME job'[k].at = job[k].at, job'[k].op = job[k].op, job'[k].paths = job[k].paths,
             job'[k].day = job[k].day, job[k].op # "upload" => job'[k].key = job[k].key
      PROVE  Knows(k)'
  <2>1. CASE job[k].at = "tx" /\ job[k].op = "dropDay"
    <3>1. /\ job[k].key < nextKey
          /\ HasFile({x \in diary : x.day = job[k].day /\ x.key = job[k].key}) \subseteq job[k].paths
      BY <1>k, <2>1 DEF Knows
    <3>2. {x \in diary' : x.day = job[k].day /\ x.key = job[k].key}
            \subseteq {x \in diary : x.day = job[k].day /\ x.key = job[k].key}
      BY <1>d, <1>h, <3>1
    <3>3. HasFile({x \in diary' : x.day = job[k].day /\ x.key = job[k].key}) \subseteq job[k].paths
      BY <3>1, <3>2 DEF HasFile
    <3>4. job'[k].key < nextKey'
      BY <1>d, <1>h, <1>s, <2>1, <3>1
    <3> QED
      BY <1>s, <2>1, <3>3, <3>4 DEF Knows
  <2>2. CASE ~(job[k].at = "tx" /\ job[k].op = "dropDay")
    BY <1>k, <1>s, <2>2 DEF Knows
  <2> QED
    BY <2>1, <2>2
<1>c. ASSUME job'[k] = NoJob \/ job'[k].at \in {"count", "unlink"} PROVE Knows(k)'
  BY <1>c, <1>j DEF Knows
<1>r. ASSUME NEW j \in Jobs, NEW r, Request(j, r),
             r.at = "tx", r.op \notin {"detach", "dropDay"} => r.paths = {}, r.op = "refresh" => r.key >= 1, r.op # "dropDay"
      PROVE  Knows(k)'
  <2>1. job'[k] = IF k = j THEN r ELSE job[k]
    BY <1>r, <1>j DEF Request
  <2> QED
    BY <1>r, <1>s, <2>1 DEF Knows
<1>1. CASE UNCHANGED job
  BY <1>1, <1>s
<1>2. CASE KeepsakesHalt
  BY <1>2, <1>c DEF KeepsakesHalt
<1>3. ASSUME NEW j \in Jobs, NEW d \in Days, ReceiveRambleMedia(j, d) PROVE Knows(k)'
  BY <1>3, <1>r DEF ReceiveRambleMedia, NoJob
<1>4. ASSUME NEW j \in Jobs, CreateRambleBlock(j) \/ AttachDiarySection(j) \/ RefreshDiarySection(j) PROVE Knows(k)'
  <2>1. job'[k] = IF k = j THEN NoJob ELSE job[k]
    BY <1>4, <1>j DEF CreateRambleBlock, AttachDiarySection, RefreshDiarySection, Free
  <2> QED
    BY <1>c, <1>s, <2>1
<1>5. ASSUME NEW j \in Jobs, RemoveUpload(j) \/ DeleteDiaryRows(j) \/ \E f \in Items : CountUploadsReferencing(j, f)
      PROVE  Knows(k)'
  <2>1. \A f : \/ Without(j, f) = NoJob
               \/ Without(j, f).at = "count"
    BY <1>j DEF Without
  <2>2. k # j => job'[k] = job[k]
    BY <1>5, <1>j DEF RemoveUpload, DeleteDiaryRows, CountUploadsReferencing
  <2>3. job'[j] = NoJob \/ job'[j].at \in {"count", "unlink"}
    <3>1. CASE RemoveUpload(j)
      BY <3>1, <1>j, <2>1 DEF RemoveUpload
    <3>2. CASE DeleteDiaryRows(j)
      BY <3>2, <1>j DEF DeleteDiaryRows
    <3>3. ASSUME NEW f \in Items, CountUploadsReferencing(j, f)
          PROVE  job'[j] = NoJob \/ job'[j].at \in {"count", "unlink"}
      <4>1. \A g : [job[j] EXCEPT !.at = "unlink", !.item = g].at = "unlink"
        BY <1>j DEF Job
      <4>2. \/ job' = [job EXCEPT ![j] = [job[j] EXCEPT !.at = "unlink", !.item = f]]
            \/ job' = [job EXCEPT ![j] = Without(j, f)]
        BY <3>3, Zenon DEF CountUploadsReferencing
      <4>3. job'[j] = [job[j] EXCEPT !.at = "unlink", !.item = f] \/ job'[j] = Without(j, f)
        BY <4>2, <1>j
      <4> QED
        BY <4>1, <4>3, <2>1
    <3> QED
      BY <1>5, <3>1, <3>2, <3>3
  <2> QED
    BY <1>c, <1>s, <2>2, <2>3
<1>6. ASSUME NEW j \in Jobs, NEW x \in journal, DeleteRambleBlock(j, x) PROVE Knows(k)'
  <2>1. LET r == [job[k] EXCEPT !.key = 0] IN
        r.at = job[k].at /\ r.op = job[k].op /\ r.paths = job[k].paths /\ r.day = job[k].day
    BY <1>j DEF Job
  <2>2. CASE k = j
    BY <1>6, <1>c, <1>j, <2>2 DEF DeleteRambleBlock
  <2>3. CASE k # j
    BY <1>6, <1>s, <2>1, <2>3 DEF DeleteRambleBlock
  <2> QED
    BY <2>2, <2>3
<1>7. ASSUME NEW j \in Jobs, RequestAttach(j) \/ RequestDetach(j) PROVE Knows(k)'
  <2>1. CASE RequestAttach(j)
    BY <2>1, <1>r DEF RequestAttach, NoJob
  <2>2. CASE RequestDetach(j)
    BY <2>2, <1>r DEF RequestDetach, NoJob
  <2> QED
    BY <1>7, <2>1, <2>2
<1>8. ASSUME NEW j \in Jobs, RequestRefresh(j) PROVE Knows(k)'
  <2>1. section.id >= 1
    BY <1>8 DEF RequestRefresh, OrphansInv, SectionOK
  <2> QED
    BY <1>8, <1>r, <2>1 DEF RequestRefresh, NoJob
<1>9. ASSUME NEW j \in Jobs, NEW x \in diary, RequestDropBlock(j, x) PROVE Knows(k)'
  BY <1>9, <1>r DEF RequestDropBlock, NoJob
<1>10. ASSUME NEW j \in Jobs, NEW x \in diary, RequestDropDay(j, x) PROVE Knows(k)'
  <2>1. k # j => job'[k] = job[k]
    BY <1>10, <1>j DEF RequestDropDay, Request
  <2>2. /\ job'[j].at = "tx" /\ job'[j].op = "dropDay" /\ job'[j].key = x.key /\ job'[j].day = x.day
        /\ job'[j].paths = HasFile({y \in diary : y.day = x.day /\ y.key = x.key})
    BY <1>10, <1>j DEF RequestDropDay, Request, NoJob, CollectedPaths
  <2>3. x.key < nextKey /\ UNCHANGED <<nextKey, diary>>
    BY <1>10 DEF RequestDropDay, OrphansInv, SectionOK
  <2>4. CASE k = j
    BY <2>2, <2>3, <2>4 DEF Knows
  <2> QED
    BY <1>s, <2>1, <2>4
<1>11. (\E d \in Days : CreateRambleTextBlock(d)) \/ UploadToDump \/ (\E i \in dump : DeleteFromDump(i))
        \/ PublishKeepsakes \/ TodayChanges \/ UNCHANGED keepsakeVars => UNCHANGED job
  BY DEF CreateRambleTextBlock, UploadToDump, DeleteFromDump, PublishKeepsakes, TodayChanges, keepsakeVars
<1> QED
  BY <1>1, <1>2, <1>3, <1>4, <1>5, <1>6, <1>7, <1>8, <1>9, <1>10, <1>11, Zenon DEF KeepsakesNext

\* No step loses sight of a file.
LEMMA AccountedInductive ==
    ASSUME KeepsakesTypeOK, OrphansInv, SectionOK', [KeepsakesNext]_keepsakeVars, NEW f \in Items
    PROVE  Accounted(f)'
<1>j. job \in [Jobs -> Job] /\ NoJob.at = "free" /\ NoJob.paths = {}
      /\ \A p : Cleaning(p).at = "count" /\ Cleaning(p).paths = p
  BY JobTypes DEF NoJob, Cleaning
<1>a. Accounted(f) /\ SectionOK /\ \A k \in Jobs : Knows(k)
  BY DEF OrphansInv
<1>w. \A j \in Jobs : \A g : f # g /\ f \in job[j].paths => f \in Without(j, g).paths
  BY <1>j DEF Without
<1>p. \A k \in Jobs : job'[k].paths = job[k].paths /\ job'[k].at = job[k].at /\ job'[k].op = job[k].op
                        /\ job'[k].item = job[k].item
                        => (Uploading(k, f) => Uploading(k, f)') /\ (Removing(k, f) => Removing(k, f)')
  BY DEF Uploading, Removing, Unlinking
\* Rows and files stay, and at most one request changes, which had no file.
<1>k. ASSUME f \in uploads' => f \in uploads, f \in Kept => f \in Kept', f \in dump => f \in dump',
             spared \subseteq spared', NEW j \in Jobs, \A k \in Jobs \ {j} : job'[k] = job[k],
             ~Uploading(j, f), Removing(j, f) => Removing(j, f)' \/ f \in Kept' \cup spared'
      PROVE  Accounted(f)'
  BY <1>k, <1>a, <1>p DEF Accounted, InHand
<1>1. ASSUME NEW d \in Days, CreateRambleTextBlock(d) PROVE Accounted(f)'
  BY <1>1, <1>a DEF CreateRambleTextBlock, Accounted, InHand, Kept, HasFile, Uploading, Removing, Unlinking
<1>2. CASE UploadToDump
  BY <1>2, <1>a DEF UploadToDump, Accounted, InHand, Kept, HasFile, Uploading, Removing, Unlinking
<1>3. ASSUME NEW i \in dump, DeleteFromDump(i) PROVE Accounted(f)'
  BY <1>3, <1>a DEF DeleteFromDump, Accounted, InHand, Kept, HasFile, Uploading, Removing, Unlinking
<1>4. CASE PublishKeepsakes \/ TodayChanges \/ UNCHANGED keepsakeVars
  BY <1>4, <1>a DEF PublishKeepsakes, TodayChanges, keepsakeVars, Accounted, InHand, Kept, HasFile, Uploading,
                    Removing, Unlinking
<1>5. CASE KeepsakesHalt
  <2>1. UNCHANGED <<Kept, dump, uploads>> /\ (f \in uploads => f \in Kept \cup dump \cup spared')
    BY <1>5 DEF KeepsakesHalt, Kept, Referenced
  <2> QED
    BY <2>1 DEF Accounted
<1>6. ASSUME NEW j \in Jobs, NEW d \in Days, ReceiveRambleMedia(j, d) PROVE Accounted(f)'
  <2>1. /\ job'[j].at = "tx" /\ job'[j].op = "upload" /\ job'[j].item = nextItem /\ job'[j].paths = {}
        /\ \A k \in Jobs \ {j} : job'[k] = job[k]
    BY <1>6, <1>j DEF ReceiveRambleMedia, Request, NoJob
  <2>2. ~Uploading(j, f) /\ ~Removing(j, f)
    BY <1>6, <1>a DEF ReceiveRambleMedia, Request, Knows, Uploading, Removing, Unlinking
  <2>3. CASE f = nextItem
    BY <2>1, <2>3 DEF Accounted, InHand, Uploading
  <2>4. CASE f # nextItem
    BY <1>6, <1>k, <2>1, <2>2, <2>4 DEF ReceiveRambleMedia, Kept
  <2> QED
    BY <2>3, <2>4
<1>7. ASSUME NEW j \in Jobs, CreateRambleBlock(j) PROVE Accounted(f)'
  <2>1. job'[j] = NoJob /\ \A k \in Jobs \ {j} : job'[k] = job[k]
    BY <1>7, <1>j DEF CreateRambleBlock, Free
  <2>2. job[j].item \in Kept' \cup spared' /\ Kept \subseteq Kept' /\ spared \subseteq spared'
    <3>1. CASE job[j].key = ThisPage
      <4>1. [item |-> job[j].item, day |-> job[j].day, file |-> TRUE] \in journal' /\ journal \subseteq journal'
        BY <1>7, <3>1 DEF CreateRambleBlock
      <4>2. job[j].item \in HasFile(journal')
        BY <4>1, FileRow
      <4> QED
        BY <1>7, <3>1, <4>1, <4>2 DEF CreateRambleBlock, Kept, HasFile
    <3>2. CASE job[j].key # ThisPage
      BY <1>7, <3>2 DEF CreateRambleBlock, Kept
    <3> QED
      BY <3>1, <3>2
  <2>3. ~Removing(j, f)
    BY <1>7, <1>a DEF CreateRambleBlock, Serving, Knows, Removing, Unlinking
  <2>4. UNCHANGED <<uploads, dump>>
    BY <1>7 DEF CreateRambleBlock
  <2>5. CASE f = job[j].item
    BY <2>2, <2>5 DEF Accounted
  <2>6. CASE f # job[j].item
    BY <1>k, <2>1, <2>2, <2>3, <2>4, <2>6 DEF Uploading
  <2> QED
    BY <2>5, <2>6
<1>8. ASSUME NEW j \in Jobs, NEW x \in journal, DeleteRambleBlock(j, x) PROVE Accounted(f)'
  <2>1. \A k \in Jobs : LET r == [job[k] EXCEPT !.key = 0] IN
                        r.at = job[k].at /\ r.op = job[k].op /\ r.item = job[k].item /\ r.paths = job[k].paths
    BY <1>j DEF Job
  <2>2. \A k \in Jobs \ {j} : /\ job'[k].at = job[k].at /\ job'[k].op = job[k].op
                              /\ job'[k].item = job[k].item /\ job'[k].paths = job[k].paths
    BY <1>8, <2>1 DEF DeleteRambleBlock
  <2>3. ~Uploading(j, f) /\ ~Removing(j, f)
    BY <1>8, <1>a DEF DeleteRambleBlock, Knows, Uploading, Removing, Unlinking
  <2>4. UNCHANGED <<uploads, dump, spared>>
    BY <1>8 DEF DeleteRambleBlock
  <2>5. f \in Kept => f \in Kept' \/ Removing(j, f)'
    <3>1. UNCHANGED diary /\ (x.file => job'[j].paths = {x.item})
      BY <1>8, <1>j DEF DeleteRambleBlock
    <3>2. f \in HasFile(journal) => f \in HasFile(journal') \/ (x.file /\ x.item = f)
      BY <1>8 DEF DeleteRambleBlock, HasFile
    <3> QED
      BY <3>1, <3>2 DEF Kept, Removing
  <2> QED
    BY <1>a, <1>p, <2>2, <2>3, <2>4, <2>5 DEF Accounted, InHand
<1>9. ASSUME NEW j \in Jobs, NEW g \in Items, CountUploadsReferencing(j, g) PROVE Accounted(f)'
  <2>1. \A k \in Jobs \ {j} : job'[k] = job[k]
    BY <1>9, <1>j DEF CountUploadsReferencing
  <2>2. \/ job'[j].at = "unlink" /\ job'[j].item = g /\ job'[j].paths = job[j].paths
        \/ job'[j] = Without(j, g) /\ g \in Kept \cup spared'
    BY <1>9, <1>j DEF CountUploadsReferencing, Unreferenced, Kept, Job
  <2>3. UNCHANGED <<Kept, dump, uploads>> /\ spared \subseteq spared' /\ job[j].at = "count"
    BY <1>9 DEF CountUploadsReferencing, Kept
  <2> QED
    BY <1>k, <1>w, <2>1, <2>2, <2>3 DEF Uploading, Removing, Unlinking
<1>10. ASSUME NEW j \in Jobs, RemoveUpload(j) PROVE Accounted(f)'
  <2>1. job'[j] = Without(j, job[j].item) /\ \A k \in Jobs \ {j} : job'[k] = job[k]
    BY <1>10, <1>j DEF RemoveUpload
  <2>2. UNCHANGED <<Kept, dump, spared>> /\ uploads' = uploads \ {job[j].item} /\ job[j].at = "unlink"
    BY <1>10 DEF RemoveUpload, Kept
  <2>3. CASE f = job[j].item
    BY <2>2, <2>3 DEF Accounted
  <2>4. CASE f # job[j].item
    BY <1>k, <1>w, <2>1, <2>2, <2>4 DEF Uploading, Removing, Unlinking
  <2> QED
    BY <2>3, <2>4
<1>11. ASSUME NEW j \in Jobs, \/ RequestAttach(j) \/ RequestRefresh(j) \/ RequestDetach(j)
                              \/ \E x \in diary : RequestDropDay(j, x) \/ RequestDropBlock(j, x)
       PROVE  Accounted(f)'
  <2>1. /\ job[j].at = "free" /\ UNCHANGED <<journal, diary, dump, uploads, spared>>
        /\ \A k \in Jobs \ {j} : job'[k] = job[k]
    BY <1>11, <1>j DEF RequestAttach, RequestRefresh, RequestDetach, RequestDropDay, RequestDropBlock, Request
  <2>2. ~Uploading(j, f) /\ ~Removing(j, f)
    BY <1>a, <2>1 DEF Knows, Uploading, Removing, Unlinking
  <2> QED
    BY <1>k, <2>1, <2>2 DEF Kept
<1>12. ASSUME NEW j \in Jobs, AttachDiarySection(j) \/ RefreshDiarySection(j) PROVE Accounted(f)'
  <2>1. \A k \in Jobs \ {j} : job'[k] = job[k]
    BY <1>12, <1>j DEF AttachDiarySection, RefreshDiarySection, Free
  <2>2. diary \subseteq diary'
    <3>1. CASE AttachDiarySection(j)
      BY <3>1, <1>a DEF AttachDiarySection, SectionOK
    <3>2. CASE RefreshDiarySection(j)
      BY <3>2 DEF RefreshDiarySection, CopyDiaryDays
    <3> QED
      BY <1>12, <3>1, <3>2
  <2>3. f \in Kept => f \in Kept'
    BY <1>12, <2>2, FileRow DEF AttachDiarySection, RefreshDiarySection, Kept, HasFile
  <2>4. ~Uploading(j, f) /\ ~Removing(j, f) /\ UNCHANGED <<uploads, dump, spared>>
    BY <1>12, <1>a DEF AttachDiarySection, RefreshDiarySection, Serving, Knows, Uploading, Removing, Unlinking
  <2> QED
    BY <1>k, <2>1, <2>3, <2>4
<1>13. ASSUME NEW j \in Jobs, DeleteDiaryRows(j) PROVE Accounted(f)'
  <2>1. job[j].at = "tx" /\ job[j].op \in {"detach", "dropDay", "dropBlock"} /\ \A k \in Jobs \ {j} : job'[k] = job[k]
    BY <1>13, <1>j DEF DeleteDiaryRows
  <2>2. UNCHANGED <<journal, dump, uploads>> /\ spared \subseteq spared'
    BY <1>13 DEF DeleteDiaryRows
  <2>3. PICK paths : /\ paths = IF job[j].op = "dropBlock" THEN HasFile(Doomed(j)) ELSE job[j].paths
                     /\ job'[j] = IF paths = {} THEN NoJob ELSE Cleaning(paths)
    BY <1>13, <1>j DEF DeleteDiaryRows
  <2>4. f \in HasFile(diary) => f \in HasFile(diary') \/ f \in HasFile(Doomed(j))
    BY <1>13 DEF DeleteDiaryRows, HasFile
  <2>5. f \in HasFile(Doomed(j)) => f \in paths \/ f \in HasFile(journal) \/ f \in spared'
    <3>1. CASE job[j].op = "detach"
      BY <1>13, <2>3, <3>1 DEF DeleteDiaryRows
    <3>2. CASE job[j].op = "dropDay"
      BY <1>a, <2>1, <2>3, <3>2 DEF Doomed, Knows
    <3>3. CASE job[j].op = "dropBlock"
      BY <2>3, <3>3
    <3> QED
      BY <2>1, <3>1, <3>2, <3>3
  <2>6. f \in paths => Removing(j, f)'
    BY <1>j, <2>3 DEF Removing
  <2>7. ~Uploading(j, f) /\ (Removing(j, f) => Removing(j, f)')
    BY <1>a, <2>1, <2>3, <2>6 DEF Knows, Uploading, Removing, Unlinking
  <2>8. f \in Kept => f \in Kept' \cup spared' \/ Removing(j, f)'
    BY <2>2, <2>4, <2>5, <2>6 DEF Kept
  <2> QED
    BY <1>a, <1>p, <2>1, <2>2, <2>7, <2>8 DEF Accounted, InHand
<1> QED
  BY <1>1, <1>2, <1>3, <1>4, <1>5, <1>6, <1>7, <1>8, <1>9, <1>10, <1>11, <1>12, <1>13, Zenon DEF KeepsakesNext

-----------------------------------------------------------------------------
\* An empty journal, diary and dump satisfy the invariant.
LEMMA KeepsakesStart == KeepsakesInit => KeepsakesInv
<1> SUFFICES ASSUME KeepsakesInit PROVE KeepsakesInv
  OBVIOUS
<1> USE KeepsakesAssumption
<1>1. KeepsakesTypeOK
  <2>1. NoJob \in [at : {"free", "tx", "count", "unlink"}, op : Operation, day : Days, item : 0..MaxItems,
                   key : 0..(MaxIds + 1), paths : SUBSET Items]
    BY DEF NoJob, Operation, Days
  <2> QED
    BY <2>1 DEF KeepsakesInit, KeepsakesTypeOK, Detached, Days
<1>2. UploadsNamed /\ FilesOK
  BY DEF KeepsakesInit, NoJob, UploadsNamed, FilesOK, FileOK, Kept, HasFile, Uploading, Removing, Unlinking
<1> QED
  BY <1>1, <1>2 DEF KeepsakesInv

\* Every step of a request, and a halt between two, keeps it.
LEMMA KeepsakesInductive == KeepsakesInv /\ [KeepsakesNext]_keepsakeVars => KeepsakesInv'
BY KeepsakesTypeInductive, UploadsNamedInductive, FileInductive DEF KeepsakesInv, FilesOK

\* Nothing is orphaned to begin with.
LEMMA OrphansStart == KeepsakesInit => OrphansInv
BY KeepsakesAssumption DEF KeepsakesInit, NoJob, OrphansInv, SectionOK, Knows, Accounted

\* Every file stays accounted for through each step.
LEMMA OrphansInductive == KeepsakesInv /\ OrphansInv /\ [KeepsakesNext]_keepsakeVars => OrphansInv'
<1> SUFFICES ASSUME KeepsakesInv, OrphansInv, [KeepsakesNext]_keepsakeVars PROVE OrphansInv'
  OBVIOUS
<1>1. SectionOK'
  BY SectionInductive DEF KeepsakesInv
<1> QED
  BY <1>1, KnowsInductive, AccountedInductive DEF KeepsakesInv, OrphansInv

\* A block, a copy or a dump item that names a file finds it on disk, however
\* uploads, copies, removals, their clean-ups and restarts interleave.
THEOREM NoFileIsMissed == KeepsakesSpec => []RowsHaveFiles
<1>1. KeepsakesInv => RowsHaveFiles
  BY DEF KeepsakesInv, KeepsakesTypeOK, FilesOK, FileOK, Kept, RowsHaveFiles, Referenced, HasFile
<1> QED
  BY KeepsakesStart, KeepsakesInductive, <1>1, PTL DEF KeepsakesSpec

\* A file without a row is one whose clean-up was given up, or a request still has it.
THEOREM NoFileIsForgotten == KeepsakesSpec => []NothingLeftBehind
<1>1. KeepsakesInv /\ OrphansInv => NothingLeftBehind
  <2> SUFFICES ASSUME KeepsakesInv, OrphansInv, \A j \in Jobs : job[j].at = "free", NEW f \in uploads
               PROVE  f \in Referenced \cup spared
    BY DEF NothingLeftBehind
  <2>1. f \in Items /\ Accounted(f)
    BY DEF KeepsakesInv, KeepsakesTypeOK, OrphansInv
  <2>2. ~InHand(f)
    BY DEF OrphansInv, Knows, InHand, Uploading, Removing, Unlinking
  <2> QED
    BY <2>1, <2>2 DEF Accounted, Kept, Referenced
<1> QED
  BY KeepsakesStart, KeepsakesInductive, OrphansStart, OrphansInductive, <1>1, PTL DEF KeepsakesSpec

\* A day of the journal inside the window is in the section, was left out by the
\* member, or can still be pulled, whatever is written, trimmed or refreshed when.
THEOREM NothingIsSkipped == KeepsakesSpec => []NothingInACrack
<1>1. ASSUME KeepsakesInv, OrphansInv, NothingInACrack, [KeepsakesNext]_keepsakeVars PROVE NothingInACrack'
  <2> USE KeepsakesAssumption
  <2>1. KeepsakesTypeOK /\ SectionOK
    BY <1>1 DEF KeepsakesInv, OrphansInv
  <2>2. /\ \A x \in journal : x.day \in Nat
        /\ From \in Nat /\ section.through \in Nat /\ \A j \in Jobs : job[j].day \in Nat
    BY <2>1, JobTypes DEF KeepsakesTypeOK, Days, Job
  <2>3. \A old, lo, hi : /\ old \subseteq CopyDiaryDays(old, lo, hi)
                         /\ \A x \in journal : lo <= x.day /\ x.day <= hi
                              => \E c \in CopyDiaryDays(old, lo, hi) : c.day = x.day
    <3>1. \A old, lo, hi : old \subseteq CopyDiaryDays(old, lo, hi)
      BY DEF CopyDiaryDays
    <3>2. ASSUME NEW old, NEW lo, NEW hi, NEW x \in journal, lo <= x.day /\ x.day <= hi
          PROVE  \E c \in CopyDiaryDays(old, lo, hi) : c.day = x.day
      <4>1. CASE \E c \in old : c.day = x.day
        BY <3>1, <4>1
      <4>2. CASE ~\E c \in old : c.day = x.day
        <5>1. [item |-> x.item, day |-> x.day, file |-> x.file, key |-> nextKey] \in CopyDiaryDays(old, lo, hi)
          BY <3>2, <4>2 DEF CopyDiaryDays
        <5> QED
          BY <5>1
      <4> QED
        BY <4>1, <4>2
    <3> QED
      BY <3>1, <3>2
  <2>4. ASSUME NEW x, journal' \subseteq journal \cup {x}, WrittenLate(x.day), x.day \in Nat, UNCHANGED <<section, diary>>
        PROVE  NothingInACrack'
    BY <1>1, <2>2, <2>4 DEF NothingInACrack, WrittenLate
  <2>5. ASSUME NEW d \in Days, CreateRambleTextBlock(d) PROVE NothingInACrack'
    <3>1. d \in Nat
      BY DEF Days
    <3>2. PICK x : x = [item |-> nextItem, day |-> d, file |-> FALSE]
      OBVIOUS
    <3>3. journal' = journal \cup {x} /\ x.day = d /\ WrittenLate(d) /\ UNCHANGED <<section, diary>>
      BY <2>5, <3>2 DEF CreateRambleTextBlock
    <3> QED
      BY <2>4, <3>1, <3>3
  <2>6. ASSUME NEW j \in Jobs, CreateRambleBlock(j) PROVE NothingInACrack'
    <3>1. PICK x : x = [item |-> job[j].item, day |-> job[j].day, file |-> TRUE]
      OBVIOUS
    <3>2. CASE job[j].key = ThisPage
      <4>1. journal' = journal \cup {x} /\ x.day = job[j].day /\ WrittenLate(job[j].day) /\ UNCHANGED <<section, diary>>
        BY <2>6, <3>1, <3>2 DEF CreateRambleBlock
      <4> QED
        BY <2>2, <2>4, <4>1
    <3>3. CASE job[j].key # ThisPage
      BY <1>1, <2>6, <3>3 DEF CreateRambleBlock, NothingInACrack
    <3> QED
      BY <3>2, <3>3
  <2>7. ASSUME NEW j \in Jobs, AttachDiarySection(j) PROVE NothingInACrack'
    <3>1. CASE section # Detached
      BY <1>1, <2>7, <3>1 DEF AttachDiarySection, NothingInACrack
    <3>2. CASE section = Detached
      <4>1. /\ section'.through = job[j].day /\ diary' = CopyDiaryDays({}, From, job[j].day)
            /\ UNCHANGED journal
        BY <2>7, <3>2 DEF AttachDiarySection
      <4> QED
        BY <2>2, <2>3, <4>1 DEF NothingInACrack
    <3> QED
      BY <3>1, <3>2
  <2>8. ASSUME NEW j \in Jobs, RefreshDiarySection(j) PROVE NothingInACrack'
    <3>1. CASE section.id # job[j].key \/ job[j].day < section.through
      BY <1>1, <2>8, <3>1 DEF RefreshDiarySection, NothingInACrack
    <3>2. CASE ~(section.id # job[j].key \/ job[j].day < section.through)
      <4>1. section # Detached
        BY <1>1, <2>8, <3>2 DEF RefreshDiarySection, Serving, OrphansInv, Knows, Detached
      <4>2. /\ section'.through = job[j].day /\ diary' = CopyDiaryDays(diary, section.through, job[j].day)
            /\ UNCHANGED <<journal, left>> /\ section.through <= job[j].day
        BY <2>1, <2>2, <2>8, <3>2 DEF RefreshDiarySection, PullFrom, KeepsakesTypeOK
      <4> QED
        BY <1>1, <2>2, <2>3, <4>1, <4>2 DEF NothingInACrack
    <3> QED
      BY <3>1, <3>2
  <2>9. ASSUME NEW j \in Jobs, DeleteDiaryRows(j) PROVE NothingInACrack'
    <3>1. section' = Detached \/ UNCHANGED section
      BY <2>9 DEF DeleteDiaryRows
    <3>2. CASE section' # Detached
      <4>1. /\ UNCHANGED <<journal, section>> /\ left \subseteq left'
            /\ \A c \in diary : (\E k \in diary' : k.day = c.day) \/ c.day \in left'
        BY <2>9, <3>1, <3>2 DEF DeleteDiaryRows
      <4> QED
        BY <1>1, <3>2, <4>1 DEF NothingInACrack
    <3> QED
      BY <3>2 DEF NothingInACrack
  <2>10. \/ \E d \in Days : CreateRambleTextBlock(d)
         \/ \E j \in Jobs : \/ CreateRambleBlock(j) \/ AttachDiarySection(j) \/ RefreshDiarySection(j)
                            \/ DeleteDiaryRows(j)
         \/ journal' \subseteq journal /\ UNCHANGED <<section, diary, left>>
    BY <1>1 DEF KeepsakesNext, keepsakeVars, UploadToDump, DeleteFromDump, PublishKeepsakes, TodayChanges,
           KeepsakesHalt, ReceiveRambleMedia, DeleteRambleBlock, CountUploadsReferencing, RemoveUpload,
           RequestAttach, RequestRefresh, RequestDetach, RequestDropDay, RequestDropBlock
  <2> QED
    BY <1>1, <2>5, <2>6, <2>7, <2>8, <2>9, <2>10 DEF NothingInACrack
<1>2. KeepsakesInit => NothingInACrack
  BY DEF KeepsakesInit, NothingInACrack
<1> QED
  BY KeepsakesStart, KeepsakesInductive, OrphansStart, OrphansInductive, <1>1, <1>2, PTL DEF KeepsakesSpec
=============================================================================
