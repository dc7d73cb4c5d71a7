---------------------------- MODULE ImagesProofs ----------------------------
(***************************************************************************)
(* Proofs about Images for any handlers and files and any number of        *)
(* restarts: what uploads that race each other and the readers leave on    *)
(* disk, in the cache and in the hands of the clients.                     *)
(***************************************************************************)
EXTENDS Images, TLAPS

(* What is under way has a file.  A name that was recorded, listed or is   *)
(* about to be recorded names a file that exists; only what GetFile has    *)
(* read is inserted.                                                       *)
RequestsTracked ==
    \A h \in Handlers :
        /\ pc[h] \in {"open", "write", "close", "read", "insert"} =>
               file[h] \in Files
        /\ pc[h] \in {"idle", "next"} => file[h] = NoFile
        /\ pc[h] \in {"write", "close", "add_image", "read", "insert"}
           /\ file[h] # NoFile => disk[file[h]] # "absent"
        /\ \A f \in list[h] \ {NoFile} : disk[f] # "absent"
        /\ pc[h] = "insert" => content[h] # "absent"
        /\ pc[h] \notin {"insert", "send"} => content[h] = "absent"

(* A file is incomplete on disk only while it is written, or for good.     *)
DiskTracked ==
    \A f \in Files \ torn : disk[f] = "part" => Writers(f) # {}

BeforeCache(f) == \E h \in Handlers : file[h] = f /\ pc[h] = "write"

(* A file is incomplete in the cache only until its writer puts it there,  *)
(* and a reader that holds an incomplete one will find the complete one    *)
(* when it searches the cache again, or is ahead of that writer.           *)
CacheTracked ==
    /\ \A f \in Files \ torn : m_cache[f] = "part" => BeforeCache(f)
    /\ \A h \in Handlers : pc[h] = "close" => m_cache[file[h]] = "full"
    /\ \A h \in Handlers :
           pc[h] = "insert" /\ content[h] = "part" /\ file[h] \notin torn =>
               m_cache[file[h]] = "full" \/ BeforeCache(file[h])

(* The inductive invariant.                                                *)
ImagesInv ==
    TypeOK /\ RequestsTracked /\ RecordedImageExists /\ DiskTracked
    /\ CacheTracked

-----------------------------------------------------------------------------
LEMMA ImagesInvInit == Init => ImagesInv
  BY DEF Init, ImagesInv, TypeOK, Content, RequestsTracked,
         RecordedImageExists, DiskTracked, CacheTracked

(* Steps of ManageImage up to the open file.                               *)
LEMMA BeginUploadInv ==
  ASSUME ImagesInv, NEW h \in Handlers,
         \/ \E f \in Files : ManageImage(h, f)
         \/ OpenForWriting(h) \/ OpenFails(h)
  PROVE  ImagesInv'
  <1> USE DEF ImagesInv, reading, Goto
  <1>1. CASE \E f \in Files : ManageImage(h, f)
    <2> PICK f \in Files : ManageImage(h, f)
      BY <1>1
    <2> USE DEF ManageImage, SaveFile
    <2>1. TypeOK'
      BY DEF TypeOK
    <2>2. RequestsTracked' /\ RecordedImageExists'
      BY DEF TypeOK, RequestsTracked, RecordedImageExists
    <2>3. DiskTracked'
      BY DEF TypeOK, DiskTracked, Writers, Open
    <2>4. CacheTracked'
      BY DEF TypeOK, CacheTracked, BeforeCache
    <2> QED BY <2>1, <2>2, <2>3, <2>4
  <1>2. CASE OpenForWriting(h)
    <2> USE <1>2 DEF OpenForWriting
    <2>1. file[h] \in Files
      BY DEF RequestsTracked
    <2>2. TypeOK'
      BY <2>1 DEF TypeOK, Content
    <2>3. RequestsTracked' /\ RecordedImageExists'
      BY <2>1, ImagesAssumption
         DEF TypeOK, RequestsTracked, RecordedImageExists
    <2>4. DiskTracked'
      BY <2>1 DEF TypeOK, DiskTracked, Writers, Open
    <2>5. CacheTracked'
      BY DEF TypeOK, CacheTracked, BeforeCache
    <2> QED BY <2>2, <2>3, <2>4, <2>5
  <1>3. CASE OpenFails(h)
    <2> USE <1>3 DEF OpenFails
    <2>1. TypeOK'
      BY DEF TypeOK
    <2>2. RequestsTracked' /\ RecordedImageExists'
      BY DEF TypeOK, RequestsTracked, RecordedImageExists
    <2>3. DiskTracked'
      BY DEF TypeOK, DiskTracked, Writers, Open
    <2>4. CacheTracked'
      BY DEF TypeOK, CacheTracked, BeforeCache
    <2> QED BY <2>1, <2>2, <2>3, <2>4
  <1> QED BY <1>1, <1>2, <1>3

(* The complete content goes into the cache before the writer is done.     *)
LEMMA WriteInv ==
  ASSUME ImagesInv, NEW h \in Handlers, WriteAndCache(h)
  PROVE  ImagesInv'
  <1> USE DEF ImagesInv, WriteAndCache, reading, Goto
  <1>1. file[h] \in Files
    BY DEF RequestsTracked
  <1>2. TypeOK'
    BY <1>1 DEF TypeOK, Content
  <1>3. RequestsTracked' /\ RecordedImageExists'
    BY DEF TypeOK, RequestsTracked, RecordedImageExists
  <1>4. DiskTracked'
    BY DEF TypeOK, DiskTracked, Writers, Open
  <1>5. CacheTracked'
    BY <1>1 DEF TypeOK, CacheTracked, BeforeCache, RequestsTracked
  <1> QED BY <1>2, <1>3, <1>4, <1>5

(* The last writer to close leaves the file complete; one that closes      *)
(* before leaves it to the others.                                         *)
LEMMA CloseInv ==
  ASSUME ImagesInv, NEW h \in Handlers, CloseFile(h) \/ FlushFails(h)
  PROVE  ImagesInv'
  <1> USE DEF ImagesInv, reading, Goto
  <1>1. file[h] \in Files /\ pc[h] = "close"
    BY DEF RequestsTracked, CloseFile, FlushFails
  <1>2. CASE CloseFile(h)
    <2> USE <1>1, <1>2 DEF CloseFile
    <2>1. TypeOK'
      BY DEF TypeOK, Content
    <2>2. RequestsTracked' /\ RecordedImageExists'
      BY ImagesAssumption DEF TypeOK, RequestsTracked, RecordedImageExists
    <2>3. DiskTracked'
      <3> SUFFICES ASSUME NEW f \in Files \ torn, disk'[f] = "part"
                   PROVE  Writers(f)' # {}
        BY DEF DiskTracked
      <3>1. \A g \in Handlers \ {h} : g \in Writers(f) => g \in Writers(f)'
        BY DEF TypeOK, Writers
      <3>2. CASE f = file[h]
        <4>1. Writers(f) # {h} /\ h \in Writers(f)
          BY <3>2 DEF TypeOK, Writers, Open
        <4> QED BY <4>1, <3>1 DEF Writers
      <3>3. CASE f # file[h]
        <4>1. Writers(f) # {} /\ h \notin Writers(f)
          BY <3>3 DEF TypeOK, DiskTracked, Writers
        <4> QED BY <4>1, <3>1 DEF Writers
      <3> QED BY <3>2, <3>3
    <2>4. CacheTracked'
      BY DEF TypeOK, CacheTracked, BeforeCache
    <2> QED BY <2>1, <2>2, <2>3, <2>4
  <1>3. CASE FlushFails(h)
    <2> USE <1>1, <1>3 DEF FlushFails
    <2>1. TypeOK'
      BY DEF TypeOK
    <2>2. RequestsTracked' /\ RecordedImageExists'
      BY DEF TypeOK, RequestsTracked, RecordedImageExists
    <2>3. DiskTracked'
      BY DEF TypeOK, DiskTracked, Writers, Open
    <2>4. CacheTracked'
      BY DEF TypeOK, CacheTracked, BeforeCache
    <2> QED BY <2>1, <2>2, <2>3, <2>4
  <1> QED BY <1>2, <1>3

LEMMA RecordInv ==
  ASSUME ImagesInv, NEW h \in Handlers, AddImage(h) \/ AddImageFails(h)
  PROVE  ImagesInv'
  <1> USE DEF ImagesInv, AddImage, AddImageFails, Return, reading, Goto
  <1>1. TypeOK'
    BY DEF TypeOK
  <1>2. RequestsTracked' /\ RecordedImageExists'
    BY DEF TypeOK, RequestsTracked, RecordedImageExists
  <1>3. DiskTracked'
    BY DEF TypeOK, DiskTracked, Writers, Open
  <1>4. CacheTracked'
    BY DEF TypeOK, CacheTracked, BeforeCache
  <1> QED BY <1>1, <1>2, <1>3, <1>4

(* Steps of GetImages and GetFile that leave disk, cache and writers.      *)
LEMMA LookUpInv ==
  ASSUME ImagesInv, NEW h \in Handlers,
         \/ GetImages(h) \/ GetFile(h) \/ GetFolder(h) \/ SendImage(h)
         \/ ReadFile(h) \/ ReadFails(h)
  PROVE  ImagesInv'
  <1> USE DEF ImagesInv, Goto
  <1>1. CASE GetImages(h)
    <2> USE <1>1 DEF GetImages, GetAllImagesUuid
    <2>1. TypeOK'
      BY DEF TypeOK
    <2>2. RequestsTracked' /\ RecordedImageExists'
      BY DEF TypeOK, RequestsTracked, RecordedImageExists
    <2>3. DiskTracked'
      BY DEF TypeOK, DiskTracked, Writers, Open
    <2>4. CacheTracked'
      BY DEF TypeOK, CacheTracked, BeforeCache
    <2> QED BY <2>1, <2>2, <2>3, <2>4
  <1>2. CASE GetFile(h)
    <2> USE <1>2 DEF GetFile
    <2>1. TypeOK'
      BY DEF TypeOK
    <2>2. RequestsTracked' /\ RecordedImageExists'
      BY DEF TypeOK, RequestsTracked, RecordedImageExists
    <2>3. DiskTracked'
      BY DEF TypeOK, DiskTracked, Writers, Open
    <2>4. CacheTracked'
      BY DEF TypeOK, CacheTracked, BeforeCache
    <2> QED BY <2>1, <2>2, <2>3, <2>4
  <1>3. CASE GetFolder(h)
    <2> USE <1>3 DEF GetFolder
    <2>1. TypeOK'
      BY DEF TypeOK
    <2>2. RequestsTracked' /\ RecordedImageExists'
      BY DEF TypeOK, RequestsTracked, RecordedImageExists
    <2>3. DiskTracked'
      BY DEF TypeOK, DiskTracked, Writers, Open
    <2>4. CacheTracked'
      BY DEF TypeOK, CacheTracked, BeforeCache
    <2> QED BY <2>1, <2>2, <2>3, <2>4
  <1>4. CASE SendImage(h)
    <2> USE <1>4 DEF SendImage
    <2>1. TypeOK'
      BY DEF TypeOK, Content
    <2>2. RequestsTracked' /\ RecordedImageExists'
      BY DEF TypeOK, RequestsTracked, RecordedImageExists
    <2>3. DiskTracked'
      BY DEF TypeOK, DiskTracked, Writers, Open
    <2>4. CacheTracked'
      BY DEF TypeOK, CacheTracked, BeforeCache
    <2> QED BY <2>1, <2>2, <2>3, <2>4
  <1>5. CASE ReadFile(h)
    <2> USE <1>5 DEF ReadFile
    <2>1. file[h] \in Files
      BY DEF RequestsTracked
    <2>2. TypeOK'
      BY <2>1 DEF TypeOK
    <2>3. RequestsTracked' /\ RecordedImageExists'
      <3>1. disk[file[h]] # "absent"
        BY <2>1, ImagesAssumption DEF RequestsTracked
      <3> QED BY <2>1, <3>1 DEF TypeOK, RequestsTracked, RecordedImageExists
    <2>4. DiskTracked'
      BY DEF TypeOK, DiskTracked, Writers, Open
    <2>5. CacheTracked'
      <3>1. disk[file[h]] = "part" /\ file[h] \notin torn =>
                m_cache[file[h]] = "full" \/ BeforeCache(file[h])
        BY <2>1 DEF DiskTracked, CacheTracked, BeforeCache, Writers, Open
      <3> QED BY <2>1, <3>1 DEF TypeOK, CacheTracked, BeforeCache
    <2> QED BY <2>2, <2>3, <2>4, <2>5
  <1>6. CASE ReadFails(h)
    <2> USE <1>6 DEF ReadFails, Return
    <2>1. TypeOK'
      BY DEF TypeOK
    <2>2. RequestsTracked' /\ RecordedImageExists'
      BY DEF TypeOK, RequestsTracked, RecordedImageExists
    <2>3. DiskTracked'
      BY DEF TypeOK, DiskTracked, Writers, Open
    <2>4. CacheTracked'
      BY DEF TypeOK, CacheTracked, BeforeCache
    <2> QED BY <2>1, <2>2, <2>3, <2>4
  <1> QED BY <1>1, <1>2, <1>3, <1>4, <1>5, <1>6

LEMMA InsertInv ==
  ASSUME ImagesInv, NEW h \in Handlers, InsertIntoCache(h)
  PROVE  ImagesInv'
  <1> USE DEF ImagesInv, InsertIntoCache, EndGetFile, Winner, Goto
  <1>1. file[h] \in Files
    BY DEF RequestsTracked
  <1>2. TypeOK'
    BY <1>1 DEF TypeOK
  <1>3. RequestsTracked' /\ RecordedImageExists'
    BY DEF TypeOK, RequestsTracked, RecordedImageExists
  <1>4. DiskTracked'
    BY DEF TypeOK, DiskTracked, Writers, Open
  <1>5. CacheTracked'
    BY <1>1 DEF TypeOK, CacheTracked, BeforeCache
  <1> QED BY <1>2, <1>3, <1>4, <1>5

(* A crash turns every open file into a torn one and forgets the rest.     *)
LEMMA CrashInv ==
  ASSUME ImagesInv, Crash
  PROVE  ImagesInv'
  <1> USE DEF ImagesInv, Crash
  <1>1. TypeOK'
    BY DEF TypeOK, Content
  <1>2. RequestsTracked' /\ RecordedImageExists'
    BY DEF RequestsTracked, RecordedImageExists
  <1>3. DiskTracked'
    BY DEF DiskTracked
  <1>4. CacheTracked'
    BY DEF CacheTracked
  <1> QED BY <1>1, <1>2, <1>3, <1>4

(* Disk, cache, readers and writers fit together in every reachable state. *)
THEOREM ImagesInvariance == Spec => []ImagesInv
  <1>1. ImagesInv /\ [Next]_vars => ImagesInv'
    <2> SUFFICES ASSUME ImagesInv, [Next]_vars PROVE ImagesInv'
      OBVIOUS
    <2>1. CASE UNCHANGED vars
      BY <2>1 DEF vars, ImagesInv, TypeOK, RequestsTracked, DiskTracked,
                  RecordedImageExists, CacheTracked, Writers, BeforeCache
    <2> QED BY <2>1, CrashInv, BeginUploadInv, WriteInv, CloseInv, RecordInv,
               LookUpInv, InsertInv DEF Next, Step
  <1> QED BY <1>1, ImagesInvInit, PTL DEF Spec

(* Every variable keeps its type.                                          *)
THEOREM ImagesTypes == Spec => []TypeOK
  <1>1. ImagesInv => TypeOK
    BY DEF ImagesInv
  <1> QED BY <1>1, ImagesInvariance, PTL

(* Every recorded name is that of a file, across restarts.                 *)
THEOREM RecordedExist == Spec => []RecordedImageExists
  <1>1. ImagesInv => RecordedImageExists
    BY DEF ImagesInv
  <1> QED BY <1>1, ImagesInvariance, PTL

(* A file nobody writes is complete on disk and in the cache.              *)
THEOREM SettledComplete == Spec => []SettledFileComplete
  <1>1. ImagesInv => SettledFileComplete
    BY DEF ImagesInv, DiskTracked, CacheTracked, BeforeCache, Writers, Open,
           SettledFileComplete
  <1> QED BY <1>1, ImagesInvariance, PTL

(* GetFile never replaces a complete image in the cache.                   *)
THEOREM CacheKept == Spec => CacheNeverDegrades
  <1>1. ImagesInv /\ [Next]_vars =>
            \A f \in Files : m_cache[f] = "full" => m_cache'[f] # "part"
    <2> SUFFICES ASSUME ImagesInv, [Next]_vars, NEW f \in Files,
                        m_cache[f] = "full"
                 PROVE  m_cache'[f] # "part"
      OBVIOUS
    <2>1. CASE Crash
      BY <2>1 DEF Crash
    <2>2. ASSUME NEW h \in Handlers, WriteAndCache(h)
          PROVE  m_cache'[f] # "part"
      BY <2>2 DEF WriteAndCache, ImagesInv, TypeOK
    <2>3. ASSUME NEW h \in Handlers, InsertIntoCache(h)
          PROVE  m_cache'[f] # "part"
      BY <2>3 DEF InsertIntoCache, EndGetFile, Winner, ImagesInv, TypeOK
    <2>4. CASE UNCHANGED m_cache
      BY <2>4
    <2> QED BY <2>1, <2>2, <2>3, <2>4
            DEF Next, Step, vars, ManageImage, SaveFile, OpenForWriting,
                OpenFails, CloseFile, FlushFails, AddImage, AddImageFails,
                GetImages, GetFile, GetFolder, ReadFile, ReadFails, SendImage
  <1> QED BY <1>1, ImagesInvariance, PTL DEF Spec, CacheNeverDegrades

(* GetImages sends no truncated image but of a file that is being written  *)
(* or whose write was cut short, and caches none that it could not open.   *)
THEOREM SentNotTruncated == Spec => SentImageNotTruncated
  <1> DEFINE Whole(f, res) ==
          res = "full" \/ f \in torn \/ Writers(f) # {}
      Sent == \A h \in Handlers :
          LET f == file'[h]
          IN  pc[h] # "send" /\ pc'[h] = "send" /\ f # NoFile
              => \/ content'[h] = "full"
                 \/ content'[h] = "absent" /\ m_cache'[f] = m_cache[f]
                 \/ f \in torn
                 \/ Writers(f) # {}
  <1>1. ImagesInv /\ [Next]_vars => Sent
    <2> SUFFICES ASSUME ImagesInv, [Next]_vars, NEW h \in Handlers,
                        pc[h] # "send", pc'[h] = "send", file'[h] # NoFile
                 PROVE  \/ Whole(file'[h], content'[h])
                        \/ content'[h] = "absent" /\ UNCHANGED m_cache
      OBVIOUS
    <2> USE DEF ImagesInv, Goto
    <2>1. \/ GetFile(h) \/ GetFolder(h) \/ ReadFails(h)
          \/ InsertIntoCache(h)
      BY DEF Next, Step, vars, Crash, ManageImage, SaveFile, OpenForWriting,
             OpenFails, WriteAndCache, CloseFile, FlushFails, AddImage,
             AddImageFails, Return, GetImages, GetFile, GetFolder, ReadFile,
             ReadFails, InsertIntoCache, EndGetFile, SendImage, TypeOK
    <2>2. \A f \in Files : m_cache[f] # "absent" => Whole(f, m_cache[f])
      BY DEF TypeOK, Content, CacheTracked, BeforeCache, Writers, Open
    <2>3. CASE GetFile(h)
      BY <2>2, <2>3 DEF GetFile, TypeOK
    <2>4. CASE GetFolder(h)
      BY <2>4 DEF GetFolder, RequestsTracked
    <2>5. CASE ReadFails(h)
      BY <2>5 DEF ReadFails, Return, RequestsTracked, TypeOK
    <2>6. CASE InsertIntoCache(h)
      <3> USE <2>6 DEF InsertIntoCache, EndGetFile, Winner
      <3>1. /\ file[h] \in Files /\ file'[h] = file[h]
            /\ content'[h] = Winner(h)
        BY DEF RequestsTracked, TypeOK
      <3>2. CASE m_cache[file[h]] = "absent"
        BY <3>1, <3>2 DEF TypeOK, Content, RequestsTracked, CacheTracked,
                          BeforeCache, Writers, Open
      <3>3. CASE m_cache[file[h]] # "absent"
        BY <3>1, <3>3, <2>2
      <3> QED BY <3>2, <3>3
    <2> QED BY <2>1, <2>3, <2>4, <2>5, <2>6
  <1> QED BY <1>1, ImagesInvariance, PTL DEF Spec, SentImageNotTruncated

=============================================================================
