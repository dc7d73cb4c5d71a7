------------------------------- MODULE Images -------------------------------
(***************************************************************************)
(* Uploaded images: FileManager (utils/FileManager.cpp), the handlers      *)
(* ManageImage and GetImages of MainEndpointImpl, and the image_ids that   *)
(* DBMongo keeps.  A file is named by the SHA-256 of its content, so files *)
(* stand for contents.  m_mtx guards only m_cache and is never held while  *)
(* a thread waits or uses the disk: each critical section is one step.     *)
(***************************************************************************)
EXTENDS Naturals, FiniteSets

CONSTANTS
    Handlers,   \* RPC handler threads
    Files,      \* uploaded contents
    NoFile,     \* the empty file name SaveFile returns on failure
    MaxCrashes  \* bound: restarts of the server

ASSUME ImagesAssumption == NoFile \notin Files /\ MaxCrashes \in Nat

VARIABLES
    disk,       \* what is in the folder under each name
    m_cache,    \* FileManager::m_cache
    image_ids,  \* MongoDB: the names recorded for users and markers
    torn,       \* files whose write was cut short by a crash or a full disk
    pc, file,   \* where each handler is and the file it works on
    list,       \* the names GetImages still has to send
    content,    \* what GetFile has read or returns
    crashes

vars == <<disk, m_cache, image_ids, torn, pc, file, list, content, crashes>>

reading == <<list, content>>

Content == {"absent", "part", "full"}

(* Labels at which a handler has the file open for writing.                *)
Open == {"write", "close"}

Writers(f) == {h \in Handlers : file[h] = f /\ pc[h] \in Open}

Goto(h, label) == pc' = [pc EXCEPT ![h] = label]

Return(h) == Goto(h, "idle") /\ file' = [file EXCEPT ![h] = NoFile]

Init ==
    /\ disk = [f \in Files |-> "absent"]
    /\ m_cache = [f \in Files |-> "absent"]
    /\ image_ids = {}
    /\ torn = {}
    /\ pc = [h \in Handlers |-> "idle"]
    /\ file = [h \in Handlers |-> NoFile]
    /\ list = [h \in Handlers |-> {}]
    /\ content = [h \in Handlers |-> "absent"]
    /\ crashes = 0

-----------------------------------------------------------------------------
(* ManageImage and SaveFile.                                               *)

(* SaveFile: a file that exists is not written again.                      *)
SaveFile(h, f) ==
    /\ Goto(h, IF disk[f] = "absent" THEN "open" ELSE "add_image")
    /\ file' = [file EXCEPT ![h] = f]
    /\ UNCHANGED <<disk, m_cache, image_ids, torn, reading, crashes>>

(* ManageImage with a token, an image and an attached user; any other      *)
(* request is CANCELLED before SaveFile is called.                         *)
ManageImage(h, f) == pc[h] = "idle" /\ SaveFile(h, f)

(* std::ofstream creates or truncates the file.                            *)
OpenForWriting(h) ==
    /\ pc[h] = "open"
    /\ disk' = [disk EXCEPT ![file[h]] = "part"]
    /\ Goto(h, "write")
    /\ UNCHANGED <<m_cache, image_ids, torn, file, reading, crashes>>

(* Mutant: the name is returned although the file could not be opened.     *)
OpenFailsWithName(h) ==
    /\ pc[h] = "open"
    /\ Goto(h, "add_image")
    /\ UNCHANGED <<disk, m_cache, image_ids, torn, file, reading, crashes>>

(* Mutant: SaveFile goes on writing the file that it could not open.       *)
OpenFailsUnchecked(h) ==
    /\ pc[h] = "open"
    /\ file' = [file EXCEPT ![h] = NoFile]
    /\ Goto(h, "write")
    /\ UNCHANGED <<disk, m_cache, image_ids, torn, reading, crashes>>

(* Not open: SaveFile returns {}, which ManageImage records like a name.   *)
OpenFails(h) ==
    /\ pc[h] = "open"
    /\ file' = [file EXCEPT ![h] = NoFile]
    /\ Goto(h, "add_image")
    /\ UNCHANGED <<disk, m_cache, image_ids, torn, reading, crashes>>

(* Mutant: emplace keeps what a reader has put into the cache.             *)
CacheEmplace(h) ==
    /\ pc[h] = "write"
    /\ m_cache' = [m_cache EXCEPT ![file[h]] =
                      IF @ = "absent" THEN "full" ELSE @]
    /\ Goto(h, "close")
    /\ UNCHANGED <<disk, image_ids, torn, file, reading, crashes>>

(* f << file, then m_cache[file_name] = file under m_mtx.  The last bytes  *)
(* may still be in the buffer of the stream.                               *)
WriteAndCache(h) ==
    /\ pc[h] = "write"
    /\ m_cache' = [m_cache EXCEPT ![file[h]] = "full"]
    /\ Goto(h, "close")
    /\ UNCHANGED <<disk, image_ids, torn, file, reading, crashes>>

(* The destructor of the stream flushes it, after that of the lock.        *)
CloseFile(h) ==
    /\ pc[h] = "close"
    /\ disk' = [disk EXCEPT ![file[h]] =
                   IF Writers(file[h]) = {h} THEN "full" ELSE "part"]
    /\ Goto(h, "add_image")
    /\ UNCHANGED <<m_cache, image_ids, torn, file, reading, crashes>>

(* The state of the stream is not tested: a full disk goes unnoticed.      *)
FlushFails(h) ==
    /\ pc[h] = "close"
    /\ torn' = torn \cup {file[h]}
    /\ Goto(h, "add_image")
    /\ UNCHANGED <<disk, m_cache, image_ids, file, reading, crashes>>

(* AddUserImage or AddMarkerImage: $addToSet image_ids.                    *)
AddImage(h) ==
    /\ pc[h] = "add_image"
    /\ image_ids' = image_ids \cup {file[h]}
    /\ Return(h)
    /\ UNCHANGED <<disk, m_cache, torn, reading, crashes>>

(* A driver error makes them return false, and an unknown act calls none   *)
(* of them; ManageImage answers OK.                                        *)
AddImageFails(h) ==
    /\ pc[h] = "add_image"
    /\ Return(h)
    /\ UNCHANGED <<disk, m_cache, image_ids, torn, reading, crashes>>

-----------------------------------------------------------------------------
(* GetImages and GetFile, without AddFileToCache, which nobody calls.      *)

(* The names GetAllImagesUuid may return: those of one document.           *)
GetAllImagesUuid == SUBSET image_ids

(* A target that is not found, or is no object id, ends the call.          *)
GetImages(h) ==
    /\ pc[h] = "idle"
    /\ \E names \in GetAllImagesUuid \ {{}} :
           list' = [list EXCEPT ![h] = names]
    /\ Goto(h, "next")
    /\ UNCHANGED <<disk, m_cache, image_ids, torn, file, content, crashes>>

(* The next name; GetFile looks for it in the cache under m_mtx.           *)
GetFile(h) ==
    /\ pc[h] = "next"
    /\ \E f \in list[h] \ {NoFile} :
           /\ list' = [list EXCEPT ![h] = @ \ {f}]
           /\ file' = [file EXCEPT ![h] = f]
           /\ content' = [content EXCEPT ![h] = m_cache[f]]
           /\ Goto(h, IF m_cache[f] = "absent" THEN "read" ELSE "send")
    /\ UNCHANGED <<disk, m_cache, image_ids, torn, crashes>>

(* The empty name opens the folder itself: by platform that fails and an   *)
(* empty image is sent, or reading it throws and the call ends.            *)
GetFolder(h) ==
    /\ pc[h] = "next"
    /\ NoFile \in list[h]
    /\ \/ list' = [list EXCEPT ![h] = @ \ {NoFile}] /\ Goto(h, "send")
       \/ list' = [list EXCEPT ![h] = {}] /\ Goto(h, "idle")
    /\ UNCHANGED <<disk, m_cache, image_ids, torn, file, content, crashes>>

(* Without the lock, read the file as it is now.                           *)
ReadFile(h) ==
    /\ pc[h] = "read"
    /\ content' = [content EXCEPT ![h] = disk[file[h]]]
    /\ Goto(h, "insert")
    /\ UNCHANGED <<disk, m_cache, image_ids, torn, file, list, crashes>>

(* The file cannot be opened, and an empty image is sent that is not       *)
(* cached; or reading it throws, and the call ends.                        *)
ReadFails(h) ==
    /\ pc[h] = "read"
    /\ \/ Goto(h, "send") /\ UNCHANGED <<file, list>>
       \/ Return(h) /\ list' = [list EXCEPT ![h] = {}]
    /\ UNCHANGED <<disk, m_cache, image_ids, torn, content, crashes>>

(* Caches what was read and has GetFile return res.                        *)
EndGetFile(h, cached, res) ==
    /\ pc[h] = "insert"
    /\ m_cache' = [m_cache EXCEPT ![file[h]] = cached]
    /\ content' = [content EXCEPT ![h] = res]
    /\ Goto(h, "send")
    /\ UNCHANGED <<disk, image_ids, torn, file, list, crashes>>

(* Mutant: the cache is not searched again after the disk operation.       *)
InsertUnchecked(h) == EndGetFile(h, content[h], content[h])

(* What someone added to the cache meanwhile wins.                         *)
Winner(h) ==
    IF m_cache[file[h]] = "absent" THEN content[h] ELSE m_cache[file[h]]

(* Mutant: the second search finds the file, but res is returned.          *)
InsertReturnsRead(h) == EndGetFile(h, Winner(h), content[h])

(* Lock again, search again, insert if there is still nothing.             *)
InsertIntoCache(h) == EndGetFile(h, Winner(h), Winner(h))

(* writer->Write(img); GetImages goes on with the next name or ends.       *)
SendImage(h) ==
    /\ pc[h] = "send"
    /\ Goto(h, IF list[h] = {} THEN "idle" ELSE "next")
    /\ file' = [file EXCEPT ![h] = NoFile]
    /\ content' = [content EXCEPT ![h] = "absent"]
    /\ UNCHANGED <<disk, m_cache, image_ids, torn, list, crashes>>

-----------------------------------------------------------------------------
(* The server is killed and started again: the cache is empty, the folder  *)
(* and MongoDB remain, files that were open stay as they are.              *)
Crash ==
    /\ crashes < MaxCrashes
    /\ crashes' = crashes + 1
    /\ torn' = torn \cup {f \in Files : Writers(f) # {}}
    /\ m_cache' = [f \in Files |-> "absent"]
    /\ pc' = [h \in Handlers |-> "idle"]
    /\ file' = [h \in Handlers |-> NoFile]
    /\ list' = [h \in Handlers |-> {}]
    /\ content' = [h \in Handlers |-> "absent"]
    /\ UNCHANGED <<disk, image_ids>>

Step(h) ==
    \/ \E f \in Files : ManageImage(h, f)
    \/ OpenForWriting(h) \/ OpenFails(h) \/ WriteAndCache(h)
    \/ CloseFile(h) \/ FlushFails(h)
    \/ AddImage(h) \/ AddImageFails(h)
    \/ GetImages(h) \/ GetFile(h) \/ GetFolder(h)
    \/ ReadFile(h) \/ ReadFails(h) \/ InsertIntoCache(h) \/ SendImage(h)

Next == Crash \/ \E h \in Handlers : Step(h)

Spec == Init /\ [][Next]_vars

-----------------------------------------------------------------------------
(* Properties.                                                             *)

(* Every variable stays in its type.                                       *)
TypeOK ==
    /\ disk \in [Files -> Content]
    /\ m_cache \in [Files -> Content]
    /\ image_ids \subseteq Files \cup {NoFile}
    /\ torn \subseteq Files
    /\ pc \in [Handlers -> {"idle", "open", "write", "close", "add_image",
                            "next", "read", "insert", "send"}]
    /\ file \in [Handlers -> Files \cup {NoFile}]
    /\ list \in [Handlers -> SUBSET (Files \cup {NoFile})]
    /\ content \in [Handlers -> Content]
    /\ crashes \in Nat

(* A name recorded in MongoDB names a file in the folder: ManageImage      *)
(* records only what SaveFile has opened or found, across restarts.        *)
RecordedImageExists == \A f \in image_ids \ {NoFile} : disk[f] # "absent"

(* A file nobody is writing is complete on disk and in the cache, even     *)
(* when it was read while it was written, uploaded twice at once, or       *)
(* truncated by the second upload; unless its write was cut short.         *)
SettledFileComplete ==
    \A f \in Files \ torn :
        Writers(f) = {} => disk[f] # "part" /\ m_cache[f] # "part"

(* GetImages never sends a truncated image: a name that was read from      *)
(* MongoDB before uploads of the same image, readers and a restart moved   *)
(* on still yields the complete file, unless somebody is writing it just   *)
(* then or its write was cut short.  When the file cannot be opened        *)
(* nothing is sent in its place, an empty image, and that is not cached.   *)
SentImageNotTruncated ==
    [][\A h \in Handlers :
           LET f == file'[h]
           IN  pc[h] # "send" /\ pc'[h] = "send" /\ f # NoFile
               => \/ content'[h] = "full"
                  \/ content'[h] = "absent" /\ m_cache'[f] = m_cache[f]
                  \/ f \in torn
                  \/ Writers(f) # {}]_vars

(* A complete image in the cache is never replaced by a truncated one that *)
(* GetFile read from the disk before.                                      *)
CacheNeverDegrades ==
    [][\A f \in Files : m_cache[f] = "full" => m_cache'[f] # "part"]_vars

=============================================================================
