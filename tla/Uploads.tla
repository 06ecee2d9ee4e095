------------------------------- MODULE Uploads -------------------------------
(***************************************************************************)
(* apps/admin/upload.cpp: a file comes in chunks, each saved as a part;    *)
(* the request that finds all parts in place puts them together, compares  *)
(* hash and size, and reports the file.  The file is named after its hash  *)
(* and its size, so this is about one file.  Requests are handled by the   *)
(* threads of a process that may be killed; the disk survives.             *)
(*                                                                         *)
(* A file is a sequence of cells, one per chunk: the number of the chunk,  *)
(* or Garbage, for data damaged on the way or a hole.                      *)
(***************************************************************************)
EXTENDS Naturals, Sequences, FiniteSets

CONSTANTS Requests,    \* requests that are handled at the same time
          Chunkings,   \* numbers of chunks that the browser may choose
          Parallel,    \* numbers of chunks it may send at a time (three by default)
          MaxCrashes, MaxDamages, MaxStrays,  \* bounds on what goes wrong
          Absent       \* no such file

ASSUME UploadAssumption == /\ Chunkings \subseteq Nat \ {0} /\ Parallel \subseteq Nat \ {0}
                           /\ MaxCrashes \in Nat /\ MaxDamages \in Nat /\ MaxStrays \in Nat
                           /\ Absent \notin Seq(Nat)

VARIABLES chunks,        \* the number of chunks; the size of the file in cells
          file,          \* content of the file at the final path
          lock, part,    \* contents of the files of each chunk: .part.lock, .part
          pc, chunk,     \* where each request stands, and its chunk
          out,           \* which file the one that it writes is by now, if it still has a name
          at, in,        \* the loops over the chunks: index, part read
          md5digest,     \* what was appended to the digest
          parallel,      \* the browser: how many chunks are sent at a time
          todo, waiting, \* the browser: chunks not yet answered, requests it waits for
          state,         \* the browser: what it knows of the upload
          overlap,       \* history: the file was begun while another request was at it
          twice,         \* history: chunks that two requests were saving at once
          crashes, damages,
          strays         \* requests whose answer nobody waits for

Garbage == 1000
handler == <<pc, chunk, out, at, in, md5digest>>
browser == <<todo, waiting, state, parallel>>
disk == <<file, lock, part>>
faults == <<crashes, damages, strays, overlap, twice>>
vars == <<chunks, disk, handler, browser, faults>>

Chunk == 0 .. chunks - 1
Expected == [i \in 1 .. chunks |-> i - 1]

(* lstat(fpath): the file is there and has the size of the request. *)
SizeFits == file # Absent /\ Len(file) = chunks

Goes(r, from, to) == pc[r] = from /\ pc' = [pc EXCEPT ![r] = to]
Set(f, r, v) == [f EXCEPT ![r] = v]
Ends(r, from) ==  \* the request is answered, and what it had is gone
    /\ Goes(r, from, "idle")
    /\ chunk' = Set(chunk, r, 0) /\ at' = Set(at, r, 0) /\ md5digest' = Set(md5digest, r, <<>>)

-----------------------------------------------------------------------------
(* The browser (media/webuploader) asks first whether the file is there,   *)
(* then sends the chunks, several at a time.                               *)
AskExists ==
    /\ state \in {"start", "done"} /\ waiting = {}
    /\ state' = IF SizeFits THEN "done" ELSE "sending"
    /\ todo' = IF SizeFits THEN {} ELSE Chunk
    /\ UNCHANGED <<chunks, parallel, waiting, disk, handler, faults>>

Send(r) ==
    /\ state = "sending" /\ Cardinality(waiting) < parallel /\ Goes(r, "idle", "save")
    /\ \E i \in todo \ {chunk[q] : q \in waiting} : chunk' = Set(chunk, r, i)
    /\ waiting' = waiting \cup {r}
    /\ UNCHANGED <<chunks, disk, at, out, in, md5digest, todo, state, parallel, faults>>

(* A connection breaks.  Of several chunks the uploader sends the one      *)
(* concerned again at once (chunkRetry); the handler of the first request  *)
(* may still be at work, and knows nothing of it.                          *)
Stray == strays < MaxStrays /\ strays' = strays + 1
Break(r) ==
    /\ Stray /\ chunks > 1 /\ r \in waiting
    /\ waiting' = waiting \ {r}
    /\ UNCHANGED <<chunks, disk, handler, todo, state, parallel, crashes, damages, overlap, twice>>

(* After three times, with one chunk at once: the file has failed, and all *)
(* its connections are closed.  The user starts again.                     *)
Fails == state' = "start" /\ todo' = {} /\ waiting' = {}
GiveUp ==
    /\ Stray /\ waiting # {}
    /\ Fails
    /\ UNCHANGED <<chunks, parallel, disk, handler, crashes, damages, overlap, twice>>

(* The same file is uploaded in another tab, or by another user. *)
Elsewhere(r) ==
    /\ Stray /\ Goes(r, "idle", "save")
    /\ \E i \in Chunk : chunk' = Set(chunk, r, i)
    /\ UNCHANGED <<chunks, disk, at, out, in, md5digest, browser, crashes, damages,
                   overlap, twice>>

(* All chunks were saved and the file was not reported. *)
StartAgain ==
    /\ state = "sending" /\ todo = {} /\ waiting = {}
    /\ state' = "start"
    /\ UNCHANGED <<chunks, parallel, disk, handler, todo, waiting, faults>>

(* What an answer makes of the chunk, if somebody waits for it.  That the  *)
(* file is complete is only taken from the answer that is the last.        *)
Saved(r) ==
    /\ todo' = IF r \in waiting THEN todo \ {chunk[r]} ELSE todo
    /\ waiting' = waiting \ {r}
Answered(r, last) ==
    /\ Saved(r)
    /\ state' = IF r \in waiting /\ todo = {chunk[r]} THEN last ELSE state
Invalid(r) == IF r \in waiting THEN Fails ELSE UNCHANGED <<todo, waiting, state>>

-----------------------------------------------------------------------------
(* A request is at work on the final file. *)
Working(r) == \/ pc[r] \in {"open", "copy", "unlink", "verify", "remove", "completed"}
              \/ chunks = 1 /\ pc[r] \in {"write", "digest"}
Begins(r) == overlap' = \E q \in Requests \ {r} : Working(q)

(* Files that are being written when their name goes, or goes to others. *)
Gone(name) == [q \in Requests |-> IF out[q] = name THEN "gone" ELSE out[q]]
ChunkGone(i, name) == [q \in Requests |-> IF chunk[q] = i /\ out[q] = name THEN "gone" ELSE out[q]]

(* An ofstream on the final path truncates the file that is there. *)
Truncate(r) == file' = <<>> /\ out' = Set(out, r, "file")

(* file::save_to, for one chunk to the final path, for several to the      *)
(* .part.lock of the chunk.  An upload kept in memory is copied: the file  *)
(* of that name is truncated or made, then the data arrives in it,         *)
(* whatever its name is by then.  One kept on the disk is renamed, if both *)
(* are on the same device.                                                 *)
AfterSave == IF chunks = 1 THEN "digest" ELSE "rename"
Received(r, cell) ==
    /\ cell \in {chunk[r], Garbage}
    /\ cell = Garbage => damages < MaxDamages
    /\ damages' = IF cell = Garbage THEN damages + 1 ELSE damages

Saving(q, i) == pc[q] \in {"write", "rename"} /\ chunk[q] = i
SaveTwice(r) == twice' = IF \E q \in Requests \ {r} : Saving(q, chunk[r])
                         THEN twice \cup {chunk[r]} ELSE twice

SaveInPlace(r) ==  \* variant that saves a chunk under .part
    /\ Goes(r, "save", "write")
    /\ \/ chunks = 1 /\ Truncate(r) /\ Begins(r) /\ UNCHANGED <<part, twice>>
       \/ /\ chunks > 1 /\ SaveTwice(r)
          /\ part' = Set(part, chunk[r], <<>>) /\ out' = Set(out, r, "part")
          /\ UNCHANGED <<file, overlap>>
    /\ UNCHANGED <<chunks, lock, chunk, at, in, md5digest, browser, crashes, damages, strays>>
SaveOpen(r) ==
    /\ Goes(r, "save", "write")
    /\ \/ chunks = 1 /\ Truncate(r) /\ Begins(r) /\ UNCHANGED <<lock, twice>>
       \/ /\ chunks > 1 /\ SaveTwice(r)
          /\ lock' = Set(lock, chunk[r], <<>>) /\ out' = Set(out, r, "lock")
          /\ UNCHANGED <<file, overlap>>
    /\ UNCHANGED <<chunks, part, chunk, at, in, md5digest, browser, crashes, damages, strays>>

SaveWrite(r) ==
    /\ Goes(r, "write", AfterSave)
    /\ \E cell \in {chunk[r], Garbage} :
         /\ Received(r, cell)
         /\ file' = IF out[r] = "file" THEN <<cell>> ELSE file
         /\ lock' = IF out[r] = "lock" THEN Set(lock, chunk[r], <<cell>>) ELSE lock
         /\ part' = IF out[r] = "part" THEN Set(part, chunk[r], <<cell>>) ELSE part
    /\ out' = Set(out, r, "none")
    /\ UNCHANGED <<chunks, chunk, at, in, md5digest, browser, crashes, strays, overlap, twice>>

SaveMove(r) ==
    /\ Goes(r, "save", AfterSave)
    /\ \E cell \in {chunk[r], Garbage} :
         /\ Received(r, cell)
         /\ \/ chunks = 1 /\ Begins(r) /\ file' = <<cell>> /\ out' = Gone("file")
               /\ UNCHANGED <<lock, twice>>
            \/ /\ chunks > 1 /\ SaveTwice(r)
               /\ lock' = Set(lock, chunk[r], <<cell>>) /\ out' = ChunkGone(chunk[r], "lock")
               /\ UNCHANGED <<file, overlap>>
    /\ UNCHANGED <<chunks, part, chunk, at, in, md5digest, browser, crashes, strays>>

(* With one chunk the digest is that of the file, read back.  A file that  *)
(* has gone cannot be opened; then eof() is never reached and the loop of  *)
(* the code does not end.                                                  *)
Digest(r) ==
    /\ \/ file # Absent /\ Goes(r, "digest", "verify") /\ md5digest' = Set(md5digest, r, file)
       \/ file = Absent /\ Goes(r, "digest", "spins") /\ UNCHANGED md5digest
    /\ UNCHANGED <<chunks, disk, chunk, at, out, in, browser, faults>>
Spin(r) == pc[r] = "spins" /\ UNCHANGED vars

(* That rename() fails, as when another request of the chunk was first, is *)
(* not looked at.                                                          *)
Rename(r) ==
    /\ Goes(r, "rename", "check")
    /\ \/ /\ lock[chunk[r]] # Absent
          /\ part' = Set(part, chunk[r], lock[chunk[r]]) /\ lock' = Set(lock, chunk[r], Absent)
          /\ out' = [q \in Requests |-> IF chunk[q] = chunk[r] /\ out[q] = "lock" THEN "part"
                                        ELSE ChunkGone(chunk[r], "part")[q]]
       \/ lock[chunk[r]] = Absent /\ UNCHANGED <<part, lock, out>>
    /\ UNCHANGED <<chunks, file, chunk, at, in, md5digest, browser, faults>>

(* is_completed: access() on one part after the other. *)
CheckShort(r) ==  \* variant that does not look at the last part
    /\ \/ at[r] < chunks - 1 /\ part[at[r]] # Absent /\ Goes(r, "check", "check")
          /\ at' = Set(at, r, at[r] + 1) /\ UNCHANGED <<browser, chunk, md5digest>>
       \/ at[r] < chunks - 1 /\ part[at[r]] = Absent /\ Ends(r, "check")
          /\ Saved(r) /\ UNCHANGED <<state, parallel>>
       \/ at[r] = chunks - 1 /\ Goes(r, "check", "assemble") /\ at' = Set(at, r, 0)
          /\ UNCHANGED <<browser, chunk, md5digest>>
    /\ UNCHANGED <<chunks, disk, out, in, faults>>
Check(r) ==
    /\ \/ at[r] < chunks /\ part[at[r]] # Absent /\ Goes(r, "check", "check")
          /\ at' = Set(at, r, at[r] + 1) /\ UNCHANGED <<browser, chunk, md5digest>>
       \/ at[r] < chunks /\ part[at[r]] = Absent /\ Ends(r, "check")
          /\ Saved(r) /\ UNCHANGED <<state, parallel>>
       \/ at[r] = chunks /\ Goes(r, "check", "assemble") /\ at' = Set(at, r, 0)
          /\ UNCHANGED <<browser, chunk, md5digest>>
    /\ UNCHANGED <<chunks, disk, out, in, faults>>

(* The parts are put together in their order. *)
OpenOut(r) ==
    /\ Goes(r, "assemble", "open")
    /\ Truncate(r) /\ Begins(r)
    /\ UNCHANGED <<chunks, lock, part, chunk, at, in, md5digest, browser, crashes, damages, strays, twice>>

(* One stream is used for all parts.  When the first has gone, eof() is    *)
(* never reached; when a later one has, eof() is still true of the part    *)
(* before, nothing is read, and the request goes on.                       *)
OpenPart(r) ==
    /\ pc[r] = "open"
    /\ \/ part[at[r]] # Absent /\ Goes(r, "open", "copy") /\ in' = Set(in, r, part[at[r]])
       \/ part[at[r]] = Absent /\ at[r] = 0 /\ Goes(r, "open", "spins") /\ UNCHANGED in
       \/ part[at[r]] = Absent /\ at[r] > 0 /\ Goes(r, "open", "unlink") /\ UNCHANGED in
    /\ UNCHANGED <<chunks, disk, chunk, at, out, md5digest, browser, faults>>

(* Each request writes where it stands in the file, wherever its end is. *)
Written(s, pos, cells) ==
    [i \in 1 .. (IF Len(s) > pos + Len(cells) THEN Len(s) ELSE pos + Len(cells)) |->
       IF i > pos /\ i <= pos + Len(cells) THEN cells[i - pos]
       ELSE IF i <= Len(s) THEN s[i] ELSE Garbage]
CopyPart(r) ==
    /\ Goes(r, "copy", "unlink")
    /\ file' = IF out[r] = "file" THEN Written(file, Len(md5digest[r]), in[r]) ELSE file
    /\ md5digest' = Set(md5digest, r, md5digest[r] \o in[r])
    /\ UNCHANGED <<chunks, lock, part, chunk, at, out, in, browser, faults>>

UnlinkPart(r) ==
    /\ pc[r] = "unlink"
    /\ part' = Set(part, at[r], Absent)
    /\ in' = Set(in, r, <<>>)
    /\ \/ at[r] + 1 < chunks /\ Goes(r, "unlink", "open") /\ at' = Set(at, r, at[r] + 1)
          /\ out' = ChunkGone(at[r], "part")
       \/ at[r] + 1 = chunks /\ Goes(r, "unlink", "verify") /\ at' = Set(at, r, 0)
          /\ out' = Set(ChunkGone(at[r], "part"), r, "none")
    /\ UNCHANGED <<chunks, file, lock, chunk, md5digest, browser, faults>>

(* Hash of what was read, size of what is on the disk; a file that does    *)
(* not match is removed.                                                   *)
VerifySize(r) ==  \* variant that compares only the size
    /\ \/ SizeFits /\ Goes(r, "verify", "completed")
       \/ ~SizeFits /\ Goes(r, "verify", "remove")
    /\ UNCHANGED <<chunks, disk, chunk, at, out, in, md5digest, browser, faults>>
Verify(r) ==
    /\ \/ md5digest[r] = Expected /\ SizeFits /\ Goes(r, "verify", "completed")
       \/ ~(md5digest[r] = Expected /\ SizeFits) /\ Goes(r, "verify", "remove")
    /\ UNCHANGED <<chunks, disk, chunk, at, out, in, md5digest, browser, faults>>

RemoveKeeps(r) ==  \* variant that leaves the file
    /\ Ends(r, "remove")
    /\ Invalid(r)
    /\ UNCHANGED <<chunks, parallel, disk, out, in, faults>>
Remove(r) ==
    /\ Ends(r, "remove")
    /\ file' = Absent /\ out' = Gone("file")
    /\ Invalid(r)
    /\ UNCHANGED <<chunks, parallel, lock, part, in, faults>>

Completed(r) ==
    /\ Ends(r, "completed")
    /\ Answered(r, "done")
    /\ UNCHANGED <<chunks, parallel, disk, out, in, faults>>

-----------------------------------------------------------------------------
(* The process is killed, and the connections break. *)
Crash ==
    /\ crashes < MaxCrashes /\ \E r \in Requests : pc[r] # "idle"
    /\ crashes' = crashes + 1
    /\ pc' = [r \in Requests |-> "idle"] /\ chunk' = [r \in Requests |-> 0]
    /\ at' = [r \in Requests |-> 0] /\ out' = [r \in Requests |-> "none"]
    /\ in' = [r \in Requests |-> <<>>] /\ md5digest' = [r \in Requests |-> <<>>]
    /\ \/ (chunks > 1 \/ waiting = {}) /\ waiting' = {} /\ UNCHANGED <<todo, state>>
       \/ waiting # {} /\ Fails
    /\ UNCHANGED <<chunks, parallel, disk, damages, strays, overlap, twice>>

Init ==
    /\ chunks \in Chunkings /\ parallel \in Parallel
    /\ file = Absent
    /\ lock = [i \in Chunk |-> Absent] /\ part = [i \in Chunk |-> Absent]
    /\ pc = [r \in Requests |-> "idle"] /\ chunk = [r \in Requests |-> 0]
    /\ at = [r \in Requests |-> 0] /\ out = [r \in Requests |-> "none"]
    /\ in = [r \in Requests |-> <<>>] /\ md5digest = [r \in Requests |-> <<>>]
    /\ todo = {} /\ waiting = {} /\ state = "start"
    /\ overlap = FALSE /\ twice = {} /\ crashes = 0 /\ damages = 0 /\ strays = 0

Handle(r) ==
    \/ SaveOpen(r) \/ SaveWrite(r) \/ SaveMove(r) \/ Digest(r) \/ Rename(r) \/ Check(r)
    \/ OpenOut(r) \/ OpenPart(r) \/ CopyPart(r) \/ UnlinkPart(r)
    \/ Verify(r) \/ Remove(r) \/ Completed(r)

Next ==
    \/ AskExists \/ StartAgain \/ GiveUp \/ Crash
    \/ \E r \in Requests : Send(r) \/ Break(r) \/ Elsewhere(r) \/ Handle(r) \/ Spin(r)

Spec == Init /\ [][Next]_vars
(* Threads run, and the user does not give up. *)
FairUploads == Spec /\ WF_vars(AskExists) /\ WF_vars(StartAgain)
                    /\ \A r \in Requests : WF_vars(Send(r)) /\ WF_vars(Handle(r))

-----------------------------------------------------------------------------
(* A name that ends in .part is that of a whole chunk, also when the       *)
(* process is killed while a chunk is being saved: that is what saving it  *)
(* under .part.lock first is for.  The only exception is a chunk that two  *)
(* requests were saving at once, sent again after a broken connection or   *)
(* from elsewhere: both write .part.lock, and the rename of one can give   *)
(* the name to what the other has just truncated.  Then that other one is  *)
(* still writing this very file, or was killed.                            *)
PartsWhole ==
    \A i \in Chunk : part[i] # Absent /\ Len(part[i]) # 1 =>
      /\ i \in twice
      /\ crashes > 0 \/ \E r \in Requests : chunk[r] = i /\ out[r] = "part"

(* The file that "Upload completed!" is said of has the content with the   *)
(* hash of the request, when "File hash value or size not is equals!" is   *)
(* not said of it.                                                         *)
CompletedIsWhole == \A r \in Requests : pc[r] = "completed" => file # Absent /\ file = Expected

(* The same when no request began to put parts together, or to save the    *)
(* only chunk, before another was done with the file, however often the    *)
(* chunks are sent.                                                        *)
WholeUnlessOverlap == ~overlap => CompletedIsWhole

(* A file of the right size that no request is working on is the file,     *)
(* unless the last ones to work on it overlapped: it is what the check     *)
(* before an upload goes by, which looks at the size alone.  A process     *)
(* killed before it could remove a file with a damaged chunk is excepted.  *)
LeftDamaged == crashes > 0 /\ damages > 0
ExistsIsWhole ==
    /\ ~overlap /\ SizeFits /\ ~LeftDamaged
    /\ \A r \in Requests : ~Working(r)
    => file = Expected

(* One chunk at a time, and no connection that breaks but by a crash: a    *)
(* user who starts again whenever an upload came to nothing gets the file  *)
(* there, whatever parts are left on the disk, and no request loops for    *)
(* ever over a part that has gone (with the same exception).               *)
UploadedInTheEnd ==
    <>[](parallel = 1 /\ strays = 0 /\ ~LeftDamaged =>
           state = "done" /\ file # Absent /\ file = Expected)

=============================================================================
