---------------------------- MODULE UploadsProofs ----------------------------
(***************************************************************************)
(* Proofs about Uploads: for any number of requests and chunks, of crashes *)
(* and damaged chunks, and of chunks that are sent again or from elsewhere *)
(* while an earlier request for them is still handled.                     *)
(***************************************************************************)
EXTENDS Uploads, TLAPS, SequenceTheorems

Copying(r) == pc[r] \in {"open", "copy", "unlink"}
Writing(r) == pc[r] = "write" /\ chunks > 1

Places == {"idle", "save", "write", "digest", "rename", "check", "assemble",
           "open", "copy", "unlink", "spins", "verify", "remove", "completed"}
Names == {"none", "lock", "part", "file", "gone"}
UploadTypeOK ==
    /\ chunks \in Nat \ {0}
    /\ file \in Seq(Nat) \cup {Absent}
    /\ lock \in [Chunk -> Seq(Nat) \cup {Absent}] /\ part \in [Chunk -> Seq(Nat) \cup {Absent}]
    /\ pc \in [Requests -> Places] /\ out \in [Requests -> Names]
    /\ chunk \in [Requests -> Chunk] /\ at \in [Requests -> Nat]
    /\ in \in [Requests -> Seq(Nat)] /\ md5digest \in [Requests -> Seq(Nat)]
    /\ todo \subseteq Chunk /\ overlap \in BOOLEAN
    /\ crashes \in Nat /\ damages \in Nat

(* What a request has found or made so far. *)
RequestOK(r) ==
    /\ pc[r] \in {"rename", "check", "assemble"} \/ Copying(r) => chunks > 1
    /\ pc[r] = "digest" => chunks = 1
    /\ out[r] \in {"lock", "part"} => Writing(r)
    /\ Writing(r) => out[r] # "file"
    /\ Copying(r) => at[r] < chunks
    /\ pc[r] \in {"idle", "save", "write", "digest", "rename", "check", "assemble"} => md5digest[r] = <<>>
    /\ pc[r] = "assemble" => at[r] = 0
    /\ pc[r] = "open" /\ at[r] = 0 => md5digest[r] = <<>>

(* A .part.lock that a request is about to rename, or has written, is      *)
(* whole, or another has opened it since and is still to write it.         *)
Torn(f) == f # Absent /\ Len(f) # 1
WriterOf(i, name) == \E q \in Requests : chunk[q] = i /\ out[q] = name
LocksWhole ==
    \A r \in Requests :
      /\ pc[r] = "rename" \/ (Writing(r) /\ out[r] # "lock")
      /\ Torn(lock[chunk[r]])
      => chunk[r] \in twice /\ WriterOf(chunk[r], "lock")

(* A request that is alone with the file: the file is what it has read.    *)
FileRead(r) ==
    /\ Copying(r) => out[r] = "file" /\ file = md5digest[r]
    /\ pc[r] = "verify" /\ file # Absent => file = md5digest[r]
    /\ pc[r] = "completed" => file # Absent /\ file = Expected
FilesThere == \A r \in Requests : out[r] = "file" => file # Absent
Alone ==
    ~overlap => /\ \A q, r \in Requests : Working(q) /\ Working(r) => q = r
                /\ \A r \in Requests : FileRead(r)

(* Nothing damaged: every chunk is itself or still empty, and after n of   *)
(* them a sequence is shorter than n or their beginning.                   *)
Steps(s, n) == Len(s) <= n /\ (Len(s) = n => \A i \in 1 .. n : s[i] = i - 1)
ChunksClean == \A i \in Chunk : /\ lock[i] \in {Absent, <<>>, <<i>>}
                                /\ part[i] \in {Absent, <<>>, <<i>>}
ReadClean(r) == /\ pc[r] \in {"open", "copy"} => Steps(md5digest[r], at[r])
                /\ pc[r] = "unlink" => Steps(md5digest[r], at[r] + 1)
                /\ pc[r] = "copy" => in[r] \in {<<>>, <<at[r]>>}
FileClean == ~overlap /\ file # Absent => Steps(file, chunks)
Undamaged == damages = 0 => ChunksClean /\ FileClean /\ \A r \in Requests : ReadClean(r)

UploadInv == /\ UploadTypeOK /\ (\A r \in Requests : RequestOK(r)) /\ PartsWhole /\ LocksWhole
             /\ FilesThere /\ Alone /\ Undamaged /\ ExistsIsWhole

-----------------------------------------------------------------------------
(* Sequences. *)
LEMMA Cells ==
  /\ <<>> \in Seq(Nat) /\ Len(<<>>) = 0
  /\ \A x \in Nat : <<x>> \in Seq(Nat) /\ Len(<<x>>) = 1 /\ <<x>>[1] = x
  /\ \A s \in Seq(Nat) : s # Absent /\ Len(s) \in Nat
BY UploadAssumption

(* A sequence with an element is not the empty one. *)
LEMMA NotEmpty == ASSUME NEW s, Len(s) = 1 PROVE s # <<>>
<1>1. Len(<<>>) = 0
  BY EmptySeq
<1> QED BY <1>1

(* A request that writes at the end of the file appends. *)
LEMMA WrittenIs ==
  ASSUME NEW s \in Seq(Nat), NEW c \in Seq(Nat), NEW p \in Nat
  PROVE  Written(s, p, c) \in Seq(Nat) /\ Written(s, Len(s), c) = s \o c
<1> DEFINE n == Len(s)
           m == Len(c)
<1>1. n \in Nat /\ m \in Nat /\ Garbage \in Nat
  BY DEF Garbage
<1>2. (\A i \in 1 .. n : s[i] \in Nat) /\ (\A i \in 1 .. m : c[i] \in Nat)
  BY ElementOfSeq
<1>3. ASSUME NEW q \in Nat PROVE Written(s, q, c) \in Seq(Nat)
  <2> DEFINE l == IF n > q + m THEN n ELSE q + m
  <2>1. l \in Nat
    BY <1>1
  <2>2. \A i \in 1 .. l : (IF i > q /\ i <= q + m THEN c[i - q]
                           ELSE IF i <= n THEN s[i] ELSE Garbage) \in Nat
    BY <1>1, <1>2
  <2> HIDE DEF l
  <2>3. [i \in 1 .. l |-> IF i > q /\ i <= q + m THEN c[i - q]
                         ELSE IF i <= n THEN s[i] ELSE Garbage] \in Seq(Nat)
    BY <2>1, <2>2
  <2> QED BY <2>3 DEF Written, l
<1>4. Written(s, n, c) = s \o c
  <2>1. Written(s, n, c) = [i \in 1 .. n + m |-> IF i > n /\ i <= n + m THEN c[i - n]
                            ELSE IF i <= n THEN s[i] ELSE Garbage]
    <3>1. (IF n > n + m THEN n ELSE n + m) = n + m
      BY <1>1
    <3> QED BY <3>1 DEF Written
  <2> DEFINE w == Written(s, n, c)
  <2>2. /\ w \in Seq(Nat) /\ Len(w) = n + m
        /\ \A i \in 1 .. n + m : w[i] = IF i <= n THEN s[i] ELSE c[i - n]
    <3>1. w \in Seq(Nat)
      BY <1>1, <1>3
    <3>2. DOMAIN w = 1 .. n + m
      BY <2>1
    <3>3. \A i \in 1 .. n + m : w[i] = IF i <= n THEN s[i] ELSE c[i - n]
      BY <1>1, <2>1
    <3> HIDE DEF w
    <3>4. Len(w) \in Nat /\ 1 .. Len(w) = 1 .. n + m
      BY <3>1, <3>2, LenProperties
    <3>5. Len(w) = n + m
      <4>1. \A i \in Nat : i \in 1 .. Len(w) <=> i \in 1 .. n + m
        BY <3>4
      <4>2. Len(w) <= n + m
        BY <1>1, <3>4, <4>1
      <4>3. n + m <= Len(w)
        BY <1>1, <3>4, <4>1
      <4> QED BY <1>1, <3>4, <4>2, <4>3
    <3> QED BY <3>1, <3>3, <3>5
  <2>3. /\ s \o c \in Seq(Nat) /\ Len(s \o c) = n + m
        /\ \A i \in 1 .. n + m : (s \o c)[i] = IF i <= n THEN s[i] ELSE c[i - n]
    BY ConcatProperties
  <2> HIDE DEF w
  <2> QED BY <2>2, <2>3, SeqEqual DEF w
<1> QED BY <1>3, <1>4

(* What was read after n chunks. *)
LEMMA StepsIs ==
  ASSUME NEW s \in Seq(Nat), NEW n \in Nat, Steps(s, n)
  PROVE  /\ Steps(s, n + 1) /\ Steps(s \o <<>>, n + 1) /\ Steps(s \o <<n>>, n + 1)
         /\ \A m \in Nat : n < m => Steps(s, m)
<1>1. Len(s) \in Nat /\ Len(s) <= n
  BY DEF Steps
<1>2. Steps(s, n + 1) /\ \A m \in Nat : n < m => Steps(s, m)
  BY <1>1 DEF Steps
<1>3. Steps(s \o <<>>, n + 1)
  <2>1. s \o <<>> = s
    BY ConcatEmptySeq
  <2> QED BY <1>2, <2>1
<1>4. Steps(s \o <<n>>, n + 1)
  <2>1. /\ Len(s \o <<n>>) = Len(s) + 1
        /\ \A i \in 1 .. Len(s) + 1 : (s \o <<n>>)[i] = IF i <= Len(s) THEN s[i] ELSE n
    BY <1>1
  <2>2. Len(s) = n => \A i \in 1 .. n : s[i] = i - 1
    BY DEF Steps
  <2> HIDE DEF Steps
  <2>3. ASSUME Len(s) + 1 = n + 1, NEW i \in 1 .. n + 1 PROVE (s \o <<n>>)[i] = i - 1
    <3>1. Len(s) = n
      BY <1>1, <2>3
    <3>2. CASE i <= n
      BY <2>1, <2>2, <3>1, <3>2
    <3>3. CASE i = n + 1
      BY <2>1, <3>1, <3>3
    <3>4. i <= n \/ i = n + 1
      OBVIOUS
    <3> QED BY <3>2, <3>3, <3>4
  <2> QED BY <1>1, <2>1, <2>3 DEF Steps
<1> QED BY <1>2, <1>3, <1>4

(* A file that is clean and has its size is the file; an empty one and a   *)
(* single chunk are clean.                                                 *)
LEMMA CleanIs ==
  ASSUME NEW n \in Nat \ {0}
  PROVE  /\ Steps(<<>>, 0) /\ Steps(<<>>, n) /\ Steps(<<0>>, 1)
         /\ \A s \in Seq(Nat) : Steps(s, n) /\ Len(s) = n => s = [i \in 1 .. n |-> i - 1]
<1>1. Steps(<<>>, 0) /\ Steps(<<>>, n) /\ Steps(<<0>>, 1)
  BY Cells DEF Steps
<1>2. ASSUME NEW s \in Seq(Nat), Steps(s, n), Len(s) = n PROVE s = [i \in 1 .. n |-> i - 1]
  BY <1>2 DEF Steps
<1> QED BY <1>1, <1>2

-----------------------------------------------------------------------------
(* The steps.                                                              *)

(* In a step of one request the others stay where they are; the files they *)
(* write may change their name or lose it.                                 *)
Others(r) == \A q \in Requests \ {r} :
    /\ pc'[q] = pc[q] /\ chunk'[q] = chunk[q] /\ at'[q] = at[q]
    /\ in'[q] = in[q] /\ md5digest'[q] = md5digest[q]
OutsKept(r) == \A q \in Requests \ {r} :
    out'[q] = out[q] \/ out'[q] = "gone" \/ (out[q] = "lock" /\ out'[q] = "part")
Same == chunks' = chunks /\ crashes' = crashes /\ damages' >= damages

LEMMA RequestsStep ==
  ASSUME UploadInv, NEW r \in Requests, Others(r), Same, OutsKept(r), RequestOK(r)'
  PROVE  \A q \in Requests : RequestOK(q)'
<1>1. ASSUME NEW q \in Requests \ {r} PROVE RequestOK(q)'
  BY <1>1 DEF UploadInv, Others, Same, OutsKept, RequestOK, Copying, Writing
<1> QED BY <1>1

(* The final file: a request goes on, and only changes it when it is at    *)
(* work on it; or it begins.                                               *)
GoesOn(r) == /\ overlap' = overlap /\ (Working(r)' => Working(r))
             /\ \/ Working(r)
                \/ file' = file /\ \A q \in Requests \ {r} : out[q] = "file" => out'[q] = "file"
LEMMA AloneStep ==
  ASSUME UploadInv, NEW r \in Requests, Others(r), Same,
         GoesOn(r) \/ (Begins(r) /\ Working(r)'), ~overlap' => FileRead(r)'
  PROVE  Alone'
<1> SUFFICES ASSUME ~overlap' PROVE Alone'
  BY DEF Alone
<1>1. \A q \in Requests \ {r} : Working(q)' = Working(q)
  BY DEF Others, Same, Working
<1>2. ASSUME NEW q \in Requests \ {r}, ~Working(q) PROVE FileRead(q)'
  BY <1>2 DEF Others, Working, FileRead, Copying
<1>3. CASE Begins(r)
  <2>1. \A q \in Requests \ {r} : ~Working(q)
    BY <1>3 DEF Begins
  <2> QED BY <1>1, <1>2, <2>1 DEF Alone
<1>4. CASE GoesOn(r) /\ Working(r)
  <2>1. \A q \in Requests \ {r} : ~Working(q)
    BY <1>4 DEF GoesOn, UploadInv, Alone
  <2> QED BY <1>1, <1>2, <2>1 DEF Alone
<1>5. CASE GoesOn(r) /\ ~Working(r)
  <2>1. /\ file' = file /\ \A q \in Requests \ {r} : out[q] = "file" => out'[q] = "file"
        /\ ~Working(r)' /\ ~overlap
    BY <1>5 DEF GoesOn
  <2>2. ASSUME NEW q \in Requests \ {r} PROVE FileRead(q)'
    BY <2>1, <2>2 DEF UploadInv, Alone, Others, Same, FileRead, Copying, Expected
  <2>3. \A q, p \in Requests : Working(q)' /\ Working(p)' => q = p
    BY <1>1, <2>1 DEF UploadInv, Alone
  <2> QED BY <2>2, <2>3 DEF Alone
<1> QED BY <1>3, <1>4, <1>5

LEMMA FileStep ==
  ASSUME UploadInv, NEW r \in Requests, Others(r), Same, UploadTypeOK',
         GoesOn(r) \/ (Begins(r) /\ Working(r)'), ~overlap' => FileRead(r)',
         damages' = 0 => ReadClean(r)' /\ FileClean',
         /\ ~Working(r)' /\ ~overlap' /\ SizeFits' /\ ~LeftDamaged' /\ Working(r)
         => file' = Expected'
  PROVE  /\ Alone' /\ ExistsIsWhole'
         /\ damages' = 0 => damages = 0 /\ FileClean' /\ \A q \in Requests : ReadClean(q)'
<1>1. damages \in Nat /\ damages' \in Nat /\ crashes \in Nat
  BY DEF UploadInv, UploadTypeOK
<1>2. damages' = 0 => damages = 0
  BY <1>1 DEF Same
<1>3. ASSUME damages' = 0, NEW q \in Requests \ {r} PROVE ReadClean(q)'
  BY <1>2, <1>3 DEF UploadInv, Undamaged, Others, ReadClean
<1>4. ExistsIsWhole'
  <2> SUFFICES ASSUME ~overlap', SizeFits', ~LeftDamaged', \A q \in Requests : ~Working(q)'
               PROVE  file' = Expected'
    BY DEF ExistsIsWhole
  <2>1. CASE Working(r)
    BY <2>1
  <2>2. CASE ~Working(r)
    <3>1. GoesOn(r) /\ file' = file /\ ~overlap
      BY <2>2 DEF GoesOn
    <3>2. SizeFits /\ ~LeftDamaged
      BY <1>1, <3>1 DEF SizeFits, LeftDamaged, Same
    <3>3. \A q \in Requests : ~Working(q)
      BY <2>2 DEF Working, Others, Same
    <3> QED BY <3>1, <3>2, <3>3 DEF UploadInv, ExistsIsWhole, Expected, Same
  <2> QED BY <2>1, <2>2
<1> QED BY <1>2, <1>3, <1>4, AloneStep

(* The files of the chunks stay as they are. *)
LEMMA ChunksStep ==
  ASSUME UploadInv, NEW r \in Requests, Others(r), Same, UploadTypeOK',
         UNCHANGED <<lock, part, twice>>, pc'[r] # "rename", ~Writing(r)', ~Writing(r),
         \A q \in Requests : {out[q], out'[q]} \cap {"lock", "part"} # {} => out'[q] = out[q]
  PROVE  /\ PartsWhole' /\ LocksWhole'
         /\ damages' = 0 => ChunksClean'
<1>1. Chunk' = Chunk
  BY DEF Same, Chunk
<1>2. \A q \in Requests : out[q] \in {"lock", "part"} => q # r /\ out'[q] = out[q] /\ chunk'[q] = chunk[q]
  BY DEF UploadInv, RequestOK, Others
<1>3. ASSUME NEW i, NEW n \in {"lock", "part"}, WriterOf(i, n) PROVE WriterOf(i, n)'
  BY <1>2, <1>3 DEF WriterOf
<1>4. PartsWhole'
  <2> SUFFICES ASSUME NEW i \in Chunk, part[i] # Absent, Len(part[i]) # 1
               PROVE  /\ i \in twice
                      /\ crashes > 0 \/ WriterOf(i, "part")'
    BY <1>1 DEF PartsWhole, Same, WriterOf
  <2>1. /\ i \in twice
        /\ crashes > 0 \/ WriterOf(i, "part")
    BY DEF UploadInv, PartsWhole, WriterOf
  <2> QED BY <1>3, <2>1
<1>5. LocksWhole'
  <2> SUFFICES ASSUME NEW q \in Requests, (pc[q] = "rename" \/ (Writing(q) /\ out[q] # "lock"))',
                      Torn(lock[chunk[q]])'
               PROVE  (chunk[q] \in twice /\ WriterOf(chunk[q], "lock"))'
    BY DEF LocksWhole
  <2>1. q # r
    OBVIOUS
  <2>2. pc'[q] = pc[q] /\ chunk'[q] = chunk[q] /\ (out'[q] # "lock" => out[q] # "lock")
    BY <1>2, <2>1 DEF Others
  <2>3. chunk[q] \in twice /\ WriterOf(chunk[q], "lock")
    BY <2>2 DEF UploadInv, LocksWhole, Torn, Writing, Same
  <2> QED BY <1>3, <2>2, <2>3
<1>6. ASSUME damages' = 0 PROVE ChunksClean'
  <2>1. damages = 0
    BY <1>6 DEF UploadInv, UploadTypeOK, Same
  <2> QED BY <1>1, <2>1 DEF UploadInv, Undamaged, ChunksClean
<1> QED BY <1>4, <1>5, <1>6

(* Together. *)
LEMMA StepOf ==
  ASSUME UploadInv, NEW r \in Requests, Others(r), Same, UploadTypeOK', OutsKept(r), RequestOK(r)',
         GoesOn(r) \/ (Begins(r) /\ Working(r)'), ~overlap' => FileRead(r)',
         damages' = 0 => ReadClean(r)' /\ FileClean',
         /\ ~Working(r)' /\ ~overlap' /\ SizeFits' /\ ~LeftDamaged' /\ Working(r)
         => file' = Expected',
         FilesThere', PartsWhole', LocksWhole', damages' = 0 => ChunksClean'
  PROVE  UploadInv'
<1>1. \A q \in Requests : RequestOK(q)'
  BY RequestsStep
<1>2. /\ Alone' /\ ExistsIsWhole'
      /\ damages' = 0 => FileClean' /\ \A q \in Requests : ReadClean(q)'
  BY FileStep
<1>3. Undamaged'
  BY <1>2 DEF Undamaged
<1> QED BY <1>1, <1>2, <1>3 DEF UploadInv

(* A request that has nothing to do with the final file. *)
LEMMA AsideStep ==
  ASSUME UploadInv, NEW r \in Requests, Others(r), Same, UploadTypeOK', OutsKept(r), RequestOK(r)',
         ~Working(r), ~Working(r)', UNCHANGED <<file, overlap>>,
         \A q \in Requests \ {r} : out[q] = "file" => out'[q] = "file",
         \A q \in Requests : out'[q] = "file" => out[q] = "file",
         PartsWhole', LocksWhole', damages' = 0 => ChunksClean'
  PROVE  UploadInv'
<1>1. FileRead(r)' /\ ReadClean(r)' /\ GoesOn(r)
  BY DEF Working, FileRead, ReadClean, Copying, GoesOn
<1>2. ASSUME damages' = 0 PROVE FileClean'
  <2>1. damages = 0
    BY <1>2 DEF UploadInv, UploadTypeOK, Same
  <2> QED BY <2>1 DEF UploadInv, Undamaged, FileClean, Same
<1>3. FilesThere'
  BY DEF UploadInv, FilesThere
<1> QED BY <1>1, <1>2, <1>3, StepOf

(* A chunk is sent. *)
LEMMA SendStep ==
  ASSUME UploadInv, NEW r \in Requests, Send(r) \/ Elsewhere(r)
  PROVE  UploadInv'
<1> USE DEF Goes, Set, disk, browser, faults, Stray
<1>1. PICK c \in Chunk : chunk' = [chunk EXCEPT ![r] = c]
  BY DEF UploadInv, UploadTypeOK, Send, Elsewhere
<1>2. /\ Others(r) /\ Same /\ pc[r] = "idle" /\ pc'[r] = "save"
      /\ UNCHANGED <<file, lock, part, at, out, in, md5digest, todo, overlap, twice>>
  BY <1>1 DEF UploadInv, UploadTypeOK, Send, Elsewhere, Others, Same
<1>3. UploadTypeOK'
  <2>1. chunk' \in [Requests -> Chunk] /\ Chunk' = Chunk
    BY <1>1, <1>2 DEF UploadInv, UploadTypeOK, Same, Chunk
  <2>2. pc' \in [Requests -> Places]
    BY DEF UploadInv, UploadTypeOK, Places, Send, Elsewhere
  <2>3. damages' = damages
    BY DEF Send, Elsewhere
  <2> QED BY <1>2, <2>1, <2>2, <2>3 DEF UploadInv, UploadTypeOK, Same
<1>4. RequestOK(r)' /\ OutsKept(r) /\ ~Working(r) /\ ~Working(r)'
  BY <1>2 DEF UploadInv, RequestOK, OutsKept, Working, Copying, Writing
<1>5. PartsWhole' /\ LocksWhole' /\ (damages' = 0 => ChunksClean')
  BY <1>2, <1>3, ChunksStep DEF Writing
<1> QED BY <1>2, <1>3, <1>4, <1>5, AsideStep

(* The chunks are numbered as before; a request that ended is well typed.  *)
LEMMA ChunkKept ==
  ASSUME UploadTypeOK, chunks' = chunks
  PROVE  Chunk' = Chunk /\ 0 \in Chunk
BY DEF UploadTypeOK, Chunk

LEMMA EndsOK ==
  ASSUME UploadTypeOK, chunks' = chunks, NEW r \in Requests, NEW from, Ends(r, from)
  PROVE  /\ pc' \in [Requests -> Places] /\ chunk' \in [Requests -> Chunk]
         /\ at' \in [Requests -> Nat] /\ md5digest' \in [Requests -> Seq(Nat)]
BY Cells, ChunkKept DEF UploadTypeOK, Ends, Goes, Set, Places

(* is_completed only looks. *)
LEMMA CheckStep ==
  ASSUME UploadInv, NEW r \in Requests, Check(r)
  PROVE  UploadInv'
<1> USE DEF Goes, Ends, Set, disk, browser, faults
<1>1. /\ Others(r) /\ Same /\ pc[r] = "check" /\ pc'[r] \in {"check", "idle", "assemble"}
      /\ UNCHANGED <<file, lock, part, out, in, overlap, twice, damages>>
      /\ pc'[r] = "assemble" => at'[r] = 0
      /\ md5digest'[r] = md5digest[r] \/ md5digest'[r] = <<>>
  BY DEF UploadInv, UploadTypeOK, Check, Others, Same
<1>2. UploadTypeOK'
  <2>1. UploadTypeOK /\ Chunk' = Chunk
    BY <1>1, ChunkKept DEF UploadInv, Same
  <2>2. todo' \subseteq Chunk
    BY DEF UploadInv, UploadTypeOK, Check, Saved
  <2>3. CASE Ends(r, "check")
    BY <1>1, <2>1, <2>2, <2>3, EndsOK DEF UploadTypeOK, Same
  <2>4. CASE UNCHANGED <<chunk, md5digest>>
    <3>1. at' \in [Requests -> Nat]
      <4>1. at \in [Requests -> Nat]
            /\ (at' = [at EXCEPT ![r] = 0] \/ at' = [at EXCEPT ![r] = at[r] + 1])
        BY <2>1 DEF UploadTypeOK, Check
      <4> QED BY <4>1
    <3>2. pc' \in [Requests -> Places]
      BY <2>1 DEF UploadTypeOK, Check, Places
    <3> QED BY <1>1, <2>1, <2>2, <2>4, <3>1, <3>2 DEF UploadTypeOK, Same
  <2>5. Ends(r, "check") \/ UNCHANGED <<chunk, md5digest>>
    BY DEF Check
  <2> QED BY <2>3, <2>4, <2>5
<1>3. RequestOK(r)' /\ OutsKept(r) /\ ~Working(r) /\ ~Working(r)'
  BY <1>1 DEF UploadInv, RequestOK, OutsKept, Working, Copying, Writing, Same
<1>4. PartsWhole' /\ LocksWhole' /\ (damages' = 0 => ChunksClean')
  BY <1>1, <1>2, ChunksStep DEF Writing
<1> QED BY <1>1, <1>2, <1>3, <1>4, AsideStep

(* A request that reads, compares or answers: the disk stays as it is. *)
LEMMA ReadStep ==
  ASSUME UploadInv, NEW r \in Requests, Others(r), Same, UploadTypeOK', RequestOK(r)', Working(r),
         UNCHANGED <<file, lock, part, out, overlap, twice>>, pc[r] # "write",
         pc'[r] \notin {"write", "rename"}, ~overlap => FileRead(r)',
         damages' = 0 => ReadClean(r)',
         ~Working(r)' /\ ~overlap /\ SizeFits => file = Expected
  PROVE  UploadInv'
<1>1. GoesOn(r) /\ OutsKept(r)
  BY DEF GoesOn, OutsKept
<1>2. ASSUME damages' = 0 PROVE FileClean'
  <2>1. damages = 0
    BY <1>2 DEF UploadInv, UploadTypeOK, Same
  <2> QED BY <2>1 DEF UploadInv, Undamaged, FileClean, Same
<1>3. PartsWhole' /\ LocksWhole' /\ (damages' = 0 => ChunksClean')
  BY ChunksStep DEF Writing
<1>4. SizeFits' = SizeFits /\ Expected' = Expected /\ FilesThere'
  BY DEF SizeFits, Expected, Same, UploadInv, FilesThere
<1> QED BY <1>1, <1>2, <1>3, <1>4, StepOf

(* The digest of a single chunk is that of the file, if it is there. *)
LEMMA DigestStep ==
  ASSUME UploadInv, NEW r \in Requests, Digest(r)
  PROVE  UploadInv'
<1> USE DEF Goes, Set, disk, browser, faults
<1>1. /\ Others(r) /\ Same /\ pc[r] = "digest"
      /\ UNCHANGED <<chunks, chunk, file, lock, part, out, at, in, todo, overlap, twice, damages>>
      /\ \/ pc'[r] = "verify" /\ md5digest'[r] = file /\ file # Absent
         \/ pc'[r] = "spins" /\ file = Absent
  BY DEF UploadInv, UploadTypeOK, Digest, Others, Same
<1>2. chunks = 1
  BY <1>1 DEF UploadInv, RequestOK
<1>3. UploadTypeOK'
  <2>1. pc' \in [Requests -> Places] /\ md5digest' \in [Requests -> Seq(Nat)] /\ Chunk' = Chunk
    BY <1>1 DEF UploadInv, UploadTypeOK, Digest, Places, Chunk
  <2> QED BY <1>1, <2>1 DEF UploadInv, UploadTypeOK, Same
<1>4. RequestOK(r)' /\ FileRead(r)' /\ ReadClean(r)' /\ Working(r)
  BY <1>1, <1>2 DEF UploadInv, RequestOK, FileRead, ReadClean, Copying, Writing, Working
<1>5. ~Working(r)' => ~SizeFits
  BY <1>1 DEF Working, SizeFits
<1> QED BY <1>1, <1>3, <1>4, <1>5, ReadStep

(* The next part is opened, if it is there. *)
LEMMA OpenPartStep ==
  ASSUME UploadInv, NEW r \in Requests, OpenPart(r)
  PROVE  UploadInv'
<1> USE DEF Goes, Set, disk, browser, faults
<1>1. /\ Others(r) /\ Same /\ pc[r] = "open"
      /\ UNCHANGED <<chunks, chunk, file, lock, part, out, at, md5digest, todo, overlap, twice, damages>>
      /\ \/ pc'[r] = "copy" /\ in'[r] = part[at[r]] /\ part[at[r]] # Absent
         \/ pc'[r] = "spins" /\ at[r] = 0
         \/ pc'[r] = "unlink"
  BY DEF UploadInv, UploadTypeOK, OpenPart, Others, Same
<1>2. /\ at[r] \in Chunk /\ at[r] < chunks /\ chunks > 1 /\ md5digest[r] \in Seq(Nat) /\ at[r] \in Nat
      /\ at[r] = 0 => md5digest[r] = <<>>
  BY <1>1 DEF UploadInv, UploadTypeOK, RequestOK, Copying, Chunk
<1>3. UploadTypeOK'
  <2>1. in' \in [Requests -> Seq(Nat)] /\ pc' \in [Requests -> Places] /\ Chunk' = Chunk
    BY <1>1, <1>2 DEF UploadInv, UploadTypeOK, OpenPart, Places, Chunk
  <2> QED BY <1>1, <2>1 DEF UploadInv, UploadTypeOK, Same
<1>4. RequestOK(r)' /\ Working(r)
  BY <1>1, <1>2 DEF UploadInv, RequestOK, Copying, Writing, Working
<1>5. ~overlap => FileRead(r)'
  BY <1>1 DEF UploadInv, Alone, FileRead, Copying
<1>6. damages' = 0 => ReadClean(r)'
  <2> SUFFICES ASSUME damages = 0 PROVE ReadClean(r)'
    BY <1>1
  <2>1. Steps(md5digest[r], at[r]) /\ part[at[r]] \in {Absent, <<>>, <<at[r]>>}
    BY <1>1, <1>2 DEF UploadInv, Undamaged, ReadClean, ChunksClean
  <2>2. Steps(md5digest[r], at[r] + 1)
    BY <1>2, <2>1, StepsIs
  <2> QED BY <1>1, <2>1, <2>2 DEF ReadClean
<1>7. ~Working(r)' /\ ~overlap => ~SizeFits
  <2> SUFFICES ASSUME ~Working(r)', ~overlap PROVE Len(file) # chunks
    BY DEF SizeFits
  <2>1. file = <<>>
    BY <1>1, <1>2 DEF Working, UploadInv, Alone, FileRead, Copying
  <2> QED BY <1>2, <2>1, Cells
<1> QED BY <1>1, <1>3, <1>4, <1>5, <1>6, <1>7, ReadStep

(* What passes the comparison is the file. *)
LEMMA VerifyStep ==
  ASSUME UploadInv, NEW r \in Requests, Verify(r)
  PROVE  UploadInv'
<1> USE DEF Goes, Set, disk, browser, faults
<1>1. /\ Others(r) /\ Same /\ pc[r] = "verify"
      /\ UNCHANGED <<chunks, chunk, file, lock, part, out, at, in, md5digest, todo, overlap, twice, damages>>
      /\ \/ pc'[r] = "remove"
         \/ pc'[r] = "completed" /\ md5digest[r] = Expected /\ SizeFits
  BY DEF UploadInv, UploadTypeOK, Verify, Others, Same
<1>2. UploadTypeOK'
  <2>1. pc' \in [Requests -> Places] /\ Chunk' = Chunk
    BY <1>1 DEF UploadInv, UploadTypeOK, Verify, Places, Chunk
  <2> QED BY <1>1, <2>1 DEF UploadInv, UploadTypeOK, Same
<1>3. RequestOK(r)' /\ ReadClean(r)' /\ Working(r) /\ Working(r)'
  BY <1>1 DEF UploadInv, RequestOK, Copying, Writing, Working, ReadClean
<1>4. ~overlap => FileRead(r)'
  BY <1>1 DEF UploadInv, Alone, FileRead, Copying, SizeFits, Expected
<1> QED BY <1>1, <1>2, <1>3, <1>4, ReadStep

(* The answer is sent. *)
LEMMA CompletedStep ==
  ASSUME UploadInv, NEW r \in Requests, Completed(r)
  PROVE  UploadInv'
<1> USE DEF Goes, Ends, Set, disk, browser, faults
<1>1. /\ Others(r) /\ Same /\ pc[r] = "completed" /\ pc'[r] = "idle" /\ md5digest'[r] = <<>>
      /\ UNCHANGED <<chunks, file, lock, part, out, in, overlap, twice, damages>>
  BY DEF UploadInv, UploadTypeOK, Completed, Others, Same
<1>2. UploadTypeOK'
  <2>1. UploadTypeOK /\ Chunk' = Chunk
    BY <1>1, ChunkKept DEF UploadInv
  <2>2. todo' \subseteq Chunk
    BY DEF UploadInv, UploadTypeOK, Completed, Answered, Saved
  <2>3. Ends(r, "completed")
    BY DEF Completed
  <2> QED BY <1>1, <2>1, <2>2, <2>3, EndsOK DEF UploadTypeOK, Same
<1>3. RequestOK(r)' /\ FileRead(r)' /\ ReadClean(r)' /\ Working(r)
  BY <1>1 DEF UploadInv, RequestOK, FileRead, ReadClean, Copying, Writing, Working
<1>4. ~overlap => file = Expected
  BY <1>1 DEF UploadInv, Alone, FileRead
<1> QED BY <1>1, <1>2, <1>3, <1>4, ReadStep

(* What does not pass goes. *)
LEMMA RemoveStep ==
  ASSUME UploadInv, NEW r \in Requests, Remove(r)
  PROVE  UploadInv'
<1> USE DEF Goes, Ends, Set, browser, faults
<1>1. /\ Others(r) /\ Same /\ pc[r] = "remove" /\ pc'[r] = "idle" /\ md5digest'[r] = <<>>
      /\ UNCHANGED <<chunks, lock, part, in, overlap, twice, damages>> /\ file' = Absent
      /\ \A q \in Requests : out'[q] = IF out[q] = "file" THEN "gone" ELSE out[q]
  BY DEF UploadInv, UploadTypeOK, Remove, Gone, Others, Same
<1>2. UploadTypeOK'
  <2>1. UploadTypeOK /\ Chunk' = Chunk
    BY <1>1, ChunkKept DEF UploadInv
  <2>2. todo' \subseteq Chunk
    BY DEF UploadInv, UploadTypeOK, Remove, Invalid, Fails
  <2>3. Ends(r, "remove")
    BY DEF Remove
  <2>4. out' \in [Requests -> Names]
    BY DEF UploadInv, UploadTypeOK, Remove, Gone, Names
  <2> QED BY <1>1, <2>1, <2>2, <2>3, <2>4, EndsOK DEF UploadTypeOK, Same
<1>3. RequestOK(r)' /\ FileRead(r)' /\ ReadClean(r)' /\ Working(r)
  BY <1>1 DEF UploadInv, RequestOK, FileRead, ReadClean, Copying, Writing, Working
<1>4. GoesOn(r) /\ OutsKept(r) /\ FileClean' /\ ~SizeFits' /\ FilesThere'
  BY <1>1, <1>3 DEF GoesOn, OutsKept, Working, FileClean, SizeFits, FilesThere
<1>5. PartsWhole' /\ LocksWhole' /\ (damages' = 0 => ChunksClean')
  <2>1. \A q \in Requests : {out[q], out'[q]} \cap {"lock", "part"} # {} => out'[q] = out[q]
    BY <1>1
  <2> QED BY <1>1, <1>2, <2>1, ChunksStep DEF Writing
<1> QED BY <1>1, <1>2, <1>3, <1>4, <1>5, StepOf

(* The parts of which the file is put together begin with an empty one. *)
LEMMA OpenOutStep ==
  ASSUME UploadInv, NEW r \in Requests, OpenOut(r)
  PROVE  UploadInv'
<1> USE DEF Goes, Set, browser, Truncate
<1>1. /\ Others(r) /\ Same /\ pc[r] = "assemble" /\ pc'[r] = "open" /\ Begins(r)
      /\ UNCHANGED <<chunks, chunk, lock, part, at, in, md5digest, todo, twice, damages>>
      /\ file' = <<>> /\ out' = [out EXCEPT ![r] = "file"]
  BY DEF UploadInv, UploadTypeOK, OpenOut, Others, Same
<1>2. /\ chunks > 1 /\ chunks \in Nat /\ at[r] = 0 /\ md5digest[r] = <<>> /\ out'[r] = "file"
      /\ out[r] \notin {"lock", "part"} /\ \A q \in Requests \ {r} : out'[q] = out[q]
  BY <1>1 DEF UploadInv, UploadTypeOK, RequestOK, Writing
<1>3. UploadTypeOK'
  <2>1. /\ pc' \in [Requests -> Places] /\ out' \in [Requests -> Names] /\ overlap' \in BOOLEAN
        /\ Chunk' = Chunk
    BY <1>1 DEF UploadInv, UploadTypeOK, OpenOut, Places, Names, Begins, Chunk
  <2> QED BY <1>1, <2>1, Cells DEF UploadInv, UploadTypeOK, Same
<1>4. RequestOK(r)' /\ OutsKept(r) /\ FileRead(r)' /\ Working(r)'
  BY <1>1, <1>2 DEF RequestOK, OutsKept, Copying, Writing, FileRead, Working
<1>5. ReadClean(r)' /\ FileClean' /\ FilesThere'
  <2>1. Steps(<<>>, 0) /\ Steps(<<>>, chunks) /\ <<>> # Absent
    <3>1. chunks \in Nat \ {0}
      BY <1>2
    <3> QED BY <3>1, CleanIs, Cells
  <2>2. FileClean' /\ FilesThere'
    BY <1>1, <2>1 DEF FileClean, FilesThere
  <2>3. ReadClean(r)'
    BY <1>1, <1>2, <2>1 DEF ReadClean
  <2> QED BY <2>2, <2>3
<1>6. PartsWhole' /\ LocksWhole' /\ (damages' = 0 => ChunksClean')
  BY <1>1, <1>2, <1>3, ChunksStep DEF Writing
<1> QED BY <1>1, <1>3, <1>4, <1>5, <1>6, StepOf

(* A part is written to the file and read into the digest. *)
LEMMA CopyPartStep ==
  ASSUME UploadInv, NEW r \in Requests, CopyPart(r)
  PROVE  UploadInv'
<1> USE DEF Goes, Set, browser, faults
<1> DEFINE read == md5digest[r] \o in[r]
<1>1. /\ Others(r) /\ Same /\ pc[r] = "copy" /\ pc'[r] = "unlink"
      /\ UNCHANGED <<chunks, chunk, lock, part, at, out, in, todo, overlap, twice, damages>>
      /\ file' = IF out[r] = "file" THEN Written(file, Len(md5digest[r]), in[r]) ELSE file
      /\ md5digest'[r] = read
  BY DEF UploadInv, UploadTypeOK, CopyPart, Others, Same
<1>2. /\ chunks > 1 /\ at[r] < chunks /\ at[r] \in Nat /\ chunks \in Nat
      /\ in[r] \in Seq(Nat) /\ md5digest[r] \in Seq(Nat) /\ Len(md5digest[r]) \in Nat
      /\ out[r] = "file" => file \in Seq(Nat)
  <2>1. out[r] = "file" => file # Absent
    BY DEF UploadInv, FilesThere
  <2> QED BY <1>1, <2>1 DEF UploadInv, UploadTypeOK, RequestOK, Copying
<1>3. UploadTypeOK'
  <2>1. read \in Seq(Nat) /\ (out[r] = "file" => Written(file, Len(md5digest[r]), in[r]) \in Seq(Nat))
    BY <1>2, WrittenIs
  <2>2. pc' \in [Requests -> Places] /\ md5digest' \in [Requests -> Seq(Nat)] /\ Chunk' = Chunk
    BY <1>1, <2>1 DEF UploadInv, UploadTypeOK, CopyPart, Places, Chunk
  <2> QED BY <1>1, <2>1, <2>2 DEF UploadInv, UploadTypeOK, Same
<1>4. RequestOK(r)' /\ OutsKept(r) /\ Working(r) /\ Working(r)' /\ GoesOn(r)
  BY <1>1, <1>2 DEF UploadInv, RequestOK, OutsKept, Copying, Writing, Working, GoesOn
<1>5. ASSUME ~overlap PROVE out[r] = "file" /\ file' = read
  <2>1. out[r] = "file" /\ file = md5digest[r]
    BY <1>1, <1>5 DEF UploadInv, Alone, FileRead, Copying
  <2>2. Written(md5digest[r], Len(md5digest[r]), in[r]) = read
    BY <1>2, WrittenIs
  <2> QED BY <1>1, <2>1, <2>2
<1>6. ~overlap => FileRead(r)'
  BY <1>1, <1>5 DEF FileRead, Copying
<1>7. ASSUME damages' = 0 PROVE ReadClean(r)' /\ FileClean'
  <2>1. Steps(md5digest[r], at[r]) /\ in[r] \in {<<>>, <<at[r]>>}
    BY <1>1, <1>7 DEF UploadInv, Undamaged, ReadClean
  <2>2. Steps(read, at[r] + 1)
    BY <1>2, <2>1, StepsIs
  <2>3. Steps(read, chunks)
    <3>1. read \in Seq(Nat) /\ at[r] + 1 \in Nat /\ (at[r] + 1 = chunks \/ at[r] + 1 < chunks)
      BY <1>2
    <3> HIDE DEF read
    <3>2. CASE at[r] + 1 = chunks
      BY <2>2, <3>2
    <3>3. CASE at[r] + 1 < chunks
      BY <1>2, <2>2, <3>1, <3>3, StepsIs
    <3> QED BY <3>1, <3>2, <3>3
  <2> HIDE DEF read
  <2> QED BY <1>1, <1>5, <2>2, <2>3 DEF ReadClean, FileClean
<1>8. PartsWhole' /\ LocksWhole' /\ (damages' = 0 => ChunksClean')
  BY <1>1, <1>3, ChunksStep DEF Writing
<1>9. FilesThere'
  <2>1. out[r] = "file" => file' \in Seq(Nat)
    BY <1>1, <1>2, WrittenIs
  <2> QED BY <1>1, <2>1, Cells DEF UploadInv, FilesThere
<1> QED BY <1>1, <1>3, <1>4, <1>6, <1>7, <1>8, <1>9, StepOf

(* The writers of a chunk and of the others, when one file is renamed. *)
LEMMA WriterStep ==
  ASSUME UploadInv, NEW r \in Requests, Others(r), ~Writing(r), NEW i, NEW n \in {"lock", "part"},
         \A q \in Requests : chunk[q] = i /\ out[q] = n => out'[q] = n, WriterOf(i, n)
  PROVE  WriterOf(i, n)'
<1>1. PICK q \in Requests : chunk[q] = i /\ out[q] = n
  BY DEF WriterOf
<1>2. q # r
  BY <1>1 DEF UploadInv, RequestOK
<1> QED BY <1>1, <1>2 DEF WriterOf, Others

(* A part that was copied goes, or whatever has its name. *)
LEMMA UnlinkPartStep ==
  ASSUME UploadInv, NEW r \in Requests, UnlinkPart(r)
  PROVE  UploadInv'
<1> USE DEF Goes, Set, browser, faults
<1> DEFINE i == at[r]
<1>1. /\ Others(r) /\ Same /\ pc[r] = "unlink"
      /\ UNCHANGED <<chunks, chunk, file, lock, md5digest, todo, overlap, twice, damages>>
      /\ part' = [part EXCEPT ![i] = Absent] /\ in'[r] = <<>>
      /\ \A q \in Requests \ {r} : out'[q] = IF chunk[q] = i /\ out[q] = "part" THEN "gone" ELSE out[q]
      /\ \/ i + 1 < chunks /\ pc'[r] = "open" /\ at'[r] = i + 1
         \/ pc'[r] = "verify" /\ out'[r] = "none"
  <2>1. UploadTypeOK
    BY DEF UploadInv
  <2>2. CASE i + 1 < chunks /\ Goes(r, "unlink", "open")
    BY <2>1, <2>2 DEF UploadTypeOK, UnlinkPart, ChunkGone, Others, Same
  <2>3. CASE i + 1 = chunks /\ Goes(r, "unlink", "verify")
    <3>1. out' = [ChunkGone(i, "part") EXCEPT ![r] = "none"] /\ at' = [at EXCEPT ![r] = 0]
      BY <2>1, <2>3 DEF UploadTypeOK, UnlinkPart
    <3>2. pc'[r] = "verify" /\ out'[r] = "none"
      BY <2>1, <2>3, <3>1 DEF UploadTypeOK, ChunkGone
    <3>3. \A q \in Requests \ {r} : out'[q] = IF chunk[q] = i /\ out[q] = "part" THEN "gone" ELSE out[q]
      BY <3>1 DEF ChunkGone
    <3>4. /\ Others(r) /\ Same /\ pc[r] = "unlink"
          /\ UNCHANGED <<chunks, chunk, file, lock, md5digest, todo, overlap, twice, damages>>
          /\ part' = [part EXCEPT ![i] = Absent] /\ in'[r] = <<>>
      BY <2>1, <2>3, <3>1 DEF UploadTypeOK, UnlinkPart, Others, Same
    <3> QED BY <3>2, <3>3, <3>4
  <2> QED BY <2>2, <2>3 DEF UnlinkPart
<1>2. i \in Nat /\ i \in Chunk /\ chunks > 1 /\ out[r] \notin {"lock", "part"} /\ Chunk' = Chunk
  BY <1>1 DEF UploadInv, UploadTypeOK, RequestOK, Copying, Writing, Chunk
<1>3. out'[r] = out[r] \/ pc'[r] = "verify"
  BY <1>2 DEF UploadInv, UploadTypeOK, UnlinkPart, ChunkGone
<1>4. UploadTypeOK'
  <2>1. in' \in [Requests -> Seq(Nat)] /\ pc' \in [Requests -> Places]
    BY <1>2, Cells DEF UploadInv, UploadTypeOK, UnlinkPart, Places
  <2>3. at' \in [Requests -> Nat]
    <3>1. at \in [Requests -> Nat] /\ (at' = [at EXCEPT ![r] = i + 1] \/ at' = [at EXCEPT ![r] = 0])
      BY DEF UploadInv, UploadTypeOK, UnlinkPart
    <3> QED BY <1>2, <3>1
  <2>2. part' \in [Chunk -> Seq(Nat) \cup {Absent}] /\ out' \in [Requests -> Names]
    BY DEF UploadInv, UploadTypeOK, UnlinkPart, ChunkGone, Names
  <2> QED BY <1>1, <1>2, <2>1, <2>2, <2>3 DEF UploadInv, UploadTypeOK, Same
<1>5. RequestOK(r)' /\ OutsKept(r) /\ Working(r) /\ Working(r)' /\ GoesOn(r)
  BY <1>1, <1>2, <1>3 DEF UploadInv, RequestOK, OutsKept, Copying, Writing, Working, GoesOn
<1>6. ~overlap => FileRead(r)'
  BY <1>1, <1>3 DEF UploadInv, Alone, FileRead, Copying
<1>7. ASSUME damages' = 0 PROVE ReadClean(r)' /\ FileClean' /\ ChunksClean'
  BY <1>1, <1>2, <1>7 DEF UploadInv, UploadTypeOK, Undamaged, ReadClean, FileClean, ChunksClean
<1>8. ~Writing(r)
  BY <1>1 DEF Writing
<1>9. PartsWhole'
  <2> SUFFICES ASSUME NEW j \in Chunk, part'[j] # Absent, Len(part'[j]) # 1
               PROVE  j \in twice /\ (crashes > 0 \/ WriterOf(j, "part")')
    BY <1>1, <1>2 DEF PartsWhole, WriterOf, Same
  <2>1. j # i /\ part'[j] = part[j]
    BY <1>1, <1>2 DEF UploadInv, UploadTypeOK
  <2>2. j \in twice /\ (crashes > 0 \/ WriterOf(j, "part"))
    BY <2>1 DEF UploadInv, PartsWhole, WriterOf
  <2>3. \A q \in Requests : chunk[q] = j /\ out[q] = "part" => out'[q] = "part"
    BY <1>1, <1>2, <2>1
  <2> QED BY <1>1, <1>8, <2>2, <2>3, WriterStep
<1>10. LocksWhole'
  <2> SUFFICES ASSUME NEW q \in Requests, (pc[q] = "rename" \/ (Writing(q) /\ out[q] # "lock"))',
                      Torn(lock[chunk[q]])'
               PROVE  (chunk[q] \in twice /\ WriterOf(chunk[q], "lock"))'
    BY DEF LocksWhole
  <2>1. q # r
    BY <1>1 DEF Writing
  <2>2. pc'[q] = pc[q] /\ chunk'[q] = chunk[q] /\ (out'[q] # "lock" => out[q] # "lock")
    BY <1>1, <2>1 DEF Others
  <2>3. chunk[q] \in twice /\ WriterOf(chunk[q], "lock")
    BY <1>1, <2>2 DEF UploadInv, LocksWhole, Torn, Writing
  <2>4. \A p \in Requests : chunk[p] = chunk[q] /\ out[p] = "lock" => out'[p] = "lock"
    BY <1>1, <1>2
  <2> QED BY <1>1, <1>8, <2>2, <2>3, <2>4, WriterStep
<1>11. FilesThere'
  BY <1>1, <1>3 DEF UploadInv, FilesThere
<1> QED BY <1>1, <1>4, <1>5, <1>6, <1>7, <1>9, <1>10, <1>11, StepOf

(* The chunk gets its name, or what another request has left under the     *)
(* other one: it is torn only if that one still writes it.                 *)
LEMMA RenameStep ==
  ASSUME UploadInv, NEW r \in Requests, Rename(r)
  PROVE  UploadInv'
<1> USE DEF Goes, Set, browser, faults
<1> DEFINE c == chunk[r]
<1>1. /\ Others(r) /\ Same /\ pc[r] = "rename" /\ pc'[r] = "check"
      /\ UNCHANGED <<chunks, chunk, file, at, in, md5digest, todo, overlap, twice, damages>>
      /\ \/ /\ lock[c] # Absent
            /\ part' = [part EXCEPT ![c] = lock[c]] /\ lock' = [lock EXCEPT ![c] = Absent]
            /\ \A q \in Requests : out'[q] = IF chunk[q] = c /\ out[q] = "lock" THEN "part"
                                             ELSE IF chunk[q] = c /\ out[q] = "part" THEN "gone" ELSE out[q]
         \/ UNCHANGED <<part, lock, out>>
  BY DEF UploadInv, UploadTypeOK, Rename, ChunkGone, Others, Same
<1>2. c \in Chunk /\ chunks > 1 /\ out[r] \notin {"lock", "part"} /\ Chunk' = Chunk /\ ~Writing(r)
  BY <1>1 DEF UploadInv, UploadTypeOK, RequestOK, Writing, Chunk
<1>3. UploadTypeOK'
  <2>1. pc' \in [Requests -> Places] /\ out' \in [Requests -> Names]
    BY <1>1 DEF UploadInv, UploadTypeOK, Rename, ChunkGone, Places, Names
  <2>2. part' \in [Chunk -> Seq(Nat) \cup {Absent}] /\ lock' \in [Chunk -> Seq(Nat) \cup {Absent}]
    BY <1>1, <1>2 DEF UploadInv, UploadTypeOK
  <2> QED BY <1>1, <1>2, <2>1, <2>2 DEF UploadInv, UploadTypeOK, Same
<1>4. /\ RequestOK(r)' /\ OutsKept(r) /\ ~Working(r) /\ ~Working(r)'
      /\ \A q \in Requests : out[q] = "file" <=> out'[q] = "file"
  BY <1>1, <1>2 DEF UploadInv, RequestOK, OutsKept, Copying, Writing, Working
<1>5. PartsWhole'
  <2> SUFFICES ASSUME NEW j \in Chunk, part'[j] # Absent, Len(part'[j]) # 1
               PROVE  j \in twice /\ (crashes > 0 \/ WriterOf(j, "part")')
    BY <1>1, <1>2 DEF PartsWhole, WriterOf, Same
  <2>1. CASE part'[j] = part[j] /\ (j # c \/ UNCHANGED out)
    <3>1. j \in twice /\ (crashes > 0 \/ WriterOf(j, "part"))
      BY <2>1 DEF UploadInv, PartsWhole, WriterOf
    <3>2. \A q \in Requests : chunk[q] = j /\ out[q] = "part" => out'[q] = "part"
      BY <1>1, <2>1
    <3> QED BY <1>1, <1>2, <3>1, <3>2, WriterStep
  <2>2. CASE j = c /\ part'[c] = lock[c] /\ lock[c] # Absent /\ ~UNCHANGED out
    <3>1. c \in twice /\ WriterOf(c, "lock")
      BY <1>1, <2>2 DEF UploadInv, LocksWhole, Torn
    <3>2. PICK q \in Requests : chunk[q] = c /\ out[q] = "lock"
      BY <3>1 DEF WriterOf
    <3>3. chunk'[q] = c /\ out'[q] = "part"
      BY <1>1, <2>2, <3>2
    <3> QED BY <2>2, <3>1, <3>3 DEF WriterOf
  <2>3. CASE j = c /\ part'[c] = lock[c] /\ lock[c] # Absent /\ UNCHANGED out
    <3>1. c \in twice /\ WriterOf(c, "lock")
      BY <1>1, <2>3 DEF UploadInv, LocksWhole, Torn
    <3>2. CASE UNCHANGED part
      BY <2>1, <2>3, <3>2
    <3>3. CASE ~UNCHANGED part
      <4>1. PICK q \in Requests : chunk[q] = c /\ out[q] = "lock"
        BY <3>1 DEF WriterOf
      <4>2. out'[q] = "part"
        BY <1>1, <3>3, <4>1
      <4> QED BY <2>3, <4>1, <4>2
    <3> QED BY <3>2, <3>3
  <2> QED BY <1>1, <1>2, <2>1, <2>2, <2>3 DEF UploadInv, UploadTypeOK
<1>6. LocksWhole'
  <2> SUFFICES ASSUME NEW q \in Requests, (pc[q] = "rename" \/ (Writing(q) /\ out[q] # "lock"))',
                      Torn(lock[chunk[q]])'
               PROVE  (chunk[q] \in twice /\ WriterOf(chunk[q], "lock"))'
    BY DEF LocksWhole
  <2>1. q # r /\ pc'[q] = pc[q] /\ chunk'[q] = chunk[q] /\ chunk[q] \in Chunk
    BY <1>1 DEF UploadInv, UploadTypeOK, Writing, Others
  <2>2. CASE UNCHANGED <<lock, out>>
    BY <1>1, <2>1, <2>2 DEF UploadInv, LocksWhole, Torn, Writing, WriterOf
  <2>3. CASE ~UNCHANGED <<lock, out>>
    <3>1. chunk[q] # c /\ lock'[chunk[q]] = lock[chunk[q]]
      BY <1>1, <1>2, <2>1, <2>3 DEF UploadInv, UploadTypeOK, Torn
    <3>2. \A p \in Requests : chunk[p] = chunk[q] => out'[p] = out[p]
      BY <1>1, <2>3, <3>1
    <3>3. chunk[q] \in twice /\ WriterOf(chunk[q], "lock")
      BY <1>1, <2>1, <3>1, <3>2 DEF UploadInv, LocksWhole, Torn, Writing
    <3> QED BY <1>1, <1>2, <2>1, <3>2, <3>3, WriterStep
  <2> QED BY <2>2, <2>3
<1>7. ASSUME damages' = 0 PROVE ChunksClean'
  BY <1>1, <1>2, <1>7 DEF UploadInv, UploadTypeOK, Undamaged, ChunksClean
<1> QED BY <1>1, <1>3, <1>4, <1>5, <1>6, <1>7, AsideStep

(* What is received is a cell, and damaged only if that is counted. *)
LEMMA ReceivedIs ==
  ASSUME UploadTypeOK, NEW r \in Requests, NEW cell \in {chunk[r], Garbage}, Received(r, cell)
  PROVE  /\ cell \in Nat /\ <<cell>> \in Seq(Nat) /\ Len(<<cell>>) = 1 /\ <<cell>> # Absent
         /\ damages' \in Nat /\ damages' >= damages /\ (damages' = 0 => cell = chunk[r])
<1>1. cell \in Nat /\ damages \in Nat
  BY DEF UploadTypeOK, Chunk, Garbage
<1>2. damages' \in Nat /\ damages' >= damages /\ (damages' = 0 => cell = chunk[r])
  BY <1>1 DEF Received
<1> QED BY <1>1, <1>2, Cells

(* The only chunk is saved under the final name: a request begins with the *)
(* file, or goes on with it.                                               *)
LEMMA SaveFileStep ==
  ASSUME UploadInv, NEW r \in Requests, Others(r), Same, UploadTypeOK', OutsKept(r), chunks = 1,
         pc[r] \in {"save", "write"}, UNCHANGED <<chunk, lock, part, md5digest, twice>>,
         \A q \in Requests : {out[q], out'[q]} \cap {"lock", "part"} = {},
         \/ Begins(r)
         \/ overlap' = overlap /\ Working(r),
         \/ pc'[r] = "write"
         \/ pc'[r] = "digest" /\ out'[r] # "lock",
         file' = file \/ file' \in Seq(Nat), FilesThere',
         /\ damages' = 0 /\ ~overlap'
         => file' \in {<<>>, <<chunk[r]>>} \/ (~overlap /\ file' = file)
  PROVE  UploadInv'
<1>1. chunks' = 1 /\ chunk[r] = 0
  BY DEF UploadInv, UploadTypeOK, Chunk, Same
<1>2. RequestOK(r)' /\ FileRead(r)' /\ ReadClean(r)' /\ Working(r)'
  <2>1. md5digest'[r] = <<>> /\ pc'[r] \in {"write", "digest"} /\ out'[r] \notin {"lock", "part"}
    BY DEF UploadInv, RequestOK
  <2>2. RequestOK(r)'
    BY <1>1, <2>1 DEF RequestOK, Copying, Writing
  <2> QED BY <1>1, <2>1, <2>2 DEF Copying, FileRead, ReadClean, Working
<1>3. GoesOn(r) \/ (Begins(r) /\ Working(r)')
  BY <1>2 DEF GoesOn
<1>4. damages' = 0 => FileClean'
  <2>1. Steps(<<>>, 1) /\ Steps(<<0>>, 1)
    BY CleanIs
  <2>2. damages' = 0 => damages = 0
    BY DEF UploadInv, UploadTypeOK, Same
  <2> QED BY <1>1, <2>1, <2>2 DEF UploadInv, Undamaged, FileClean
<1>5. PartsWhole' /\ LocksWhole' /\ (damages' = 0 => ChunksClean')
  <2>1. ~Writing(r) /\ ~Writing(r)' /\ pc'[r] # "rename"
    BY <1>1 DEF Writing
  <2> QED BY <2>1, ChunksStep
<1> QED BY <1>2, <1>3, <1>4, <1>5, StepOf

(* A chunk is saved under .part.lock, or in the file that was opened under *)
(* that name: the lock is torn while that is going on, and whole after it. *)
LEMMA SaveChunkStep ==
  ASSUME UploadInv, NEW r \in Requests, Others(r), Same, UploadTypeOK', OutsKept(r), chunks > 1,
         pc[r] \in {"save", "write"}, pc'[r] \in {"write", "rename"},
         UNCHANGED <<chunk, file, at, in, md5digest, overlap>>,
         out'[r] # "part", out'[r] = "lock" => pc'[r] = "write", pc'[r] = "write" => out'[r] # "file",
         \A q \in Requests \ {r} : out[q] = "file" => out'[q] = "file",
         \A q \in Requests : out'[q] = "file" => out[q] = "file",
         PartsWhole', LocksWhole', damages' = 0 => ChunksClean'
  PROVE  UploadInv'
<1>1. chunks' > 1 /\ chunks # 1
  BY DEF UploadInv, UploadTypeOK, Same
<1>2. RequestOK(r)' /\ ~Working(r) /\ ~Working(r)'
  BY <1>1 DEF UploadInv, RequestOK, Copying, Writing, Working
<1> QED BY <1>2, AsideStep

(* The file is opened, truncated if it is there. *)
LEMMA SaveOpenStep ==
  ASSUME UploadInv, NEW r \in Requests, SaveOpen(r)
  PROVE  UploadInv'
<1> USE DEF Goes, Set, browser, faults, Truncate
<1> DEFINE c == chunk[r]
<1>1. /\ Others(r) /\ Same /\ pc[r] = "save" /\ pc'[r] = "write"
      /\ UNCHANGED <<chunks, chunk, part, at, in, md5digest, todo, damages>>
      /\ pc' \in [Requests -> Places]
  BY DEF UploadInv, UploadTypeOK, SaveOpen, Others, Same, Places
<1>2. c \in Chunk /\ Chunk' = Chunk /\ out[r] \notin {"lock", "part"} /\ chunks \in Nat
  BY <1>1 DEF UploadInv, UploadTypeOK, RequestOK, Writing, Chunk
<1>3. CASE chunks = 1
  <2>1. /\ file' = <<>> /\ out' = [out EXCEPT ![r] = "file"] /\ Begins(r) /\ UNCHANGED <<lock, twice>>
    BY <1>2, <1>3 DEF SaveOpen
  <2>2. /\ out' \in [Requests -> Names] /\ out'[r] = "file" /\ overlap' \in BOOLEAN
        /\ \A q \in Requests \ {r} : out'[q] = out[q]
    BY <2>1 DEF UploadInv, UploadTypeOK, Names, Begins
  <2>3. UploadTypeOK'
    BY <1>1, <1>2, <2>1, <2>2, Cells DEF UploadInv, UploadTypeOK, Same
  <2>4. OutsKept(r) /\ FilesThere'
    BY <2>1, <2>2, Cells DEF OutsKept, FilesThere
  <2>5. \A q \in Requests : out[q] \notin {"lock", "part"}
    BY <1>3 DEF UploadInv, RequestOK, Writing
  <2> QED BY <1>1, <1>3, <2>1, <2>2, <2>3, <2>4, <2>5, Cells, SaveFileStep
<1>4. CASE chunks > 1
  <2>1. /\ lock' = [lock EXCEPT ![c] = <<>>] /\ out' = [out EXCEPT ![r] = "lock"] /\ SaveTwice(r)
        /\ UNCHANGED <<file, overlap>>
    BY <1>2, <1>4 DEF SaveOpen
  <2>2. /\ out' \in [Requests -> Names] /\ out'[r] = "lock" /\ lock' \in [Chunk -> Seq(Nat) \cup {Absent}]
        /\ \A q \in Requests \ {r} : out'[q] = out[q]
        /\ lock'[c] = <<>> /\ \A i \in Chunk \ {c} : lock'[i] = lock[i]
    BY <1>2, <2>1, Cells DEF UploadInv, UploadTypeOK, Names
  <2>3. UploadTypeOK'
    BY <1>1, <1>2, <2>1, <2>2 DEF UploadInv, UploadTypeOK, Same
  <2>4. OutsKept(r) /\ ~Writing(r) /\ \A i : i \in twice => i \in twice'
    BY <1>1, <2>1, <2>2 DEF OutsKept, Writing, SaveTwice
  <2>5. PartsWhole'
    <3> SUFFICES ASSUME NEW j \in Chunk, part'[j] # Absent, Len(part'[j]) # 1
                 PROVE  j \in twice' /\ (crashes > 0 \/ WriterOf(j, "part")')
      BY <1>1, <1>2 DEF PartsWhole, WriterOf, Same
    <3>1. j \in twice /\ (crashes > 0 \/ WriterOf(j, "part"))
      BY <1>1 DEF UploadInv, PartsWhole, WriterOf
    <3>2. \A q \in Requests : chunk[q] = j /\ out[q] = "part" => out'[q] = "part"
      BY <1>2, <2>2
    <3> QED BY <1>1, <2>4, <3>1, <3>2, WriterStep
  <2>6. LocksWhole'
    <3> SUFFICES ASSUME NEW q \in Requests, (pc[q] = "rename" \/ (Writing(q) /\ out[q] # "lock"))',
                        Torn(lock[chunk[q]])'
                 PROVE  (chunk[q] \in twice /\ WriterOf(chunk[q], "lock"))'
      BY DEF LocksWhole
    <3>1. q # r /\ pc'[q] = pc[q] /\ chunk'[q] = chunk[q] /\ out'[q] = out[q] /\ chunk[q] \in Chunk
      BY <1>1, <2>2 DEF UploadInv, UploadTypeOK, Others
    <3>2. CASE chunk[q] = c
      <4>1. Saving(q, c)
        BY <3>1, <3>2 DEF Saving, Writing
      <4>2. c \in twice'
        BY <2>1, <3>1, <4>1 DEF SaveTwice
      <4> QED BY <1>1, <2>2, <3>1, <3>2, <4>2 DEF WriterOf
    <3>3. CASE chunk[q] # c
      <4>1. chunk[q] \in twice /\ WriterOf(chunk[q], "lock")
        BY <1>1, <2>2, <3>1, <3>3 DEF UploadInv, LocksWhole, Torn, Writing
      <4>2. \A p \in Requests : chunk[p] = chunk[q] /\ out[p] = "lock" => out'[p] = "lock"
        BY <2>2
      <4> QED BY <1>1, <2>4, <3>1, <4>1, <4>2, WriterStep
    <3> QED BY <3>2, <3>3
  <2>7. ASSUME damages' = 0 PROVE ChunksClean'
    BY <1>1, <1>2, <2>2, <2>7 DEF UploadInv, Undamaged, ChunksClean
  <2>8. /\ \A q \in Requests \ {r} : out[q] = "file" => out'[q] = "file"
        /\ \A q \in Requests : out'[q] = "file" => out[q] = "file"
    BY <2>2
  <2> QED BY <1>1, <1>4, <2>1, <2>2, <2>3, <2>4, <2>5, <2>6, <2>7, <2>8, SaveChunkStep
<1> QED BY <1>2, <1>3, <1>4 DEF UploadInv, UploadTypeOK

(* The data arrives in the file, whatever its name is by then. *)
LEMMA SaveWriteStep ==
  ASSUME UploadInv, NEW r \in Requests, SaveWrite(r)
  PROVE  UploadInv'
<1> USE DEF Goes, Set, browser, faults
<1> DEFINE c == chunk[r]
<1>1. PICK cell \in {c, Garbage} :
        /\ Received(r, cell)
        /\ file' = IF out[r] = "file" THEN <<cell>> ELSE file
        /\ lock' = IF out[r] = "lock" THEN [lock EXCEPT ![c] = <<cell>>] ELSE lock
        /\ part' = IF out[r] = "part" THEN [part EXCEPT ![c] = <<cell>>] ELSE part
  BY DEF SaveWrite
<1>2. /\ cell \in Nat /\ <<cell>> \in Seq(Nat) /\ Len(<<cell>>) = 1 /\ <<cell>> # Absent
      /\ damages' \in Nat /\ damages' >= damages /\ (damages' = 0 => cell = c)
  BY <1>1, ReceivedIs DEF UploadInv
<1>3. /\ Others(r) /\ Same /\ pc[r] = "write" /\ pc'[r] = AfterSave /\ pc' \in [Requests -> Places]
      /\ UNCHANGED <<chunks, chunk, at, in, md5digest, todo, overlap, twice>>
      /\ out'[r] = "none" /\ \A q \in Requests \ {r} : out'[q] = out[q]
  BY <1>2 DEF UploadInv, UploadTypeOK, SaveWrite, AfterSave, Others, Same, Places
<1>4. c \in Chunk /\ Chunk' = Chunk /\ chunks \in Nat
  BY <1>3 DEF UploadInv, UploadTypeOK, Chunk
<1>5. UploadTypeOK'
  <2>1. /\ file' \in Seq(Nat) \cup {Absent} /\ lock' \in [Chunk -> Seq(Nat) \cup {Absent}]
        /\ part' \in [Chunk -> Seq(Nat) \cup {Absent}]
    BY <1>1, <1>2, <1>4 DEF UploadInv, UploadTypeOK
  <2>2. out' \in [Requests -> Names]
    BY DEF UploadInv, UploadTypeOK, SaveWrite, Names
  <2> QED BY <1>2, <1>3, <1>4, <2>1, <2>2 DEF UploadInv, UploadTypeOK, Same
<1>6. OutsKept(r)
  BY <1>3 DEF OutsKept
<1>7. CASE chunks = 1
  <2>1. \A q \in Requests : out[q] \notin {"lock", "part"}
    BY <1>7 DEF UploadInv, RequestOK, Writing
  <2>2. UNCHANGED <<lock, part>> /\ pc'[r] = "digest" /\ Working(r)
    BY <1>1, <1>3, <1>7, <2>1 DEF AfterSave, Working
  <2>3. FilesThere' /\ (file' = file \/ file' \in Seq(Nat))
    BY <1>1, <1>2, <1>3 DEF UploadInv, FilesThere
  <2>4. \A q \in Requests : {out[q], out'[q]} \cap {"lock", "part"} = {}
    BY <1>3, <2>1
  <2> QED BY <1>1, <1>2, <1>3, <1>5, <1>6, <1>7, <2>2, <2>3, <2>4, SaveFileStep
<1>8. CASE chunks > 1
  <2>1. Writing(r) /\ out[r] # "file" /\ file' = file /\ pc'[r] = "rename"
    BY <1>1, <1>3, <1>4, <1>8 DEF UploadInv, RequestOK, Writing, AfterSave
  <2>2. ASSUME NEW j \in Chunk, NEW n \in {"lock", "part"}, WriterOf(j, n), j # c \/ out[r] # n
        PROVE  WriterOf(j, n)'
    <3>1. PICK q \in Requests : chunk[q] = j /\ out[q] = n
      BY <2>2 DEF WriterOf
    <3>2. q # r
      BY <2>2, <3>1
    <3> QED BY <1>3, <3>1, <3>2 DEF WriterOf
  <2>3. PartsWhole'
    <3> SUFFICES ASSUME NEW j \in Chunk, part'[j] # Absent, Len(part'[j]) # 1
                 PROVE  j \in twice /\ (crashes > 0 \/ WriterOf(j, "part")')
      BY <1>3, <1>4 DEF PartsWhole, WriterOf, Same
    <3>1. part'[j] = part[j] /\ (j # c \/ out[r] # "part")
      BY <1>1, <1>2, <1>4 DEF UploadInv, UploadTypeOK
    <3>2. j \in twice /\ (crashes > 0 \/ WriterOf(j, "part"))
      BY <3>1 DEF UploadInv, PartsWhole, WriterOf
    <3> QED BY <2>2, <3>1, <3>2
  <2>4. LocksWhole'
    <3> SUFFICES ASSUME NEW q \in Requests, (pc[q] = "rename" \/ (Writing(q) /\ out[q] # "lock"))',
                        Torn(lock[chunk[q]])'
                 PROVE  (chunk[q] \in twice /\ WriterOf(chunk[q], "lock"))'
      BY DEF LocksWhole
    <3> DEFINE j == chunk[q]
    <3>1. j \in Chunk /\ j' = j
      BY <1>3 DEF UploadInv, UploadTypeOK
    <3>2. lock'[j] = lock[j] /\ (j # c \/ out[r] # "lock") /\ Torn(lock[j])
      BY <1>1, <1>2, <1>3, <1>4, <3>1 DEF UploadInv, UploadTypeOK, Torn
    <3>3. pc[q] = "rename" \/ (Writing(q) /\ out[q] # "lock")
      BY <1>3, <2>1, <3>2 DEF Others, Writing
    <3>4. j \in twice /\ WriterOf(j, "lock")
      BY <3>2, <3>3 DEF UploadInv, LocksWhole
    <3> QED BY <1>3, <2>2, <3>1, <3>2, <3>4
  <2>5. ASSUME damages' = 0 PROVE ChunksClean'
    <3>1. damages = 0 /\ cell = c
      BY <1>2, <2>5 DEF UploadInv, UploadTypeOK
    <3> QED BY <1>1, <1>4, <3>1 DEF UploadInv, UploadTypeOK, Undamaged, ChunksClean
  <2>6. /\ \A q \in Requests \ {r} : out[q] = "file" => out'[q] = "file"
        /\ \A q \in Requests : out'[q] = "file" => out[q] = "file"
    BY <1>3
  <2> QED BY <1>3, <1>5, <1>6, <1>8, <2>1, <2>3, <2>4, <2>5, <2>6, SaveChunkStep
<1> QED BY <1>4, <1>7, <1>8 DEF UploadInv, UploadTypeOK

(* The file that was received takes the name. *)
LEMMA SaveMoveStep ==
  ASSUME UploadInv, NEW r \in Requests, SaveMove(r)
  PROVE  UploadInv'
<1> USE DEF Goes, Set, browser, faults
<1> DEFINE c == chunk[r]
<1>1. PICK cell \in {c, Garbage} :
        /\ Received(r, cell)
        /\ \/ chunks = 1 /\ Begins(r) /\ file' = <<cell>> /\ out' = Gone("file")
              /\ UNCHANGED <<lock, twice>>
           \/ /\ chunks > 1 /\ SaveTwice(r)
              /\ lock' = [lock EXCEPT ![c] = <<cell>>] /\ out' = ChunkGone(c, "lock")
              /\ UNCHANGED <<file, overlap>>
  BY DEF SaveMove
<1>2. /\ cell \in Nat /\ <<cell>> \in Seq(Nat) /\ Len(<<cell>>) = 1 /\ <<cell>> # Absent
      /\ damages' \in Nat /\ damages' >= damages /\ (damages' = 0 => cell = c)
  BY <1>1, ReceivedIs DEF UploadInv
<1>3. /\ Others(r) /\ Same /\ pc[r] = "save" /\ pc'[r] = AfterSave /\ pc' \in [Requests -> Places]
      /\ UNCHANGED <<chunks, chunk, part, at, in, md5digest, todo>>
  BY <1>2 DEF UploadInv, UploadTypeOK, SaveMove, AfterSave, Others, Same, Places
<1>4. c \in Chunk /\ Chunk' = Chunk /\ chunks \in Nat /\ ~Writing(r) /\ out[r] \notin {"lock", "part"}
  BY <1>3 DEF UploadInv, UploadTypeOK, RequestOK, Chunk, Writing
<1>5. CASE chunks = 1
  <2>1. /\ Begins(r) /\ file' = <<cell>> /\ UNCHANGED <<lock, twice>> /\ out' = Gone("file")
    BY <1>1, <1>5
  <2>2. \A q \in Requests : out'[q] = IF out[q] = "file" THEN "gone" ELSE out[q]
    BY <2>1 DEF Gone
  <2>3. UploadTypeOK'
    <3>1. out' \in [Requests -> Names] /\ overlap' \in BOOLEAN
      BY <2>1 DEF UploadInv, UploadTypeOK, Gone, Names, Begins
    <3> QED BY <1>2, <1>3, <1>4, <2>1, <3>1 DEF UploadInv, UploadTypeOK, Same
  <2>4. \A q \in Requests : out[q] \notin {"lock", "part"}
    BY <1>5 DEF UploadInv, RequestOK, Writing
  <2>5. /\ OutsKept(r) /\ FilesThere' /\ pc'[r] = "digest" /\ out'[r] # "lock"
        /\ \A q \in Requests : {out[q], out'[q]} \cap {"lock", "part"} = {}
    BY <1>3, <1>5, <2>2, <2>4 DEF OutsKept, FilesThere, AfterSave
  <2> QED BY <1>2, <1>3, <1>5, <2>1, <2>3, <2>5, SaveFileStep
<1>6. CASE chunks > 1
  <2>1. /\ SaveTwice(r) /\ lock' = [lock EXCEPT ![c] = <<cell>>] /\ UNCHANGED <<file, overlap>>
        /\ out' = ChunkGone(c, "lock")
    BY <1>1, <1>4, <1>6
  <2>2. \A q \in Requests : out'[q] = IF chunk[q] = c /\ out[q] = "lock" THEN "gone" ELSE out[q]
    BY <2>1 DEF ChunkGone
  <2>3. UploadTypeOK'
    <3>1. out' \in [Requests -> Names] /\ lock' \in [Chunk -> Seq(Nat) \cup {Absent}]
      BY <1>2, <1>4, <2>1 DEF UploadInv, UploadTypeOK, ChunkGone, Names
    <3> QED BY <1>2, <1>3, <1>4, <2>1, <3>1 DEF UploadInv, UploadTypeOK, Same
  <2>4. \A i : i \in twice => i \in twice'
    BY <2>1 DEF SaveTwice
  <2>5. PartsWhole'
    <3> SUFFICES ASSUME NEW j \in Chunk, part'[j] # Absent, Len(part'[j]) # 1
                 PROVE  j \in twice' /\ (crashes > 0 \/ WriterOf(j, "part")')
      BY <1>3, <1>4 DEF PartsWhole, WriterOf, Same
    <3>1. j \in twice /\ (crashes > 0 \/ WriterOf(j, "part"))
      BY <1>3 DEF UploadInv, PartsWhole, WriterOf
    <3>2. \A q \in Requests : chunk[q] = j /\ out[q] = "part" => out'[q] = "part"
      BY <2>2
    <3> QED BY <1>3, <1>4, <2>4, <3>1, <3>2, WriterStep
  <2>6. LocksWhole'
    <3> SUFFICES ASSUME NEW q \in Requests, (pc[q] = "rename" \/ (Writing(q) /\ out[q] # "lock"))',
                        Torn(lock[chunk[q]])'
                 PROVE  (chunk[q] \in twice /\ WriterOf(chunk[q], "lock"))'
      BY DEF LocksWhole
    <3> DEFINE j == chunk[q]
    <3>1. j \in Chunk /\ j' = j /\ j # c /\ lock'[j] = lock[j] /\ Torn(lock[j]) /\ q # r
      BY <1>2, <1>3, <1>4, <2>1 DEF UploadInv, UploadTypeOK, Torn
    <3>2. pc[q] = "rename" \/ (Writing(q) /\ out[q] # "lock")
      BY <1>3, <2>2, <3>1 DEF Others, Writing
    <3>3. j \in twice /\ WriterOf(j, "lock")
      BY <3>1, <3>2 DEF UploadInv, LocksWhole
    <3>4. \A p \in Requests : chunk[p] = j /\ out[p] = "lock" => out'[p] = "lock"
      BY <2>2, <3>1
    <3> QED BY <1>3, <1>4, <2>4, <3>1, <3>3, <3>4, WriterStep
  <2>7. ASSUME damages' = 0 PROVE ChunksClean'
    <3>1. damages = 0 /\ cell = c
      BY <1>2, <2>7 DEF UploadInv, UploadTypeOK
    <3> QED BY <1>3, <1>4, <2>1, <3>1 DEF UploadInv, UploadTypeOK, Undamaged, ChunksClean
  <2>8. /\ \A q \in Requests \ {r} : out[q] = "file" => out'[q] = "file"
        /\ \A q \in Requests : out'[q] = "file" => out[q] = "file"
        /\ OutsKept(r) /\ out'[r] \in {"none", "file", "gone"} /\ pc'[r] = "rename"
    BY <1>3, <1>4, <1>6, <2>2 DEF UploadInv, UploadTypeOK, OutsKept, AfterSave, Names
  <2> QED BY <1>3, <1>6, <2>1, <2>2, <2>3, <2>5, <2>6, <2>7, <2>8, SaveChunkStep
<1> QED BY <1>4, <1>5, <1>6 DEF UploadInv, UploadTypeOK


(* What the browser does changes nothing on the server. *)
LEMMA BrowserStep ==
  ASSUME UploadInv, \/ AskExists \/ StartAgain \/ GiveUp \/ UNCHANGED vars
                    \/ \E r \in Requests : Break(r) \/ Spin(r)
  PROVE  UploadInv'
<1> USE DEF disk, handler, browser, faults, vars
<1>1. UNCHANGED <<chunks, file, lock, part, pc, chunk, out, at, in, md5digest, overlap, twice,
                  crashes, damages>>
  BY DEF AskExists, StartAgain, GiveUp, Break, Spin
<1>2. todo' \subseteq Chunk /\ Chunk' = Chunk
  BY <1>1 DEF UploadInv, UploadTypeOK, AskExists, StartAgain, GiveUp, Fails, Break, Spin, Chunk
<1>3. UploadTypeOK'
  BY <1>1, <1>2 DEF UploadInv, UploadTypeOK
<1>4. (\A r \in Requests : RequestOK(r))' /\ PartsWhole' /\ LocksWhole' /\ FilesThere'
  BY <1>1, <1>2 DEF UploadInv, RequestOK, Copying, Writing, PartsWhole, LocksWhole, Torn, WriterOf,
                    FilesThere
<1>5. Alone'
  BY <1>1 DEF UploadInv, Alone, Working, FileRead, Copying, Expected
<1>6. Undamaged'
  BY <1>1, <1>2 DEF UploadInv, Undamaged, ChunksClean, FileClean, ReadClean, Steps
<1>7. ExistsIsWhole'
  BY <1>1 DEF UploadInv, ExistsIsWhole, SizeFits, LeftDamaged, Working, Expected
<1> QED BY <1>3, <1>4, <1>5, <1>6, <1>7 DEF UploadInv

(* A crash leaves no request; a file of the right size is then one that    *)
(* nothing was damaged of, and so is the file.                             *)
LEMMA CrashStep ==
  ASSUME UploadInv, Crash
  PROVE  UploadInv'
<1> USE DEF disk
<1>1. /\ UNCHANGED <<chunks, file, lock, part, overlap, twice, damages>> /\ crashes' = crashes + 1
      /\ \A r \in Requests : pc'[r] = "idle" /\ out'[r] = "none" /\ md5digest'[r] = <<>>
  BY DEF Crash
<1>2. crashes \in Nat /\ chunks \in Nat \ {0} /\ Chunk' = Chunk
  BY <1>1 DEF UploadInv, UploadTypeOK, Chunk
<1>3. UploadTypeOK'
  <2>1. 0 \in Chunk
    BY <1>2 DEF Chunk
  <2>2. /\ pc' \in [Requests -> Places] /\ out' \in [Requests -> Names] /\ todo' \subseteq Chunk
        /\ chunk' \in [Requests -> Chunk] /\ at' \in [Requests -> Nat]
        /\ in' \in [Requests -> Seq(Nat)] /\ md5digest' \in [Requests -> Seq(Nat)]
    BY <2>1, Cells DEF UploadInv, UploadTypeOK, Crash, Fails, Places, Names
  <2> QED BY <1>1, <1>2, <2>2 DEF UploadInv, UploadTypeOK
<1>4. (\A r \in Requests : RequestOK(r) /\ FileRead(r) /\ ReadClean(r))' /\ LocksWhole' /\ FilesThere'
  BY <1>1 DEF RequestOK, FileRead, ReadClean, Copying, Writing, LocksWhole, FilesThere
<1>5. PartsWhole'
  BY <1>1, <1>2 DEF UploadInv, PartsWhole
<1>6. Alone'
  BY <1>1, <1>4 DEF Alone, Working
<1>7. Undamaged'
  BY <1>1, <1>2, <1>4 DEF UploadInv, Undamaged, ChunksClean, FileClean
<1>8. ExistsIsWhole'
  <2> SUFFICES ASSUME ~overlap, SizeFits', ~LeftDamaged' PROVE file' = Expected'
    BY <1>1 DEF ExistsIsWhole
  <2>1. damages = 0
    BY <1>1, <1>2 DEF UploadInv, UploadTypeOK, LeftDamaged
  <2>2. file # Absent /\ Len(file) = chunks /\ file \in Seq(Nat)
    BY <1>1 DEF UploadInv, UploadTypeOK, SizeFits
  <2>3. Steps(file, chunks)
    BY <2>1, <2>2 DEF UploadInv, Undamaged, FileClean
  <2>4. file = Expected
    BY <1>2, <2>2, <2>3, CleanIs DEF Expected
  <2> QED BY <1>1, <2>4 DEF Expected
<1> QED BY <1>3, <1>4, <1>5, <1>6, <1>7, <1>8 DEF UploadInv

LEMMA UploadInit == Init => UploadInv
<1> SUFFICES ASSUME Init PROVE UploadInv
  OBVIOUS
<1> USE DEF Init
<1>1. chunks \in Nat \ {0} /\ 0 \in Chunk
  BY UploadAssumption DEF Chunk
<1>2. UploadTypeOK
  BY <1>1, Cells DEF UploadTypeOK, Places, Names
<1>3. /\ \A r \in Requests : RequestOK(r) /\ FileRead(r) /\ ReadClean(r)
      /\ LocksWhole /\ FilesThere /\ PartsWhole
  BY DEF RequestOK, FileRead, ReadClean, Copying, Writing, LocksWhole, FilesThere, PartsWhole
<1>4. Alone /\ Undamaged /\ ExistsIsWhole
  BY <1>3 DEF Alone, Working, Undamaged, ChunksClean, FileClean, ExistsIsWhole, SizeFits
<1> QED BY <1>2, <1>3, <1>4 DEF UploadInv

LEMMA UploadNext == UploadInv /\ [Next]_vars => UploadInv'
<1> SUFFICES ASSUME UploadInv, [Next]_vars PROVE UploadInv'
  OBVIOUS
<1>1. CASE AskExists \/ StartAgain \/ GiveUp \/ UNCHANGED vars
  BY <1>1, BrowserStep
<1>2. CASE Crash
  BY <1>2, CrashStep
<1>3. ASSUME NEW r \in Requests, Send(r) \/ Break(r) \/ Elsewhere(r) \/ Handle(r) \/ Spin(r)
      PROVE  UploadInv'
  <2>1. CASE Break(r) \/ Spin(r)
    BY <2>1, BrowserStep
  <2>2. CASE Send(r) \/ Elsewhere(r)
    BY <2>2, SendStep
  <2>3. CASE SaveOpen(r) \/ SaveWrite(r) \/ SaveMove(r)
    BY <2>3, SaveOpenStep, SaveWriteStep, SaveMoveStep
  <2>4. CASE Digest(r) \/ Rename(r) \/ Check(r) \/ OpenOut(r)
    BY <2>4, DigestStep, RenameStep, CheckStep, OpenOutStep
  <2>5. CASE OpenPart(r) \/ CopyPart(r) \/ UnlinkPart(r)
    BY <2>5, OpenPartStep, CopyPartStep, UnlinkPartStep
  <2>6. CASE Verify(r) \/ Remove(r) \/ Completed(r)
    BY <2>6, VerifyStep, RemoveStep, CompletedStep
  <2> QED BY <1>3, <2>1, <2>2, <2>3, <2>4, <2>5, <2>6 DEF Handle
<1> QED BY <1>1, <1>2, <1>3 DEF Next

LEMMA UploadsHold == Spec => []UploadInv
<1> QED BY UploadInit, UploadNext, PTL DEF Spec

-----------------------------------------------------------------------------
(* A name that ends in .part is that of a whole chunk (file::save_to,      *)
(* upload.cpp), whoever sends it and however often, unless two requests    *)
(* were saving this chunk at once; and then only until the second of them  *)
(* has written its data, if the process is not killed before.              *)
THEOREM PartsAlwaysWhole == Spec => []PartsWhole
<1>1. UploadInv => PartsWhole
  BY DEF UploadInv
<1> QED BY <1>1, UploadsHold, PTL

(* "Upload completed!" is only said of a file with the content that was    *)
(* hashed: when nobody began to put it together while another was at it,   *)
(* whatever was damaged, crashed or was sent twice.                        *)
THEOREM CompletedAlwaysWhole == Spec => []WholeUnlessOverlap
<1>1. UploadInv => WholeUnlessOverlap
  BY DEF UploadInv, Alone, FileRead, WholeUnlessOverlap, CompletedIsWhole
<1> QED BY <1>1, UploadsHold, PTL

(* What is left under the final name with the right size, also by a        *)
(* process that was killed while it put the parts together, is the file:   *)
(* the browser that finds it sends nothing.                                *)
THEOREM ExistingIsWhole == Spec => []ExistsIsWhole
<1>1. UploadInv => ExistsIsWhole
  BY DEF UploadInv
<1> QED BY <1>1, UploadsHold, PTL

=============================================================================
