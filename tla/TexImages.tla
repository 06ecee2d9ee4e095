------------------------------ MODULE TexImages ------------------------------
(***************************************************************************)
(* tex_to_gif (apps/basic_master.cpp): the image of a formula is made once *)
(* and kept under the hash of its text.  Each request makes it under a     *)
(* random name and moves it to its place, by rename or, if the temporary   *)
(* directory is on another device, by copying.  This is about one formula. *)
(***************************************************************************)
EXTENDS Naturals, FiniteSets

CONSTANTS Requests, Inodes, MaxCrashes, Absent

ASSUME CrashesAssumption == MaxCrashes \in Nat

VARIABLES same,      \* both directories are on one device
          gif,       \* the inode at the final name
          whole,     \* the inodes that have the whole image
          tmp,       \* requests whose temporary files exist; "gif" if the image does
          pc, out,   \* where a request stands; the inode it copies to
          crashes

vars == <<same, gif, whole, tmp, pc, out, crashes>>

Goes(r, from, to) == pc[r] = from /\ pc' = [pc EXCEPT ![r] = to]
Free == {f \in Inodes : f # gif /\ \A r \in Requests : out[r] # f}

-----------------------------------------------------------------------------
(* convert: an image that is there is used as it is. *)
Stat(r) ==
    /\ \/ gif # Absent /\ Goes(r, "idle", "shown")
       \/ gif = Absent /\ Goes(r, "idle", "latex")
    /\ UNCHANGED <<same, gif, whole, tmp, out, crashes>>

(* create_gif: latex, dvigif. *)
Spawn(r) ==
    /\ \/ Goes(r, "latex", "dvigif") /\ tmp' = [tmp EXCEPT ![r] = "dvi"]
       \/ Goes(r, "dvigif", "move") /\ tmp' = [tmp EXCEPT ![r] = "gif"]
    /\ UNCHANGED <<same, gif, whole, out, crashes>>

(* scoped_clean, whichever way the function is left. *)
Clean(r) == tmp' = [tmp EXCEPT ![r] = "none"]
SpawnFails(r) ==
    /\ \/ Goes(r, "latex", "failed") \/ Goes(r, "dvigif", "failed")
    /\ Clean(r)
    /\ UNCHANGED <<same, gif, whole, out, crashes>>

RenameCopies(r) ==  \* variant that never renames
    /\ Goes(r, "move", "copy") /\ UNCHANGED <<same, gif, whole, tmp, out, crashes>>
Rename(r) ==
    /\ \/ /\ same /\ Goes(r, "move", "shown")
          /\ \E f \in Free : gif' = f /\ whole' = whole \cup {f}
          /\ Clean(r)
       \/ ~same /\ Goes(r, "move", "copy") /\ UNCHANGED <<gif, whole, tmp>>
    /\ UNCHANGED <<same, out, crashes>>

(* The copy: the final name is there, and empty, before the data is. *)
CopyOpen(r) ==
    /\ Goes(r, "copy", "write")
    /\ \E f \in IF gif = Absent THEN Free ELSE {gif} :
         /\ gif' = f /\ whole' = whole \ {f}
         /\ out' = [out EXCEPT ![r] = f]
    /\ UNCHANGED <<same, tmp, crashes>>
CopyWrite(r) ==
    /\ Goes(r, "write", "shown")
    /\ whole' = whole \cup {out[r]}
    /\ out' = [out EXCEPT ![r] = Absent]
    /\ Clean(r)
    /\ UNCHANGED <<same, gif, crashes>>
CopyFailsKeeps(r) ==  \* variant that leaves what could be written
    /\ Goes(r, "write", "failed")
    /\ out' = [out EXCEPT ![r] = Absent]
    /\ Clean(r)
    /\ UNCHANGED <<same, gif, whole, crashes>>
CopyFails(r) ==
    /\ Goes(r, "write", "failed")
    /\ gif' = Absent
    /\ out' = [out EXCEPT ![r] = Absent]
    /\ Clean(r)
    /\ UNCHANGED <<same, whole, crashes>>

(* The page goes out, with the image or with the text of the formula. *)
Answer(r) ==
    /\ Goes(r, "shown", "idle") \/ Goes(r, "failed", "idle")
    /\ UNCHANGED <<same, gif, whole, tmp, out, crashes>>

Crash ==
    /\ crashes < MaxCrashes /\ crashes' = crashes + 1
    /\ pc' = [r \in Requests |-> "idle"] /\ out' = [r \in Requests |-> Absent]
    /\ UNCHANGED <<same, gif, whole, tmp>>

Init ==
    /\ same \in BOOLEAN /\ gif = Absent /\ whole = {} /\ crashes = 0
    /\ tmp = [r \in Requests |-> "none"] /\ pc = [r \in Requests |-> "idle"]
    /\ out = [r \in Requests |-> Absent]
Next ==
    \/ \E r \in Requests : \/ Stat(r) \/ Spawn(r) \/ SpawnFails(r) \/ Rename(r) \/ CopyOpen(r)
                           \/ CopyWrite(r) \/ CopyFails(r) \/ Answer(r)
    \/ Crash
Spec == Init /\ [][Next]_vars

-----------------------------------------------------------------------------
(* On one device, the image that a page refers to is there and whole, also *)
(* when two requests make it at once or the process was killed.            *)
ShownIsWhole == \A r \in Requests : same /\ pc[r] = "shown" => gif \in whole

(* Without a crash, an image that no request is working on is whole: a     *)
(* copy that failed does not stay to be shown for ever.                    *)
KeptIsWhole ==
    crashes = 0 /\ gif # Absent /\ (\A r \in Requests : pc[r] # "write") => gif \in whole

=============================================================================
