------------------------------ MODULE FileMove ------------------------------
(***************************************************************************)
(* MoveFileExW: several movers, threads or processes, move files to one    *)
(* target.  Every system call is a step, between any two of which another  *)
(* mover takes its own, somebody else creates or deletes the target, or    *)
(* the mover dies.                                                         *)
(*                                                                         *)
(* A name leads to an inode: that of a source, one of somebody else's      *)
(* (Others), or the copy a mover has made, which is called like the mover. *)
(* The name of a mover's temporary file is its own, chosen by mkostemp.    *)
(***************************************************************************)
EXTENDS Integers

CONSTANTS Movers, Sources, Others, None,
          Tasks,   \* bound: what the movers are asked to do
          Chunks   \* how many pieces the contents of a file are written in

ASSUME MoveAssumption ==
  /\ Chunks \in Nat
  /\ Tasks \subseteq [Movers -> [src : Sources, replace : BOOLEAN, copy : BOOLEAN]]
  /\ Movers \cap (Sources \cup Others \cup {None}) = {}
  /\ Sources \cap (Others \cup {None}) = {}
  /\ None \notin Others

VARIABLES
  job,      \* from, MOVEFILE_REPLACE_EXISTING and MOVEFILE_COPY_ALLOWED
  fs,       \* what the kernel and the file system of the target can do
  place,    \* how far each mover is in the calls it makes
  entry,    \* which name rename and rename_noreplace are given: "from" or "tmp"
  source,   \* the directory entries
  target,
  temp,
  copied,   \* pieces written to each copy
  mode,     \* fchmod and close of the copy succeeded
  denied    \* history: what the kernel refused each mover, "link" or "unlink"

moveVars == <<job, fs, place, entry, source, target, temp, copied, mode, denied>>

\* renameat2 with RENAME_NOREPLACE works, or fails with ENOSYS or EINVAL;
\* sources on another file system.
FileSystems == [noreplace : {"works", "ENOSYS", "EINVAL"}, cross : SUBSET Sources]

MoveInit ==
  /\ job \in Tasks
  /\ fs \in FileSystems
  /\ place = [m \in Movers |-> "rename"]
  /\ entry = [m \in Movers |-> "from"]
  /\ source = [s \in Sources |-> s]
  /\ target \in Others \cup {None}
  /\ temp = [m \in Movers |-> FALSE]
  /\ copied = [m \in Movers |-> 0]
  /\ mode = [m \in Movers |-> FALSE]
  /\ denied = [m \in Movers |-> {}]

Proceed(m, where) == place' = [place EXCEPT ![m] = where]

Denied(m, what) == denied' = [denied EXCEPT ![m] = @ \cup {what}]

\* The inode of the name that is to become the target.
Inode(m) == IF entry[m] = "from" THEN source[job[m].src] ELSE m

Exdev(m) == entry[m] = "from" /\ job[m].src \in fs.cross

\* The name goes.
Unname(m) ==
  IF entry[m] = "from"
  THEN source' = [source EXCEPT ![job[m].src] = None] /\ temp' = temp
  ELSE temp' = [temp EXCEPT ![m] = FALSE] /\ source' = source

\* MoveFileExW after a rename that worked.
Renamed(m) == Proceed(m, IF entry[m] = "from" THEN "moved" ELSE "retire")

\* Mutant of AfterFailure: the copy is left where it is.
AfterFailureLitter(m, err) ==
  IF entry[m] = "from" /\ err = "EXDEV" /\ job[m].copy THEN "look_first" ELSE "refused"

\* MoveFileExW after a rename that failed.
AfterFailure(m, err) ==
  IF entry[m] = "tmp" THEN "drop"
  ELSE IF err = "EXDEV" /\ job[m].copy THEN "look_first" ELSE "refused"

Failed(m, err) ==
  /\ Proceed(m, AfterFailure(m, err))
  /\ UNCHANGED <<job, fs, entry, source, target, temp, copied, mode, denied>>

-----------------------------------------------------------------------------
(* rename, the last resort of rename_noreplace too.  Of two names of one   *)
(* file it makes neither go.                                               *)

RenameCall(m) ==
  \/ Exdev(m) /\ Failed(m, "EXDEV")
  \/ ~Exdev(m) /\ Failed(m, "other")
  \/ /\ ~Exdev(m) /\ Inode(m) # None
     /\ IF Inode(m) = target THEN UNCHANGED <<source, target, temp>>
        ELSE target' = Inode(m) /\ Unname(m)
     /\ Renamed(m)
     /\ UNCHANGED <<job, fs, entry, copied, mode, denied>>

Rename(m) == place[m] = "rename" /\ job[m].replace /\ RenameCall(m)

\* rename_noreplace: renameat2.
RenameAt2(m) ==
  /\ place[m] = "rename" /\ ~job[m].replace
  /\ \/ /\ fs.noreplace = "ENOSYS" \/ (fs.noreplace = "EINVAL" /\ ~Exdev(m) /\ Inode(m) # None /\ target = None)
        /\ Proceed(m, "link")
        /\ UNCHANGED <<job, fs, entry, source, target, temp, copied, mode, denied>>
     \/ fs.noreplace # "ENOSYS" /\ Exdev(m) /\ Failed(m, "EXDEV")
     \/ fs.noreplace # "ENOSYS" /\ ~Exdev(m) /\ Failed(m, "other")
     \/ /\ fs.noreplace = "works" /\ ~Exdev(m) /\ Inode(m) # None /\ target = None
        /\ target' = Inode(m)
        /\ Unname(m)
        /\ Renamed(m)
        /\ UNCHANGED <<job, fs, entry, copied, mode, denied>>

\* link, which fails with EEXIST only if the target is there, and with something
\* else at any time: there are no hard links here, not of a directory, not of
\* somebody else's file, no room for one.
Link(m) ==
  /\ place[m] = "link"
  /\ \/ Inode(m) # None /\ target # None /\ Failed(m, "EEXIST")
     \/ /\ Proceed(m, "lstat")
        /\ IF Exdev(m) THEN denied' = denied ELSE Denied(m, "link")
        /\ UNCHANGED <<job, fs, entry, source, target, temp, copied, mode>>
     \/ /\ Inode(m) # None /\ target = None /\ ~Exdev(m)
        /\ target' = Inode(m)
        /\ Proceed(m, "unlink")
        /\ UNCHANGED <<job, fs, entry, source, temp, copied, mode, denied>>

\* The old name of the hard link, which cannot always be removed; another mover may
\* have moved it away.
Unlink(m) ==
  /\ place[m] = "unlink"
  /\ \/ /\ Inode(m) # None
        /\ Unname(m)
        /\ Renamed(m)
        /\ UNCHANGED <<job, fs, entry, target, copied, mode, denied>>
     \/ /\ Proceed(m, IF entry[m] = "from" THEN "halfway" ELSE "undo")
        /\ UNCHANGED <<job, fs, entry, source, target, temp, copied, mode, denied>>

\* lstat, which may fail although the target is there.
Lstat(m) ==
  /\ place[m] = "lstat"
  /\ \/ target # None /\ Failed(m, "EEXIST")
     \/ /\ Proceed(m, "rename_anyway")
        /\ UNCHANGED <<job, fs, entry, source, target, temp, copied, mode, denied>>

RenameAnyway(m) == place[m] = "rename_anyway" /\ RenameCall(m)

-----------------------------------------------------------------------------
(* Across file systems: copy_beside, and the copy gets the target's name.  *)

LookFirst(m) ==
  /\ place[m] = "look_first"
  /\ (~job[m].replace /\ target # None /\ Proceed(m, "refused")) \/ Proceed(m, "open")
  /\ UNCHANGED <<job, fs, entry, source, target, temp, copied, mode, denied>>

\* open, fstat and mkostemp.
Open(m) ==
  /\ place[m] = "open"
  /\ \/ /\ source[job[m].src] # None
        /\ temp' = [temp EXCEPT ![m] = TRUE]
        /\ Proceed(m, "copy")
     \/ Proceed(m, "refused") /\ temp' = temp
  /\ UNCHANGED <<job, fs, entry, source, target, copied, mode, denied>>

\* Mutant of WriteFailed: an error ends the loop like the end of the file.
WriteFailedOk(m) == "finish"

WriteFailed(m) == "drop"

\* One turn of the loops over read and write: some pieces are written, the
\* file is at its end, or one of the two fails.
CopyPieces(m) ==
  /\ place[m] = "copy"
  /\ \/ \E k \in copied[m] + 1 .. Chunks : copied' = [copied EXCEPT ![m] = k] /\ place' = place
     \/ copied[m] = Chunks /\ Proceed(m, "finish") /\ copied' = copied
     \/ Proceed(m, WriteFailed(m)) /\ copied' = copied
  /\ UNCHANGED <<job, fs, entry, source, target, temp, mode, denied>>

\* fchmod and close.
FinishCopy(m) ==
  /\ place[m] = "finish"
  /\ \/ /\ mode' = [mode EXCEPT ![m] = TRUE]
        /\ entry' = [entry EXCEPT ![m] = "tmp"]
        /\ Proceed(m, "rename")
     \/ Proceed(m, "drop") /\ UNCHANGED <<mode, entry>>
  /\ UNCHANGED <<job, fs, source, target, temp, copied, denied>>

\* unlink(tmp), after a copy that failed or a rename of it that did.  Nobody
\* looks at what it returns.
DropCopy(m) ==
  /\ place[m] \in {"drop", "undo"}
  /\ \/ temp' = [temp EXCEPT ![m] = FALSE] /\ denied' = denied
     \/ Denied(m, "unlink") /\ temp' = temp
  /\ Proceed(m, IF place[m] = "drop" THEN "refused" ELSE "halfway")
  /\ UNCHANGED <<job, fs, entry, source, target, copied, mode>>

\* unlink(fp), which fails if the file is gone or its directory is read-only.
UnlinkSource(m) ==
  /\ place[m] = "retire"
  /\ \/ /\ source[job[m].src] # None
        /\ source' = [source EXCEPT ![job[m].src] = None]
        /\ Proceed(m, "moved")
     \/ Proceed(m, "halfway") /\ source' = source
  /\ UNCHANGED <<job, fs, entry, target, temp, copied, mode, denied>>

-----------------------------------------------------------------------------
Answered == {"moved", "refused", "halfway"}

Die(m) ==
  /\ place[m] \notin Answered \cup {"dead"}
  /\ Proceed(m, "dead")
  /\ UNCHANGED <<job, fs, entry, source, target, temp, copied, mode, denied>>

\* Somebody else creates the target, or deletes it.
Elsewhere ==
  /\ \/ target = None /\ target' \in Others
     \/ target # None /\ target' = None
  /\ UNCHANGED <<job, fs, place, entry, source, temp, copied, mode, denied>>

MoveStep(m) ==
  \/ Rename(m) \/ RenameAt2(m) \/ Link(m) \/ Unlink(m) \/ Lstat(m) \/ RenameAnyway(m)
  \/ LookFirst(m) \/ Open(m) \/ CopyPieces(m) \/ FinishCopy(m) \/ DropCopy(m) \/ UnlinkSource(m)

MoveNext == (\E m \in Movers : MoveStep(m) \/ Die(m)) \/ Elsewhere

MoveSpec == MoveInit /\ [][MoveNext]_moveVars

-----------------------------------------------------------------------------
(* Properties.                                                             *)

\* What a reader of an inode finds.  Partial: a copy that is not finished.
Contents(i) == IF i \in Movers THEN IF copied[i] = Chunks /\ mode[i] THEN job[i].src ELSE <<"partial", i>> ELSE i

\* What has been done of a move whose mover has come that far.
StageAt(where) ==
  CASE where \in Answered \cup {"dead"}      -> where
    [] where \in {"unlink", "undo", "retire"} -> "placed"
    [] OTHER                                -> "asked"

Promise == INSTANCE AtomicMove WITH
  job     <- [m \in Movers |-> [src |-> job[m].src, replace |-> job[m].replace]],
  guarded <- fs.noreplace = "works",
  stage   <- [m \in Movers |-> StageAt(place[m])],
  source  <- [s \in Sources |-> Contents(source[s])],
  target  <- Contents(target),
  beside  <- {m \in Movers : temp[m]}

(* However the moves interleave, whatever system call fails and wherever a *)
(* mover dies: "without it the target must not be there, also when it turns*)
(* up meanwhile" and "an unfinished copy is never the target"              *)
(* (shim_kernel32_tail.hpp:340), a source is deleted only once the target  *)
(* is its file, and a move that has returned leaves no temporary file      *)
(* beside the target.  There are two exceptions: where RENAME_NOREPLACE is *)
(* not to be had and the mover's hard link was refused too, the target may *)
(* be replaced unasked; and a temporary file stays that the kernel refused *)
(* to remove.                                                              *)
ImplementsAtomicMove == Promise!Spec

=============================================================================
