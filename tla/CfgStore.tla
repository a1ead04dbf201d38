------------------------------ MODULE CfgStore ------------------------------
(***************************************************************************)
(* How sysmgr (service/sysmgr.lua) keeps one configuration on disk: an     *)
(* APP's, the PIPE list or the repository, each a file with a ".bak" file  *)
(* beside it.  save_cfg copies the file to the backup and writes the file  *)
(* anew; load_cfg reads the file, or the backup if the file does not run   *)
(* as Lua.                                                                 *)
(*                                                                         *)
(* io.open(.., "w") empties the file at once; what is written reaches it   *)
(* when it is closed.  The process may die between any two of these        *)
(* steps, and while a file is written, which leaves it torn.  The disk may *)
(* be full: write and close then return an error that save_cfg does not    *)
(* look at.                                                                *)
(***************************************************************************)
EXTENDS Naturals

CONSTANTS
    Conf,       \* configurations
    Hard,       \* those dump.lua does not write as valid Lua: a quote in a
                \* value, a reserved word for a key
    IsApp,      \* is it an APP's (update_app) or the PIPE list (update_pipes)
    MaxCrash,   \* bound: crashes
    Full        \* may the disk be full

ASSUME ConfAssumption == Hard \subseteq Conf /\ {"absent", "empty", "torn", "none"} \cap Conf = {}
ASSUME FlagAssumption == MaxCrash \in Nat /\ Full \in BOOLEAN /\ IsApp \in BOOLEAN

None == "none"
Content == Conf \cup {"absent", "empty", "torn"}
Broken == {"empty", "torn"}

VARIABLES
    file,      \* the file
    bak,       \* its backup
    pc,        \* what save_cfg or a removal does next
    held,      \* what backup has read
    new,       \* what is being saved, None for a removal
    mem,       \* sysmgr's cfg
    fellback,  \* the last boot used the backup, and nothing was saved since
    spoilt,    \* a file was once closed with something else than was to be
               \* written, or the backup that boot had used was lost
    crashes

vars == <<file, bak, pc, held, new, mem, fellback, spoilt, crashes>>

-----------------------------------------------------------------------------
\* What the text of a configuration is when it is run.
Text(c) == IF c \in Hard THEN "torn" ELSE c

\* What reaches a file opened for writing that is closed: all of it, or, on a
\* full disk, some or nothing.
Written(t) == {t} \cup (IF Full THEN Broken ELSE {})

\* load_cfg.  An empty file is a Lua program that defines nothing; a backup
\* is not looked at unless the file is there.
Value(t) == IF t \in Conf THEN t ELSE None
\* Wrong: the backup is never read.
LoadFile(f, b) == Value(f)
Load(f, b) == IF f = "torn" THEN Value(b) ELSE Value(f)

-----------------------------------------------------------------------------
(* save_cfg *)

\* The file is opened to be copied, or there is none.
\* Wrong: the file is written without a backup.
NoBackup == "open_file"
FirstStep == IF file = "absent" THEN "open_file" ELSE "open_bak"
Save(c) ==
    /\ pc = "idle"
    /\ new' = c
    /\ held' = file
    /\ pc' = FirstStep
    /\ UNCHANGED <<file, bak, mem, fellback, spoilt, crashes>>

OpenBak ==
    /\ pc = "open_bak"
    /\ bak' = "empty"
    /\ pc' = "write_bak"
    /\ UNCHANGED <<file, held, new, mem, fellback, spoilt, crashes>>

WriteBak ==
    /\ pc = "write_bak"
    /\ bak' \in Written(held)
    /\ spoilt' = (spoilt \/ bak' # held)
    /\ pc' = "open_file"
    /\ UNCHANGED <<file, held, new, mem, fellback, crashes>>

OpenFile ==
    /\ pc = "open_file"
    /\ file' = "empty"
    /\ pc' = "write_file"
    /\ UNCHANGED <<bak, held, new, mem, fellback, spoilt, crashes>>

\* The file is closed; the save is reported a success, and cfg follows.
\* Wrong: cfg stays.
WriteOnly ==
    /\ pc = "write_file"
    /\ file' \in Written(Text(new))
    /\ spoilt' = (spoilt \/ file' # new)
    /\ fellback' = FALSE
    /\ pc' = "idle"
    /\ UNCHANGED <<bak, held, new, mem, crashes>>
WriteFile ==
    /\ pc = "write_file"
    /\ file' \in Written(Text(new))
    /\ spoilt' = (spoilt \/ file' # new)
    /\ mem' = new
    /\ fellback' = FALSE
    /\ pc' = "idle"
    /\ UNCHANGED <<bak, held, new, crashes>>

\* io.open fails: save_cfg reports it, no file changes and cfg stays.  A torn
\* file, which boot could not read, has been copied over the backup by then.
OpenFails ==
    /\ Full
    /\ pc \in {"open_bak", "open_file"}
    /\ pc' = "idle"
    /\ spoilt' = (spoilt \/ (pc = "open_file" /\ file = "torn"))
    /\ UNCHANGED <<file, bak, held, new, mem, fellback, crashes>>

-----------------------------------------------------------------------------
(* update_app without a configuration, update_pipes with an empty list: the *)
(* file is removed, then its backup.  Only update_app asks whether there is *)
(* anything to remove.                                                      *)

Remove ==
    /\ pc = "idle"
    /\ IsApp => mem # None
    /\ new' = None
    /\ file' = "absent"
    /\ pc' = "remove_bak"
    /\ UNCHANGED <<bak, held, mem, fellback, spoilt, crashes>>

RemoveBak ==
    /\ pc = "remove_bak"
    /\ bak' = "absent"
    /\ mem' = None
    /\ fellback' = FALSE
    /\ pc' = "idle"
    /\ UNCHANGED <<file, held, new, spoilt, crashes>>

-----------------------------------------------------------------------------
\* The process dies; a file being written is left empty, torn or whole.
Crash ==
    /\ pc # "down"
    /\ crashes < MaxCrash
    /\ crashes' = crashes + 1
    /\ pc' = "down"
    /\ bak' \in IF pc = "write_bak" THEN {held} \cup Broken ELSE {bak}
    /\ file' \in IF pc = "write_file" THEN {Text(new)} \cup Broken ELSE {file}
    /\ new' = IF pc = "idle" THEN mem ELSE new
    /\ UNCHANGED <<held, mem, fellback, spoilt>>

\* The next process: load_all.
Boot ==
    /\ pc = "down"
    /\ pc' = "idle"
    /\ mem' = Load(file, bak)
    /\ fellback' = (file \in Broken)
    /\ UNCHANGED <<file, bak, held, new, spoilt, crashes>>

Init ==
    /\ file = "absent" /\ bak = "absent"
    /\ pc = "idle"
    /\ held = "absent" /\ new = None /\ mem = None
    /\ fellback = FALSE /\ spoilt = FALSE
    /\ crashes = 0

Next ==
    \/ \E c \in Conf : Save(c)
    \/ OpenBak \/ WriteBak \/ OpenFile \/ WriteFile \/ OpenFails
    \/ Remove \/ RemoveBak
    \/ Crash \/ Boot

Spec == Init /\ [][Next]_vars

-----------------------------------------------------------------------------
(* Properties *)

TypeOK ==
    /\ file \in Content /\ bak \in Content /\ held \in Content
    /\ pc \in {"idle", "open_bak", "write_bak", "open_file", "write_file", "remove_bak", "down"}
    /\ new \in Conf \cup {None} /\ mem \in Conf \cup {None}
    /\ fellback \in BOOLEAN /\ spoilt \in BOOLEAN
    /\ crashes \in Nat

\* Between operations the disk says what memory says, through any number of
\* crashes: a boot right then changes nothing.
Kept == pc = "idle" /\ ~spoilt => Load(file, bak) = mem

\* The operations under way are well-formed, and agree with the disk.
DiskInv == TypeOK /\ Kept

\* While the file is open for writing, and empty or torn to whoever reads it,
\* the backup holds the configuration in force -- unless this boot itself
\* lived on the backup: the broken file has then been copied over it.
BackupGood ==
    pc = "write_file" /\ ~fellback /\ ~spoilt =>
        IF held = "absent" THEN mem = None ELSE bak = mem

\* A crash between the two removals leaves a backup without a file; no save
\* replaces it until there is a file again.
Stale == held = "absent" /\ bak # "absent"

\* A crash anywhere in a save or a removal leaves the configuration of before
\* it or of after it -- or an empty file, which boot takes for no
\* configuration.
OldNewOrEmpty ==
    [][pc = "down" /\ pc' = "idle" /\ ~fellback /\ ~spoilt /\ ~Stale =>
           mem' \in {mem, new} \/ file = "empty"]_vars

\* What load_cfg and its backup are for: after a crash boot finds the
\* configuration of before or of after the interrupted operation.
OldOrNew == [][pc = "down" /\ pc' = "idle" => mem' \in {mem, new}]_vars

\* "config updated": a save that is reported a success is what a boot right
\* after it loads.  The code does not keep this on a full disk, nor for a
\* configuration in Hard.
Saved == [][pc = "write_file" /\ pc' = "idle" => Load(file', bak') = mem']_vars

=============================================================================
