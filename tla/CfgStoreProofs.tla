--------------------------- MODULE CfgStoreProofs ---------------------------
(***************************************************************************)
(* What a crash may cost a configuration file, for every set of            *)
(* configurations, any number of crashes and with or without a full disk   *)
(* (CfgStore).                                                             *)
(***************************************************************************)
EXTENDS CfgStore, TLAPS

-----------------------------------------------------------------------------
(* The inductive invariant, by where save_cfg or a removal stands.  All but *)
(* the types hold only until a file was closed with something else than was *)
(* to be written, or the backup that boot had used was lost.                *)

\* Between operations a file that cannot be read was noticed at boot.
AtRest ==
    pc = "idle" => Load(file, bak) = mem /\ (file \in Broken => fellback)

\* Before the file is touched: what was read is what is in force, unless it is
\* torn and this boot lived on the backup.
BeforeFile ==
    /\ pc \in {"open_bak", "write_bak", "open_file"} =>
           /\ held = file
           /\ file \in Broken => fellback
           /\ file # "torn" => Value(file) = mem
    /\ pc = "open_bak" => Load(file, bak) = mem

\* Copying ends with the backup equal to the file, if there was one.
Copied ==
    /\ pc \in {"open_bak", "write_bak"} => held # "absent"
    /\ pc = "open_file" /\ held # "absent" => bak = held

\* A removal has taken the file first.
HalfRemoved == pc = "remove_bak" => file = "absent" /\ new = None

\* What the next boot will find.
AfterCrash ==
    pc = "down" /\ ~fellback /\ ~Stale => Load(file, bak) \in {mem, new} \/ file = "empty"

Agreed == AtRest /\ BeforeFile /\ Copied /\ BackupGood /\ HalfRemoved /\ AfterCrash

Saving == pc \in {"open_bak", "write_bak", "open_file", "write_file"} => new \in Conf

IInv == TypeOK /\ Saving /\ (~spoilt => Agreed)

-----------------------------------------------------------------------------
LEMMA Strings ==
    /\ None \notin Conf /\ "absent" \notin Conf /\ "empty" \notin Conf /\ "torn" \notin Conf
    /\ Conf \subseteq Content /\ Broken \subseteq Content /\ "absent" \in Content
BY ConfAssumption DEF None, Content, Broken

\* What load_cfg returns is a configuration or none.
LEMMA LoadTyped ==
    ASSUME NEW f, NEW b
    PROVE  Load(f, b) \in Conf \cup {None} /\ Value(f) \in Conf \cup {None}
BY DEF Load, Value

\* What is closed is something a file may hold.
LEMMA WrittenTyped ==
    ASSUME NEW t \in Content
    PROVE  Written(t) \subseteq Content
BY Strings DEF Written

LEMMA TextTyped ==
    ASSUME NEW c \in Conf
    PROVE  Text(c) \in Content
BY Strings DEF Text, Content

LEMMA InitInv == Init => IInv
<1> SUFFICES ASSUME Init PROVE IInv
  OBVIOUS
<1>1. TypeOK
  BY Strings DEF Init, TypeOK
<1>2. Load(file, bak) = mem /\ file \notin Broken
  BY Strings DEF Init, Load, Value, Broken
<1> QED BY <1>1, <1>2 DEF Init, IInv, Saving, Agreed, AtRest, BeforeFile, Copied, BackupGood,
           HalfRemoved, AfterCrash

-----------------------------------------------------------------------------
LEMMA NextTypes ==
    ASSUME IInv, [Next]_vars
    PROVE  TypeOK' /\ Saving'
<1>1. TypeOK /\ Saving
  BY DEF IInv
<1>2. ASSUME NEW c \in Conf, Save(c) PROVE TypeOK' /\ Saving'
  BY <1>1, <1>2 DEF Save, FirstStep, TypeOK, Saving
<1>3. CASE OpenBak \/ OpenFile \/ OpenFails
  BY <1>1, <1>3, Strings DEF OpenBak, OpenFile, OpenFails, TypeOK, Saving, Broken
<1>4. CASE WriteBak
  <2>1. bak' \in Content
    BY <1>1, <1>4, WrittenTyped DEF WriteBak, TypeOK
  <2> QED BY <1>1, <1>4, <2>1 DEF WriteBak, TypeOK, Saving
<1>5. CASE WriteFile
  <2>1. new \in Conf
    BY <1>1, <1>5 DEF WriteFile, Saving
  <2>2. file' \in Content
    BY <1>5, <2>1, WrittenTyped, TextTyped DEF WriteFile
  <2> QED BY <1>1, <1>5, <2>1, <2>2 DEF WriteFile, TypeOK, Saving
<1>6. CASE Remove \/ RemoveBak
  BY <1>1, <1>6, Strings DEF Remove, RemoveBak, TypeOK, Saving
<1>7. CASE Crash
  <2>1. bak' \in Content
    BY <1>1, <1>7, Strings DEF Crash, TypeOK
  <2>2. file' \in Content
    <3>1. CASE pc = "write_file"
      <4>1. new \in Conf
        BY <1>1, <3>1 DEF Saving
      <4> QED BY <1>7, <3>1, <4>1, Strings, TextTyped DEF Crash
    <3>2. CASE pc # "write_file"
      BY <1>1, <1>7, <3>2 DEF Crash, TypeOK
    <3> QED BY <3>1, <3>2
  <2> QED BY <1>1, <1>7, <2>1, <2>2 DEF Crash, TypeOK, Saving
<1>8. CASE Boot
  BY <1>1, <1>8, LoadTyped DEF Boot, TypeOK, Saving
<1>9. CASE UNCHANGED vars
  BY <1>1, <1>9 DEF vars, TypeOK, Saving
<1> QED BY <1>2, <1>3, <1>4, <1>5, <1>6, <1>7, <1>8, <1>9 DEF Next

\* The steps of save_cfg.
LEMMA SaveAgrees ==
    ASSUME IInv, ~spoilt', (\E c \in Conf : Save(c)) \/ OpenBak \/ WriteBak \/ OpenFile \/ WriteFile
    PROVE  Agreed'
<1>1. Agreed /\ TypeOK /\ Saving
  BY DEF IInv, Save, OpenBak, WriteBak, OpenFile, WriteFile
<1>2. ASSUME NEW c \in Conf, Save(c) PROVE Agreed'
  BY <1>1, <1>2 DEF Save, FirstStep, Agreed, AtRest, BeforeFile, Copied, BackupGood,
       HalfRemoved, AfterCrash, Load, Broken
<1>3. CASE OpenBak
  BY <1>1, <1>3 DEF OpenBak, Agreed, AtRest, BeforeFile, Copied, BackupGood,
       HalfRemoved, AfterCrash
<1>4. CASE WriteBak
  BY <1>1, <1>4 DEF WriteBak, Agreed, AtRest, BeforeFile, Copied, BackupGood,
       HalfRemoved, AfterCrash
<1>5. CASE OpenFile
  <2>1. ~fellback => IF held = "absent" THEN mem = None ELSE bak = mem
    BY <1>1, <1>5, Strings DEF OpenFile, Agreed, BeforeFile, Copied, Value, TypeOK, Content, Broken
  <2> QED BY <1>5, <2>1 DEF OpenFile, Agreed, AtRest, BeforeFile, Copied, BackupGood,
             HalfRemoved, AfterCrash
<1>6. CASE WriteFile
  <2>1. file' = new /\ new \in Conf
    BY <1>1, <1>6 DEF WriteFile, Saving
  <2>2. Load(file', bak') = mem' /\ file' \notin Broken
    BY <1>6, <2>1, Strings DEF WriteFile, Load, Value, Broken
  <2> QED BY <1>6, <2>1, <2>2 DEF WriteFile, Agreed, AtRest, BeforeFile, Copied, BackupGood,
             HalfRemoved, AfterCrash
<1> QED BY <1>2, <1>3, <1>4, <1>5, <1>6

\* A crash in any of them leaves what boot can use.
LEMMA CrashAgrees ==
    ASSUME IInv, ~spoilt', Crash
    PROVE  Agreed'
<1>1. Agreed /\ TypeOK /\ Saving /\ pc' = "down"
  BY DEF IInv, Crash
<1>2. ASSUME ~fellback', ~Stale' PROVE Load(file', bak') \in {mem', new'} \/ file' = "empty"
  <2>1. mem' = mem /\ held' = held /\ ~fellback
    BY <1>2 DEF Crash
  <2>2. CASE pc = "idle"
    BY <1>1, <2>1, <2>2 DEF Crash, Agreed, AtRest
  <2>3. CASE pc \in {"open_bak", "write_bak", "open_file"}
    <3>1. file' = file /\ file \notin Broken /\ Value(file) = mem
      BY <1>1, <2>1, <2>3 DEF Crash, Agreed, BeforeFile, Broken
    <3> QED BY <2>1, <3>1 DEF Load, Broken
  <2>4. CASE pc = "write_file"
    <3>1. IF held = "absent" THEN mem = None ELSE bak = mem
      BY <1>1, <2>1, <2>4 DEF Agreed, BackupGood, Crash
    <3>2. bak' = bak /\ new' = new /\ file' \in {Text(new)} \cup Broken
      BY <2>4 DEF Crash
    <3>3. CASE file' = "torn"
      <4>1. Load(file', bak') = Value(bak)
        BY <3>2, <3>3 DEF Load
      <4>2. CASE held = "absent"
        <5>1. bak = "absent" /\ Value(bak) = None
          BY <1>2, <2>1, <3>2, <4>2, Strings DEF Stale, Value
        <5> QED BY <2>1, <3>1, <4>1, <4>2, <5>1
      <4>3. CASE held # "absent"
        BY <1>1, <2>1, <3>1, <4>1, <4>3, Strings DEF Value, TypeOK, Content, None
      <4> QED BY <4>2, <4>3
    <3>4. CASE file' # "torn" /\ file' # "empty"
      <4>1. file' = new /\ new \in Conf
        BY <1>1, <2>4, <3>2, <3>4 DEF Text, Broken, Saving
      <4> QED BY <3>2, <3>4, <4>1 DEF Load, Value
    <3> QED BY <3>3, <3>4
  <2>5. CASE pc = "remove_bak"
    BY <1>1, <2>5, Strings DEF Crash, Agreed, HalfRemoved, Load, Value
  <2> QED BY <1>1, <2>2, <2>3, <2>4, <2>5 DEF TypeOK, Crash
<1> QED BY <1>1, <1>2 DEF Agreed, AtRest, BeforeFile, Copied, BackupGood, HalfRemoved, AfterCrash

LEMMA NextAgrees ==
    ASSUME IInv, [Next]_vars, ~spoilt'
    PROVE  Agreed'
<1>1. CASE Remove \/ RemoveBak
  BY <1>1, Strings DEF Remove, RemoveBak, IInv, Agreed, AtRest, BeforeFile, Copied, BackupGood,
       HalfRemoved, AfterCrash, Load, Value, Broken
<1>2. CASE Boot
  BY <1>2 DEF Boot, Agreed, AtRest, BeforeFile, Copied, BackupGood, HalfRemoved, AfterCrash
<1>3. CASE OpenFails
  <2>1. Agreed /\ UNCHANGED <<file, bak, mem, fellback>> /\ pc' = "idle"
    BY <1>3 DEF OpenFails, IInv
  <2>2. file \in Broken => fellback
    BY <1>3, <2>1 DEF OpenFails, Agreed, BeforeFile
  <2>3. Load(file, bak) = mem
    BY <1>3, <2>1 DEF OpenFails, Agreed, BeforeFile, Load
  <2> QED BY <2>1, <2>2, <2>3 DEF Agreed, AtRest, BeforeFile, Copied, BackupGood, HalfRemoved,
             AfterCrash
<1>4. CASE UNCHANGED vars
  BY <1>4 DEF vars, IInv, Agreed, AtRest, BeforeFile, Copied, BackupGood, HalfRemoved,
       AfterCrash, Stale
<1> QED BY <1>1, <1>2, <1>3, <1>4, SaveAgrees, CrashAgrees DEF Next

LEMMA Inductive == Spec => []IInv
<1>1. IInv /\ [Next]_vars => IInv'
  BY NextTypes, NextAgrees DEF IInv
<1> QED BY <1>1, InitInv, PTL DEF Spec

-----------------------------------------------------------------------------
\* Between operations the file, read as boot would read it, says what sysmgr's
\* cfg says (save_cfg, load_cfg).
THEOREM DiskAgrees == Spec => []DiskInv
<1>1. IInv => DiskInv
  BY DEF IInv, DiskInv, Kept, Agreed, AtRest
<1> QED BY <1>1, Inductive, PTL

\* While the file is open for writing the backup holds the configuration in
\* force (save_cfg's backup).
THEOREM BackupKept == Spec => []BackupGood
<1>1. IInv => BackupGood
  BY DEF IInv, Agreed, BackupGood
<1> QED BY <1>1, Inductive, PTL

\* After a crash anywhere boot finds the configuration of before or of after
\* what was interrupted, or an empty file (load_cfg).
THEOREM CrashCosts == Spec => OldNewOrEmpty
<1>1. IInv /\ [Next]_vars =>
        [pc = "down" /\ pc' = "idle" /\ ~fellback /\ ~spoilt /\ ~Stale =>
            mem' \in {mem, new} \/ file = "empty"]_vars
  BY DEF IInv, Agreed, AfterCrash, Next, Save, OpenBak, WriteBak, OpenFile, WriteFile, OpenFails,
      Remove, RemoveBak, Crash, Boot
<1> QED BY <1>1, Inductive, PTL DEF Spec, OldNewOrEmpty
=============================================================================
