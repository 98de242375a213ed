--------------------------- MODULE StartUpProofs ---------------------------
(***************************************************************************)
(* Proofs about StartUp, for any number of processes, keys, rules and      *)
(* edits.                                                                  *)
(***************************************************************************)
EXTENDS StartUp, TLAPS

(* The configuration that is saved is the default one. *)
SavesDefaults ==
    \A p \in Procs :
        phase[p] \in {"saving", "writing"} \/ (phase[p] = "testing" /\ configFile = "absent")
          => config[p] = "defaults"

TypeInv == TypeOK /\ SavesDefaults

LEMMA TypeInit == Init => TypeInv
BY SeedAssumption, FileAssumption
DEF Init, TypeInv, SavesDefaults, TypeOK, ConfigFiles, KeyFiles, Configs, Phases

LEMMA TypeNext == TypeInv /\ [Next]_vars => TypeInv'
<1> SUFFICES ASSUME TypeInv, [Next]_vars PROVE TypeInv'
  OBVIOUS
<1> USE SeedAssumption, FileAssumption
    DEF TypeInv, SavesDefaults, TypeOK, disk, Go, ConfigFiles, KeyFiles, Configs, Phases,
        Starting, Failed, Upsets
<1>1. ASSUME NEW p \in Procs, Begin(p) PROVE TypeInv'
  BY <1>1 DEF Begin, NoteIf
<1>2. ASSUME NEW p \in Procs, StartStep(p) PROVE TypeInv'
  <2>1. CASE OpenDatabase(p) \/ Migrate(p) \/ MigrateFails(p)
    <3>1. \E there \in {"migrating", "configuring", "noDatabase"} :
              phase' = [phase EXCEPT ![p] = there]
      BY <2>1 DEF OpenDatabase, Migrate, MigrateFails
    <3>2. tables' \in {"none", "v1"} /\ version' \in {0, 1} /\ rules' \subseteq Rules
      BY <2>1 DEF OpenDatabase, Migrate, MigrateFails
    <3>3. phase[p] \in {"opening", "migrating"}
      BY <2>1 DEF OpenDatabase, Migrate, MigrateFails
    <3> QED
      BY <2>1, <3>1, <3>2, <3>3 DEF OpenDatabase, Migrate, MigrateFails
  <2>2. CASE LoadConfig(p)
    BY <2>2 DEF LoadConfig, ReadsAs
  <2>3. CASE LoadConfigFails(p) \/ TestConfig(p) \/ TruncateConfig(p)
    BY <2>3 DEF LoadConfigFails, TestConfig, TruncateConfig
  <2>4. CASE WriteConfig(p)
    <3>1. upsets' \subseteq Upsets
      BY <2>4 DEF WriteConfig, NoteIf
    <3>2. configFile' \in ConfigFiles \ {"absent"}
      BY <2>4 DEF WriteConfig, WrittenOver
    <3> QED
      BY <2>4, <3>1, <3>2 DEF WriteConfig
  <2>5. CASE WriteConfigFails(p)
    BY <2>5 DEF WriteConfigFails, NoteIf
  <2>6. CASE LoadKey(p)
    <3>1. CASE keyFile \in Keys
      <4>1. /\ phase[p] = "keying" /\ phase' = [phase EXCEPT ![p] = "running"]
            /\ key' = [key EXCEPT ![p] = keyFile]
        BY <2>6, <3>1 DEF LoadKey
      <4> QED
        BY <2>6, <3>1, <4>1 DEF LoadKey
    <3>2. CASE keyFile \notin Keys
      <4>1. phase[p] = "keying"
        BY <2>6 DEF LoadKey
      <4>2. \E there \in {"noKey", "creating"} : phase' = [phase EXCEPT ![p] = there]
        BY <2>6, <3>2 DEF LoadKey
      <4>3. key' = key
        BY <2>6, <3>2 DEF LoadKey
      <4> QED
        BY <2>6, <4>1, <4>2, <4>3 DEF LoadKey
    <3> QED
      BY <3>1, <3>2
  <2>7. CASE CreateKey(p)
    BY <2>7 DEF CreateKey
  <2>8. CASE WriteKey(p)
    <3>1. PICK k \in Keys : keyFile' = k /\ key' = [key EXCEPT ![p] = k]
      BY <2>8 DEF WriteKey
    <3> QED
      BY <2>8, <3>1 DEF WriteKey
  <2>9. CASE StartFails(p)
    BY <2>9 DEF StartFails
  <2> QED
    BY <1>2, <2>1, <2>2, <2>3, <2>4, <2>5, <2>6, <2>7, <2>8, <2>9 DEF StartStep
<1>3. ASSUME NEW p \in Procs, End(p) \/ Crash(p) PROVE TypeInv'
  <2>1. phase' = [phase EXCEPT ![p] = "off"] /\ key' = [key EXCEPT ![p] = "absent"]
    BY <1>3 DEF End, Crash, Leave
  <2>2. upsets' \subseteq Upsets
    BY <1>3 DEF End, Crash, NoteIf
  <2>3. UNCHANGED <<disk, config, wanted, racers>>
    BY <1>3 DEF End, Crash
  <2> QED
    BY <2>1, <2>2, <2>3
<1>4. ASSUME NEW p \in Procs, Seal(p) PROVE TypeInv'
  BY <1>4 DEF Seal
<1>5. ASSUME NEW p \in Procs, NEW r \in Rules, ChangeRule(p, r) PROVE TypeInv'
  BY <1>5 DEF ChangeRule
<1>6. ASSUME NEW e \in Edits, EditConfig(e) PROVE TypeInv'
  BY <1>6 DEF EditConfig
<1>7. CASE UNCHANGED vars
  BY <1>7 DEF vars
<1> QED
  BY <1>1, <1>2, <1>3, <1>4, <1>5, <1>6, <1>7 DEF Next

(* Types, and that exactly the running processes have a key.               *)
THEOREM TypeCorrect == Spec => []TypeOK
BY TypeInit, TypeNext, PTL DEF Spec, TypeInv

(* ... and only defaults are ever saved. *)
LEMMA TypeInvCorrect == Spec => []TypeInv
BY TypeInit, TypeNext, PTL DEF Spec

----------------------------------------------------------------------------
(* The rules. *)

(* Where a process cannot be before the tables are there. *)
Migrated == Phases \ {"off", "opening", "migrating", "noDatabase"}

RulesInv ==
    /\ RulesAreTheUsers
    /\ tables = "v1" <=> version = 1
    /\ version = 0 => wanted = Seeds
    /\ \A p \in Procs : phase[p] \in Migrated => version = 1

LEMMA RulesNext == TypeOK /\ RulesInv /\ [Next]_vars => RulesInv'
<1> SUFFICES ASSUME TypeOK, RulesInv, [Next]_vars PROVE RulesInv'
  OBVIOUS
<1> USE DEF RulesInv, RulesAreTheUsers, TypeOK, Migrated, Phases, Starting, Failed, Go, disk
<1>1. ASSUME NEW p \in Procs, Begin(p) \/ End(p) \/ Crash(p) PROVE RulesInv'
  BY <1>1 DEF Begin, End, Crash, Leave
<1>2. ASSUME NEW p \in Procs, StartStep(p) PROVE RulesInv'
  <2>1. CASE OpenDatabase(p)
    BY <2>1 DEF OpenDatabase
  <2>2. CASE Migrate(p)
    <3>1. rules' = wanted'
      BY <2>2 DEF Migrate
    <3> QED
      BY <2>2, <3>1 DEF Migrate
  <2>3. CASE MigrateFails(p) \/ StartFails(p)
    BY <2>3 DEF MigrateFails, StartFails
  <2>4. CASE LoadConfig(p) \/ LoadConfigFails(p) \/ TestConfig(p)
    BY <2>4 DEF LoadConfig, LoadConfigFails, TestConfig
  <2>5. CASE TruncateConfig(p) \/ WriteConfig(p) \/ WriteConfigFails(p)
    BY <2>5 DEF TruncateConfig, WriteConfig, WriteConfigFails
  <2>6. CASE LoadKey(p)
    BY <2>6 DEF LoadKey
  <2>7. CASE CreateKey(p) \/ WriteKey(p)
    BY <2>7 DEF CreateKey, WriteKey
  <2> QED
    BY <1>2, <2>1, <2>2, <2>3, <2>4, <2>5, <2>6, <2>7 DEF StartStep
<1>3. ASSUME NEW p \in Procs, NEW r \in Rules, ChangeRule(p, r) PROVE RulesInv'
  BY <1>3 DEF ChangeRule
<1>4. CASE UNCHANGED vars \/ (\E p \in Procs : Seal(p)) \/ (\E e \in Edits : EditConfig(e))
  BY <1>4 DEF vars, Seal, EditConfig
<1> QED
  BY <1>1, <1>2, <1>3, <1>4 DEF Next

LEMMA RulesInit == Init => RulesInv
BY DEF Init, RulesInv, RulesAreTheUsers, Migrated

(* No start, overlapping or cut short, changes the denylist that users     *)
(* have: seeding happens once, with the tables.                            *)
THEOREM RulesStayTheUsers == Spec => []RulesAreTheUsers
<1>1. RulesInv => RulesAreTheUsers
  BY DEF RulesInv
<1> QED
  BY <1>1, TypeCorrect, RulesInit, RulesNext, PTL DEF Spec

----------------------------------------------------------------------------
(* The key. *)

(* At most one process is between creating the key file and writing it,    *)
(* and nobody has a key then.                                              *)
KeyInv ==
    /\ OneKey
    /\ \A p \in Procs : phase[p] = "keyWriting" => keyFile = "empty"
    /\ \A p, q \in Procs : phase[p] = "keyWriting" /\ phase[q] = "keyWriting" => p = q

LEMMA KeyInit == Init => KeyInv
BY DEF Init, KeyInv, OneKey

LEMMA KeyNext == TypeOK /\ KeyInv /\ [Next]_vars => KeyInv'
<1> SUFFICES ASSUME TypeOK, KeyInv, [Next]_vars PROVE KeyInv'
  OBVIOUS
<1> USE FileAssumption DEF TypeOK, KeyInv, OneKey, Phases, Starting, Failed, Go, disk
<1>1. ASSUME NEW p \in Procs, Begin(p) PROVE KeyInv'
  BY <1>1 DEF Begin
<1>2. ASSUME NEW p \in Procs, End(p) \/ Crash(p) PROVE KeyInv'
  <2>1. phase' = [phase EXCEPT ![p] = "off"] /\ key' = [key EXCEPT ![p] = "absent"]
    BY <1>2 DEF End, Crash, Leave
  <2>2. UNCHANGED <<keyFile, sealed>>
    BY <1>2 DEF End, Crash
  <2> QED
    BY <2>1, <2>2
<1>3. ASSUME NEW p \in Procs, StartStep(p) PROVE KeyInv'
  <2>1. CASE OpenDatabase(p) \/ Migrate(p) \/ MigrateFails(p)
    BY <2>1 DEF OpenDatabase, Migrate, MigrateFails
  <2>2. CASE StartFails(p)
    BY <2>2 DEF StartFails
  <2>3. CASE LoadConfig(p) \/ LoadConfigFails(p) \/ TestConfig(p)
    BY <2>3 DEF LoadConfig, LoadConfigFails, TestConfig
  <2>4. CASE TruncateConfig(p) \/ WriteConfig(p) \/ WriteConfigFails(p)
    <3>1. UNCHANGED <<keyFile, sealed, key>>
      BY <2>4 DEF TruncateConfig, WriteConfig, WriteConfigFails
    <3>2. \E there \in {"writing", "keying"} : phase' = [phase EXCEPT ![p] = there]
      BY <2>4 DEF TruncateConfig, WriteConfig, WriteConfigFails
    <3> QED
      BY <3>1, <3>2
  <2>5. CASE LoadKey(p)
    BY <2>5 DEF LoadKey
  <2>6. CASE CreateKey(p)
    BY <2>6 DEF CreateKey
  <2>7. CASE WriteKey(p)
    <3>1. keyFile = "empty" /\ phase[p] = "keyWriting" /\ sealed = {}
      BY <2>7 DEF WriteKey
    <3>2. \A q \in Procs : phase[q] # "running"
      BY <3>1
    <3> QED
      BY <2>7, <3>1, <3>2 DEF WriteKey
  <2> QED
    BY <1>3, <2>1, <2>2, <2>3, <2>4, <2>5, <2>6, <2>7 DEF StartStep
<1>4. ASSUME NEW p \in Procs, Seal(p) PROVE KeyInv'
  BY <1>4 DEF Seal
<1>5. ASSUME NEW p \in Procs, NEW r \in Rules, ChangeRule(p, r) PROVE KeyInv'
  BY <1>5 DEF ChangeRule
<1>6. CASE UNCHANGED vars \/ (\E e \in Edits : EditConfig(e))
  BY <1>6 DEF vars, EditConfig
<1> QED
  BY <1>1, <1>3, <1>4, <1>5, <1>6, <1>2 DEF Next

(* All daemons there ever are over one data directory use the key in the   *)
(* file, and nothing is sealed with another one.                           *)
THEOREM KeyIsOne == Spec => []OneKey
<1>1. KeyInv => OneKey
  BY DEF KeyInv
<1> QED
  BY <1>1, TypeCorrect, KeyInit, KeyNext, PTL DEF Spec

----------------------------------------------------------------------------
(* What makes a start fail. *)

Overlap == "overlap" \in upsets

OverlapInv ==
    \A p, q \in Procs : p # q /\ phase[p] \in Starting /\ phase[q] \in Starting => Overlap

(* What a process that looked before it acts may still rely on. *)
LookedInv ==
    /\ \A p \in Procs : phase[p] = "migrating" => tables = "none" \/ Overlap
    /\ \A p \in Procs : phase[p] = "creating" => keyFile = "absent" \/ Overlap

(* What a start finds half done was left by one that was cut, or is being  *)
(* done.                                                                   *)
HalfDoneInv ==
    /\ keyFile = "empty" => "key cut" \in upsets \/ \E p \in Procs : phase[p] = "keyWriting"
    /\ configFile = "cut" => "config cut" \in upsets

FailInv == OverlapInv /\ LookedInv /\ HalfDoneInv /\ FailsOnlyIfUpset

LEMMA UpsetsGrow == [Next]_vars => upsets \subseteq upsets'
<1> USE DEF NoteIf
<1>1. ASSUME NEW p \in Procs, Begin(p) \/ End(p) \/ Crash(p) \/ Seal(p)
      PROVE  upsets \subseteq upsets'
  BY <1>1 DEF Begin, End, Crash, Seal
<1>2. ASSUME NEW p \in Procs, StartStep(p) PROVE upsets \subseteq upsets'
  BY <1>2
  DEF StartStep, OpenDatabase, Migrate, MigrateFails, LoadConfig, LoadConfigFails,
      TestConfig, TruncateConfig, WriteConfig, WriteConfigFails, LoadKey, CreateKey,
      WriteKey, StartFails
<1> QED
  BY <1>1, <1>2 DEF Next, ChangeRule, EditConfig, vars

LEMMA FailInit == Init => FailInv
BY FileAssumption
DEF Init, FailInv, OverlapInv, LookedInv, HalfDoneInv, FailsOnlyIfUpset, Starting

(* A process that enters the start finds the others that are starting.     *)
LEMMA OverlapNext == TypeOK /\ OverlapInv /\ [Next]_vars => OverlapInv'
<1> SUFFICES ASSUME TypeOK, OverlapInv, [Next]_vars,
                    NEW p \in Procs, NEW q \in Procs, p # q,
                    phase'[p] \in Starting, phase'[q] \in Starting
             PROVE  Overlap'
  BY DEF OverlapInv
<1> USE DEF TypeOK, Starting, Failed, Phases, Go, Overlap
<1>1. ASSUME NEW r \in Procs, Begin(r) PROVE Overlap'
  BY <1>1 DEF Begin, NoteIf, OverlapInv
<1>2. ASSUME NEW r \in Procs, StartStep(r)
      PROVE  phase[p] \in Starting /\ phase[q] \in Starting
  <2>1. phase[r] \in Starting /\ \A o \in Procs \ {r} : phase'[o] = phase[o]
    BY <1>2
    DEF StartStep, OpenDatabase, Migrate, MigrateFails, LoadConfig, LoadConfigFails,
        TestConfig, TruncateConfig, WriteConfig, WriteConfigFails, LoadKey, CreateKey,
        WriteKey, StartFails
  <2> QED
    BY <2>1
<1>3. ASSUME NEW r \in Procs, End(r) \/ Crash(r) \/ Seal(r)
      PROVE  phase[p] \in Starting /\ phase[q] \in Starting
  BY <1>3 DEF End, Crash, Leave, Seal
<1>4. CASE UNCHANGED phase
  BY <1>4, UpsetsGrow DEF OverlapInv
<1> QED
  BY <1>1, <1>2, <1>3, <1>4, UpsetsGrow DEF OverlapInv, Next, ChangeRule, EditConfig, vars

(* The step that changes the tables or the key file is of a process that   *)
(* is starting too.                                                        *)
LEMMA LookedNext ==
    TypeOK /\ RulesInv /\ OverlapInv /\ LookedInv /\ [Next]_vars => LookedInv'
<1> SUFFICES ASSUME TypeOK, RulesInv, OverlapInv, LookedInv, [Next]_vars, NEW p \in Procs
             PROVE  /\ phase'[p] = "migrating" => tables' = "none" \/ Overlap'
                    /\ phase'[p] = "creating" => keyFile' = "absent" \/ Overlap'
  BY DEF LookedInv
<1> DEFINE Goal == /\ phase'[p] = "migrating" => tables' = "none" \/ Overlap'
                   /\ phase'[p] = "creating" => keyFile' = "absent" \/ Overlap'
<1> USE DEF TypeOK, Starting, Failed, Phases, Go, disk, LookedInv
<1>1. Overlap => Overlap'
  BY UpsetsGrow DEF Overlap
<1>2. ASSUME NEW q \in Procs, Begin(q) \/ End(q) \/ Crash(q) \/ Seal(q) PROVE Goal
  <2>1. tables' = tables /\ keyFile' = keyFile
    BY <1>2 DEF Begin, End, Crash, Seal
  <2>2. phase'[p] \in {"migrating", "creating"} => phase'[p] = phase[p]
    BY <1>2 DEF Begin, End, Crash, Leave, Seal
  <2> QED
    BY <1>1, <2>1, <2>2
<1>3. ASSUME NEW q \in Procs, StartStep(q) PROVE Goal
  <2>1. CASE OpenDatabase(q)
    <3>1. version < 1 => tables = "none"
      BY DEF RulesInv
    <3> QED
      BY <1>1, <2>1, <3>1 DEF OpenDatabase
  <2>2. CASE Migrate(q)
    <3>1. phase'[p] = "migrating" => p # q /\ phase[p] = "migrating" /\ phase[q] = "migrating"
      BY <2>2 DEF Migrate
    <3>2. phase'[p] = "creating" => phase[p] = "creating" /\ keyFile' = keyFile
      BY <2>2 DEF Migrate
    <3> QED
      BY <1>1, <3>1, <3>2 DEF OverlapInv
  <2>3. CASE MigrateFails(q) \/ LoadConfig(q) \/ LoadConfigFails(q) \/ TestConfig(q)
    BY <1>1, <2>3 DEF MigrateFails, LoadConfig, LoadConfigFails, TestConfig
  <2>4. CASE TruncateConfig(q) \/ WriteConfig(q) \/ WriteConfigFails(q)
    BY <1>1, <2>4 DEF TruncateConfig, WriteConfig, WriteConfigFails
  <2>5. CASE LoadKey(q)
    BY <1>1, <2>5 DEF LoadKey
  <2>6. CASE CreateKey(q) \/ WriteKey(q)
    <3>1. phase'[p] = "creating" => p # q /\ phase[p] = "creating" /\ phase[q] \in Starting
      BY <2>6 DEF CreateKey, WriteKey
    <3>2. phase'[p] = "migrating" => phase[p] = "migrating" /\ tables' = tables
      BY <2>6 DEF CreateKey, WriteKey
    <3> QED
      BY <1>1, <3>1, <3>2 DEF OverlapInv
  <2>7. CASE StartFails(q)
    BY <1>1, <2>7 DEF StartFails
  <2> QED
    BY <1>3, <2>1, <2>2, <2>3, <2>4, <2>5, <2>6, <2>7 DEF StartStep
<1>4. CASE UNCHANGED <<tables, keyFile, phase>>
  BY <1>1, <1>4
<1> QED
  BY <1>2, <1>3, <1>4 DEF Next, ChangeRule, EditConfig, vars

LEMMA HalfDoneNext == TypeOK /\ HalfDoneInv /\ [Next]_vars => HalfDoneInv'
<1> SUFFICES ASSUME TypeOK, HalfDoneInv, [Next]_vars PROVE HalfDoneInv'
  OBVIOUS
<1>1. keyFile' = "empty" => "key cut" \in upsets' \/ \E p \in Procs : phase'[p] = "keyWriting"
  <2> SUFFICES ASSUME keyFile' = "empty", "key cut" \notin upsets'
               PROVE  \E p \in Procs : phase'[p] = "keyWriting"
    OBVIOUS
  <2> USE DEF TypeOK, Starting, Failed, Phases, Go, disk
  <2>1. "key cut" \notin upsets
    BY UpsetsGrow
  <2>2. ASSUME NEW q \in Procs, CreateKey(q) PROVE \E p \in Procs : phase'[p] = "keyWriting"
    <3>1. CASE keyFile = "absent"
      BY <2>2, <3>1 DEF CreateKey
    <3>2. CASE keyFile # "absent"
      <4>1. keyFile = "empty" /\ phase[q] = "creating" /\ phase' = [phase EXCEPT ![q] = "noKey"]
        BY <2>2, <3>2 DEF CreateKey
      <4> QED
        BY <2>1, <4>1 DEF HalfDoneInv
    <3> QED
      BY <3>1, <3>2
  <2>3. ASSUME NEW q \in Procs, WriteKey(q) PROVE FALSE
    BY <2>3, FileAssumption DEF WriteKey
  <2>4. ASSUME keyFile' = keyFile,
               \A p \in Procs : phase[p] = "keyWriting" => phase'[p] = "keyWriting"
        PROVE  \E p \in Procs : phase'[p] = "keyWriting"
    BY <2>1, <2>4 DEF HalfDoneInv
  <2>5. ASSUME NEW q \in Procs, Begin(q) \/ End(q) \/ Crash(q) \/ Seal(q)
        PROVE  \A p \in Procs : phase[p] = "keyWriting" => phase'[p] = "keyWriting"
    BY <2>5 DEF Begin, End, Crash, Leave, NoteIf, Seal
  <2>6. ASSUME NEW q \in Procs, StartStep(q), ~CreateKey(q), ~WriteKey(q)
        PROVE  \A p \in Procs : phase[p] = "keyWriting" => phase'[p] = "keyWriting"
    BY <2>6
    DEF StartStep, OpenDatabase, Migrate, MigrateFails, LoadConfig, LoadConfigFails,
        TestConfig, TruncateConfig, WriteConfig, WriteConfigFails, LoadKey, StartFails
  <2>7. ASSUME NEW q \in Procs,
               \/ Begin(q) \/ End(q) \/ Crash(q) \/ Seal(q)
               \/ StartStep(q) /\ ~CreateKey(q) /\ ~WriteKey(q)
        PROVE  keyFile' = keyFile
    BY <2>7
    DEF Begin, End, Crash, Seal, StartStep, OpenDatabase, Migrate, MigrateFails,
        LoadConfig, LoadConfigFails, TestConfig, TruncateConfig, WriteConfig,
        WriteConfigFails, LoadKey, StartFails
  <2>8. CASE UNCHANGED <<keyFile, phase>>
    BY <2>4, <2>8
  <2> QED
    BY <2>2, <2>3, <2>4, <2>5, <2>6, <2>7, <2>8 DEF Next, ChangeRule, EditConfig, vars
<1>2. configFile' = "cut" => "config cut" \in upsets'
  <2>1. ASSUME NEW q \in Procs, WriteConfig(q) \/ WriteConfigFails(q),
               configFile' = "cut"
        PROVE  "config cut" \in upsets'
    BY <2>1, UpsetsGrow DEF WriteConfig, WriteConfigFails, NoteIf, HalfDoneInv
  <2>3. ASSUME NEW e \in Edits, EditConfig(e) PROVE configFile' # "cut"
    BY <2>3, FileAssumption DEF EditConfig
  <2>4. ASSUME NEW q \in Procs,
               \/ Begin(q) \/ End(q) \/ Crash(q) \/ Seal(q)
               \/ StartStep(q) /\ ~WriteConfig(q) /\ ~WriteConfigFails(q) /\ ~TruncateConfig(q)
        PROVE  configFile' = configFile
    BY <2>4
    DEF Begin, End, Crash, Seal, StartStep, OpenDatabase, Migrate, MigrateFails,
        LoadConfig, LoadConfigFails, TestConfig, LoadKey, CreateKey, WriteKey,
        StartFails, disk
  <2>5. ASSUME NEW q \in Procs, TruncateConfig(q) PROVE configFile' # "cut"
    BY <2>5 DEF TruncateConfig
  <2>6. configFile' = configFile => (configFile' = "cut" => "config cut" \in upsets')
    BY UpsetsGrow DEF HalfDoneInv
  <2> QED
    BY <2>1, <2>3, <2>4, <2>5, <2>6 DEF Next, ChangeRule, vars, disk
<1> QED
  BY <1>1, <1>2 DEF HalfDoneInv

LEMMA FailsNext == TypeOK /\ FailInv /\ [Next]_vars => FailsOnlyIfUpset'
<1> SUFFICES ASSUME TypeOK, FailInv, [Next]_vars, NEW p \in Procs
             PROVE  /\ phase'[p] = "noDatabase" => upsets' \cap {"overlap", "io"} # {}
                    /\ phase'[p] = "noConfig" \/ config'[p] = "garbled" =>
                          upsets' \cap {"config cut", "io"} # {}
                    /\ phase'[p] = "noKey" => upsets' \cap {"overlap", "io", "key cut"} # {}
  BY DEF FailsOnlyIfUpset
<1> DEFINE Goal == /\ phase'[p] = "noDatabase" => upsets' \cap {"overlap", "io"} # {}
                   /\ phase'[p] = "noConfig" \/ config'[p] = "garbled" =>
                         upsets' \cap {"config cut", "io"} # {}
                   /\ phase'[p] = "noKey" => upsets' \cap {"overlap", "io", "key cut"} # {}
<1> USE DEF TypeOK, Starting, Failed, Phases, Go, Overlap
<1>1. upsets \subseteq upsets'
  BY UpsetsGrow
<1>2. ASSUME config'[p] = config[p], phase'[p] = phase[p] \/ phase'[p] \notin Failed
      PROVE  Goal
  BY <1>1, <1>2 DEF FailInv, FailsOnlyIfUpset
<1>3. ASSUME NEW q \in Procs, Begin(q) \/ End(q) \/ Crash(q) \/ Seal(q) PROVE Goal
  <2>1. phase'[p] = phase[p] \/ phase'[p] \notin Failed
    BY <1>3 DEF Begin, End, Crash, Leave, Seal
  <2>2. config' = config
    BY <1>3 DEF Begin, End, Crash, Seal
  <2> QED
    BY <1>2, <2>1, <2>2
<1>4. ASSUME NEW q \in Procs, StartStep(q) PROVE Goal
  <2>1. CASE MigrateFails(q)
    <3>1. Overlap
      BY <2>1 DEF MigrateFails, FailInv, LookedInv
    <3>2. phase' = [phase EXCEPT ![q] = "noDatabase"] /\ config' = config
      BY <2>1 DEF MigrateFails
    <3> QED
      BY <1>1, <3>1, <3>2 DEF FailInv, FailsOnlyIfUpset
  <2>2. CASE LoadConfigFails(q)
    <3>1. "config cut" \in upsets
      BY <2>2 DEF LoadConfigFails, FailInv, HalfDoneInv
    <3>2. phase' = [phase EXCEPT ![q] = "noConfig"] /\ config' = config
      BY <2>2 DEF LoadConfigFails
    <3> QED
      BY <1>1, <3>1, <3>2 DEF FailInv, FailsOnlyIfUpset
  <2>3. CASE LoadConfig(q)
    <3>1. ReadsAs(configFile) = "garbled" => "config cut" \in upsets
      BY FileAssumption DEF ReadsAs, FailInv, HalfDoneInv
    <3>2. /\ phase' = [phase EXCEPT ![q] = "testing"]
          /\ config' = [config EXCEPT ![q] = ReadsAs(configFile)]
      BY <2>3 DEF LoadConfig
    <3> QED
      BY <1>1, <3>1, <3>2 DEF FailInv, FailsOnlyIfUpset
  <2>4. CASE LoadKey(q)
    <3>1. config' = config
      BY <2>4 DEF LoadKey
    <3>2. CASE keyFile = "empty"
      <4>1. phase[q] = "keying" /\ phase' = [phase EXCEPT ![q] = "noKey"]
        BY <2>4, <3>2, FileAssumption DEF LoadKey
      <4>2. "key cut" \in upsets \/ Overlap
        BY <3>2, <4>1 DEF FailInv, HalfDoneInv, OverlapInv
      <4> QED
        BY <1>1, <3>1, <4>1, <4>2 DEF FailInv, FailsOnlyIfUpset
    <3>3. CASE keyFile # "empty"
      <4>1. \E there \in {"running", "creating"} : phase' = [phase EXCEPT ![q] = there]
        BY <2>4, <3>3 DEF LoadKey
      <4> QED
        BY <1>2, <3>1, <4>1
    <3> QED
      BY <3>2, <3>3
  <2>5. CASE CreateKey(q)
    <3>1. config' = config
      BY <2>5 DEF CreateKey
    <3>2. CASE keyFile = "absent"
      BY <1>2, <2>5, <3>1, <3>2 DEF CreateKey
    <3>3. CASE keyFile # "absent"
      <4>1. phase[q] = "creating" /\ phase' = [phase EXCEPT ![q] = "noKey"]
        BY <2>5, <3>3 DEF CreateKey
      <4>2. Overlap
        BY <3>3, <4>1 DEF FailInv, LookedInv
      <4> QED
        BY <1>1, <3>1, <4>1, <4>2 DEF FailInv, FailsOnlyIfUpset
    <3> QED
      BY <3>2, <3>3
  <2>6. CASE StartFails(q)
    <3>1. "io" \in upsets'
      BY <2>6 DEF StartFails
    <3>2. config' = config
      BY <2>6 DEF StartFails
    <3> QED
      BY <3>1, <3>2
  <2>7. CASE OpenDatabase(q) \/ Migrate(q) \/ TestConfig(q) \/ TruncateConfig(q)
             \/ WriteConfig(q) \/ WriteConfigFails(q) \/ WriteKey(q)
    <3>1. config' = config
      BY <2>7
      DEF OpenDatabase, Migrate, TestConfig, TruncateConfig, WriteConfig,
          WriteConfigFails, WriteKey
    <3>2. phase'[p] = phase[p] \/ phase'[p] \notin Failed
      BY <2>7
      DEF OpenDatabase, Migrate, TestConfig, TruncateConfig, WriteConfig,
          WriteConfigFails, WriteKey
    <3> QED
      BY <1>2, <3>1, <3>2
  <2> QED
    BY <1>4, <2>1, <2>2, <2>3, <2>4, <2>5, <2>6, <2>7 DEF StartStep
<1>5. CASE UNCHANGED <<phase, config>>
  BY <1>2, <1>5
<1> QED
  BY <1>3, <1>4, <1>5 DEF Next, ChangeRule, EditConfig, vars

(* A start is never kept from succeeding by what earlier ones left behind, *)
(* but for a key or a configuration file whose writing was cut.            *)
THEOREM StartsFailOnlyIfUpset == Spec => []FailsOnlyIfUpset
<1>1. TypeOK /\ RulesInv /\ FailInv /\ [Next]_vars => FailInv'
  BY OverlapNext, LookedNext, HalfDoneNext, FailsNext DEF FailInv
<1>2. FailInv => FailsOnlyIfUpset
  BY DEF FailInv
<1> QED
  BY <1>1, <1>2, TypeCorrect, RulesInit, RulesNext, FailInit, PTL DEF Spec

----------------------------------------------------------------------------
(* The configuration. *)

RacersInv ==
    configFile \in Edits =>
        \A p \in Procs : phase[p] \in {"saving", "writing"} => p \in racers

LEMMA RacersInit == Init => RacersInv
BY DEF Init, RacersInv

LEMMA RacersNext == TypeInv /\ RacersInv /\ [Next]_vars => RacersInv'
<1> SUFFICES ASSUME TypeInv, RacersInv, [Next]_vars PROVE RacersInv'
  OBVIOUS
<1> USE FileAssumption
    DEF TypeInv, TypeOK, SavesDefaults, RacersInv, Starting, Failed, Phases, Go, disk
<1>1. ASSUME NEW p \in Procs, Begin(p) \/ End(p) \/ Crash(p) \/ Seal(p) PROVE RacersInv'
  <2>1. configFile' = configFile /\ racers' = racers
    BY <1>1 DEF Begin, End, Crash, Seal
  <2>2. \A q \in Procs : phase'[q] \in {"saving", "writing"} => phase'[q] = phase[q]
    BY <1>1 DEF Begin, End, Crash, Leave, Seal
  <2> QED
    BY <2>1, <2>2
<1>2. ASSUME NEW p \in Procs, StartStep(p) PROVE RacersInv'
  <2>1. CASE TestConfig(p)
    BY <2>1 DEF TestConfig
  <2>2. CASE TruncateConfig(p)
    BY <2>2 DEF TruncateConfig
  <2>3. CASE WriteConfig(p)
    <3>1. configFile' \in Edits => configFile \in Edits
      BY <2>3 DEF WriteConfig, WrittenOver
    <3> QED
      BY <2>3, <3>1 DEF WriteConfig
  <2>4. CASE WriteConfigFails(p)
    BY <2>4 DEF WriteConfigFails
  <2>5. CASE OpenDatabase(p) \/ Migrate(p) \/ MigrateFails(p) \/ LoadConfig(p)
             \/ LoadConfigFails(p) \/ LoadKey(p) \/ CreateKey(p) \/ WriteKey(p) \/ StartFails(p)
    <3>1. configFile' = configFile /\ racers' = racers
      BY <2>5
      DEF OpenDatabase, Migrate, MigrateFails, LoadConfig, LoadConfigFails, LoadKey,
          CreateKey, WriteKey, StartFails
    <3>2. \A q \in Procs : phase'[q] \in {"saving", "writing"} => phase'[q] = phase[q]
      BY <2>5
      DEF OpenDatabase, Migrate, MigrateFails, LoadConfig, LoadConfigFails, LoadKey,
          CreateKey, WriteKey, StartFails
    <3> QED
      BY <3>1, <3>2
  <2> QED
    BY <1>2, <2>1, <2>2, <2>3, <2>4, <2>5 DEF StartStep
<1>3. ASSUME NEW p \in Procs, NEW r \in Rules, ChangeRule(p, r) PROVE RacersInv'
  BY <1>3 DEF ChangeRule
<1>4. ASSUME NEW e \in Edits, EditConfig(e) PROVE RacersInv'
  BY <1>4 DEF EditConfig
<1>5. CASE UNCHANGED vars
  BY <1>5 DEF vars
<1> QED
  BY <1>1, <1>2, <1>3, <1>4, <1>5 DEF Next

(* An edit is only lost to a start that tested for the file before it.     *)
THEOREM EditsSurviveStarts == Spec => EditsLostOnlyToRacers
<1> DEFINE Lost == configFile \in Edits /\ configFile' \notin Edits
           Racing == \E p \in racers : phase[p] \in {"saving", "writing"}
<1>1. ASSUME TypeInv, RacersInv, [Next]_vars, Lost PROVE Racing
  <2>1. ASSUME NEW p \in Procs, TruncateConfig(p) \/ WriteConfig(p) \/ WriteConfigFails(p)
        PROVE  Racing
    BY <1>1, <2>1 DEF TruncateConfig, WriteConfig, WriteConfigFails, Go, RacersInv
  <2>2. ASSUME NEW p \in Procs,
               \/ Begin(p) \/ End(p) \/ Crash(p) \/ Seal(p)
               \/ StartStep(p) /\ ~TruncateConfig(p) /\ ~WriteConfig(p) /\ ~WriteConfigFails(p)
        PROVE  FALSE
    BY <1>1, <2>2
    DEF Begin, End, Crash, Seal, StartStep, OpenDatabase, Migrate, MigrateFails,
        LoadConfig, LoadConfigFails, TestConfig, LoadKey, CreateKey, WriteKey,
        StartFails, disk
  <2>3. ASSUME NEW e \in Edits, EditConfig(e) PROVE FALSE
    BY <1>1, <2>3 DEF EditConfig
  <2> QED
    BY <1>1, <2>1, <2>2, <2>3 DEF Next, ChangeRule, vars, disk
<1>2. TypeInv /\ RacersInv /\ [Next]_vars => [Lost => Racing]_vars
  BY <1>1
<1> QED
  BY <1>2, TypeInvCorrect, RacersInit, RacersNext, PTL DEF Spec, EditsLostOnlyToRacers

============================================================================
