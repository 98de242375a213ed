------------------------------ MODULE StartUp ------------------------------
(***************************************************************************)
(* What a start of the daemon finds and leaves in the data directory, from *)
(* src/lib.rs run() and load_config: the database and its migration        *)
(* (src/schema.rs open, migrate), config.toml (src/config.rs) and the key  *)
(* file (src/crypto.rs load_or_create_dev_key).  Each of the three is      *)
(* created by whoever finds it missing, in more than one step, and a start *)
(* may be killed or fail at any of them.                                   *)
(*                                                                         *)
(* Starts may overlap: InstanceLife shows how two processes get past the   *)
(* single-instance lock.  The directories themselves are made by           *)
(* create_dir_all, which does nothing when they are there.                 *)
(***************************************************************************)
EXTENDS Naturals, FiniteSets

CONSTANTS
    Procs,      \* daemon processes
    Keys,       \* 256-bit keys
    Rules,      \* exclusion rules
    Seeds,      \* SEED_BUNDLE_IDS and SEED_APP_NAMES
    Edits       \* what a user may write into config.toml

ASSUME SeedAssumption == Seeds \subseteq Rules

ASSUME FileAssumption ==
    /\ Keys \cap {"absent", "empty"} = {}
    /\ Edits \cap {"absent", "empty", "cut", "defaults", "garbled"} = {}

KeyFiles == Keys \cup {"absent", "empty"}
ConfigFiles == Edits \cup {"absent", "empty", "cut", "defaults"}
Configs == Edits \cup {"defaults", "garbled"}

VARIABLES
    \* in the data directory
    tables,     \* the tables there are: "none", or those of V1_SCHEMA
    version,    \* the largest version in schema_migrations, 0 for none
    rules,      \* apps_excluded
    configFile, \* config.toml
    keyFile,    \* db.key
    sealed,     \* the keys that stored clips are encrypted with
    \* in the processes
    phase,      \* per process: the next step of its start
    config,     \* per process: the configuration it loaded
    key,        \* per process: the key it uses
    \* history variables
    wanted,     \* the rules as seeded, and changed by users since
    racers,     \* the processes that were about to save when a user last edited
    upsets      \* what may make a start fail

disk == <<tables, version, rules, configFile, keyFile, sealed>>
vars == <<disk, phase, config, key, wanted, racers, upsets>>

Starting == {"opening", "migrating", "configuring", "testing", "saving", "writing",
             "keying", "creating", "keyWriting"}
Failed == {"noDatabase", "noConfig", "noKey"}
Phases == Starting \cup Failed \cup {"off", "running"}
Upsets == {"overlap", "io", "config cut", "key cut"}

Init ==
    /\ tables = "none" /\ version = 0 /\ rules = {}
    /\ configFile \in {"absent"} \cup Edits
    /\ keyFile = "absent" /\ sealed = {}
    /\ phase = [p \in Procs |-> "off"]
    /\ config = [p \in Procs |-> "defaults"]
    /\ key = [p \in Procs |-> "absent"]
    /\ wanted = Seeds /\ racers = {} /\ upsets = {}

(* run() moves on. *)
Go(p, here, there) ==
    phase[p] = here /\ phase' = [phase EXCEPT ![p] = there]

NoteIf(condition, upset) ==
    upsets' = IF condition THEN upsets \cup {upset} ELSE upsets

----------------------------------------------------------------------------
(* The database. *)

(* Directories, and the lock as far as it goes. *)
Begin(p) ==
    /\ Go(p, "off", "opening")
    /\ NoteIf(\E q \in Procs \ {p} : phase[q] \in Starting, "overlap")
    /\ UNCHANGED <<disk, config, key, wanted, racers>>

OpenDatabaseSeeding(p) ==
    /\ Go(p, "opening", IF version < 1 THEN "migrating" ELSE "configuring")
    /\ rules' = IF version < 1 THEN rules ELSE rules \cup Seeds
    /\ UNCHANGED <<tables, version, configFile, keyFile, sealed, config, key, wanted, racers, upsets>>

(* open() and configure(); migrate() as far as the query for the version,  *)
(* which is outside the transaction.                                       *)
OpenDatabase(p) ==
    /\ Go(p, "opening", IF version < 1 THEN "migrating" ELSE "configuring")
    /\ UNCHANGED <<disk, config, key, wanted, racers, upsets>>

MigrateInParts(p) ==
    /\ \/ Go(p, "migrating", "configuring") /\ version' = 1
       \/ Go(p, "migrating", "off") /\ UNCHANGED version
    /\ tables = "none"
    /\ tables' = "v1" /\ rules' = Seeds
    /\ UNCHANGED <<configFile, keyFile, sealed, config, key, wanted, racers, upsets>>

(* One transaction: the tables, the seeds, the version. *)
Migrate(p) ==
    /\ Go(p, "migrating", "configuring")
    /\ tables = "none"
    /\ tables' = "v1" /\ rules' = Seeds /\ version' = 1
    /\ UNCHANGED <<configFile, keyFile, sealed, config, key, wanted, racers, upsets>>

(* CREATE TABLE clips: there is one, made since the version was read. *)
MigrateFails(p) ==
    /\ Go(p, "migrating", "noDatabase")
    /\ tables = "v1"
    /\ UNCHANGED <<disk, config, key, wanted, racers, upsets>>

----------------------------------------------------------------------------
(* config.toml. *)

(* Every field has a default, so an empty file reads as the defaults; one  *)
(* that is cut may not parse, or parse as something else.                  *)
ReadsAs(file) ==
    IF file \in Edits THEN file ELSE IF file = "cut" THEN "garbled" ELSE "defaults"

LoadConfig(p) ==
    /\ Go(p, "configuring", "testing")
    /\ config' = [config EXCEPT ![p] = ReadsAs(configFile)]
    /\ UNCHANGED <<disk, key, wanted, racers, upsets>>

LoadConfigFailsOnEmpty(p) ==
    /\ Go(p, "configuring", "noConfig")
    /\ configFile \in {"cut", "empty"}
    /\ UNCHANGED <<disk, config, key, wanted, racers, upsets>>

LoadConfigFails(p) ==
    /\ Go(p, "configuring", "noConfig")
    /\ configFile = "cut"
    /\ UNCHANGED <<disk, config, key, wanted, racers, upsets>>

TestConfigOfDefaults(p) ==
    /\ Go(p, "testing", IF config[p] = "defaults" THEN "saving" ELSE "keying")
    /\ UNCHANGED <<disk, config, key, wanted, racers, upsets>>

(* Write a default config on first run. *)
TestConfig(p) ==
    /\ Go(p, "testing", IF configFile = "absent" THEN "saving" ELSE "keying")
    /\ UNCHANGED <<disk, config, key, wanted, racers, upsets>>

(* fs::write: create or truncate, then write. *)
TruncateConfig(p) ==
    /\ Go(p, "saving", "writing")
    /\ configFile' = "empty"
    /\ UNCHANGED <<tables, version, rules, keyFile, sealed, config, key, wanted, racers, upsets>>

(* What a file is after text was written from its beginning on, while a    *)
(* user's editor may have replaced it, or changed it in place.             *)
WrittenOver(file, text) ==
    IF file \in Edits THEN {file, "cut"}
    ELSE IF file = "cut" THEN {text, "cut"} ELSE {text}

WriteConfig(p) ==
    /\ Go(p, "writing", "keying")
    /\ configFile' \in WrittenOver(configFile, config[p])
    /\ NoteIf(configFile' = "cut", "config cut")
    /\ UNCHANGED <<tables, version, rules, keyFile, sealed, config, key, wanted, racers>>

(* The disk is full.  load_config ignores what save() returns. *)
WriteConfigFails(p) ==
    /\ \/ Go(p, "saving", "keying") /\ UNCHANGED configFile
       \/ Go(p, "writing", "keying") /\ configFile' \in {configFile, "cut"}
    /\ NoteIf(configFile' = "cut", "config cut")
    /\ UNCHANGED <<tables, version, rules, keyFile, sealed, config, key, wanted, racers>>

(* A user saves config.toml from an editor. *)
EditConfig(e) ==
    /\ configFile' = e
    /\ racers' = {p \in Procs : phase[p] \in {"saving", "writing"}}
    /\ UNCHANGED <<tables, version, rules, keyFile, sealed, phase, config, key, wanted, upsets>>

----------------------------------------------------------------------------
(* The key file. *)

(* A file of the right length is the key; any other length is an error. *)
LoadKey(p) ==
    /\ \/ /\ keyFile \in Keys
          /\ Go(p, "keying", "running")
          /\ key' = [key EXCEPT ![p] = keyFile]
       \/ keyFile = "empty" /\ Go(p, "keying", "noKey") /\ UNCHANGED key
       \/ keyFile = "absent" /\ Go(p, "keying", "creating") /\ UNCHANGED key
    /\ UNCHANGED <<disk, config, wanted, racers, upsets>>

CreateKeyAnew(p) ==
    /\ Go(p, "creating", "keyWriting") /\ keyFile' = "empty"
    /\ UNCHANGED <<tables, version, rules, configFile, sealed, config, key, wanted, racers, upsets>>

(* create_new: an error when there is a file by now. *)
CreateKey(p) ==
    /\ \/ keyFile = "absent" /\ Go(p, "creating", "keyWriting") /\ keyFile' = "empty"
       \/ keyFile # "absent" /\ Go(p, "creating", "noKey") /\ UNCHANGED keyFile
    /\ UNCHANGED <<tables, version, rules, configFile, sealed, config, key, wanted, racers, upsets>>

(* generate_key: 32 random bytes, which nobody else has. *)
Fresh(k) == k # keyFile /\ k \notin sealed /\ \A p \in Procs : key[p] # k

WriteKey(p) ==
    /\ Go(p, "keyWriting", "running")
    /\ \E k \in Keys :
        /\ Fresh(k)
        /\ keyFile' = k
        /\ key' = [key EXCEPT ![p] = k]
    /\ UNCHANGED <<tables, version, rules, configFile, sealed, config, wanted, racers, upsets>>

----------------------------------------------------------------------------
(* Everything else that happens to a process. *)

(* Some system call on the way fails: the start does. *)
StartFails(p) ==
    /\ \/ phase[p] \in {"opening", "migrating"} /\ phase' = [phase EXCEPT ![p] = "noDatabase"]
       \/ phase[p] = "configuring" /\ phase' = [phase EXCEPT ![p] = "noConfig"]
       \/ phase[p] \in {"keying", "creating", "keyWriting"} /\ phase' = [phase EXCEPT ![p] = "noKey"]
    /\ upsets' = upsets \cup {"io"} \cup (IF phase[p] = "keyWriting" THEN {"key cut"} ELSE {})
    /\ key' = [key EXCEPT ![p] = "absent"]
    /\ UNCHANGED <<disk, config, wanted, racers>>

(* The process is gone; run() returned, or it was killed. *)
Leave(p) == phase' = [phase EXCEPT ![p] = "off"] /\ key' = [key EXCEPT ![p] = "absent"]

End(p) ==
    /\ phase[p] \in Failed \cup {"running"}
    /\ Leave(p)
    /\ UNCHANGED <<disk, config, wanted, racers, upsets>>

Crash(p) ==
    /\ phase[p] \in Starting
    /\ Leave(p)
    /\ NoteIf(phase[p] = "keyWriting", "key cut")
    /\ UNCHANGED <<disk, config, wanted, racers>>

(* A running daemon stores a clip. *)
Seal(p) ==
    /\ phase[p] = "running"
    /\ sealed' = sealed \cup {key[p]}
    /\ UNCHANGED <<tables, version, rules, configFile, keyFile, phase, config, key, wanted, racers, upsets>>

(* A user adds a rule, or removes one, through a running daemon. *)
ChangeRule(p, r) ==
    /\ phase[p] = "running"
    /\ \/ rules' = rules \cup {r} /\ wanted' = wanted \cup {r}
       \/ rules' = rules \ {r} /\ wanted' = wanted \ {r}
    /\ UNCHANGED <<tables, version, configFile, keyFile, sealed, phase, config, key, racers, upsets>>

StartStep(p) ==
    \/ OpenDatabase(p) \/ Migrate(p) \/ MigrateFails(p)
    \/ LoadConfig(p) \/ LoadConfigFails(p) \/ TestConfig(p)
    \/ TruncateConfig(p) \/ WriteConfig(p) \/ WriteConfigFails(p)
    \/ LoadKey(p) \/ CreateKey(p) \/ WriteKey(p) \/ StartFails(p)

Next ==
    \/ \E p \in Procs : Begin(p) \/ StartStep(p) \/ End(p) \/ Crash(p) \/ Seal(p)
    \/ \E p \in Procs, r \in Rules : ChangeRule(p, r)
    \/ \E e \in Edits : EditConfig(e)

(* A start goes on by itself. *)
Fairness == \A p \in Procs : WF_vars(StartStep(p))

Spec == Init /\ [][Next]_vars /\ Fairness

----------------------------------------------------------------------------
(* Properties. *)

TypeOK ==
    /\ tables \in {"none", "v1"} /\ version \in {0, 1}
    /\ rules \subseteq Rules /\ wanted \subseteq Rules
    /\ configFile \in ConfigFiles /\ keyFile \in KeyFiles
    /\ sealed \subseteq Keys
    /\ phase \in [Procs -> Phases]
    /\ config \in [Procs -> Configs]
    /\ key \in [Procs -> Keys \cup {"absent"}]
    /\ \A p \in Procs : phase[p] = "running" <=> key[p] # "absent"
    /\ racers \subseteq Procs
    /\ upsets \subseteq Upsets

(* Whatever a daemon seals can be opened by every daemon there is and will *)
(* be: they all use the key in the file, although starts that overlap may  *)
(* each find it missing (crypto.rs load_or_create_dev_key).                *)
OneKey ==
    /\ \A p \in Procs : phase[p] = "running" => key[p] = keyFile
    /\ sealed \subseteq {keyFile}

(* A start that no other one overlaps and no system call fails opens the   *)
(* database and the configuration, whatever killed starts left behind; the *)
(* key it gets unless one was killed between creating and writing it.      *)
FailsOnlyIfUpset ==
    \A p \in Procs :
        /\ phase[p] = "noDatabase" => upsets \cap {"overlap", "io"} # {}
        /\ phase[p] = "noConfig" \/ config[p] = "garbled" =>
              upsets \cap {"config cut", "io"} # {}
        /\ phase[p] = "noKey" => upsets \cap {"overlap", "io", "key cut"} # {}

(* The denylist is the seeded one as users changed it: seeding is never    *)
(* left out, never done in part, and never done again, so that a seeded    *)
(* rule a user removed stays away (schema.rs migrate).                     *)
RulesAreTheUsers == rules = IF version = 1 THEN wanted ELSE {}

(* What a user wrote into config.toml is lost only to a start that had     *)
(* already looked for the file when it was written (lib.rs load_config).   *)
EditsLostOnlyToRacers ==
    [][(configFile \in Edits /\ configFile' \notin Edits)
         => \E p \in racers : phase[p] \in {"saving", "writing"}]_vars

(* A start ends up running, unless it is killed or something upset it.     *)
StartSucceeds ==
    \A p \in Procs :
        phase[p] = "opening" ~> (phase[p] \in {"running", "off"} \/ upsets # {})

============================================================================
