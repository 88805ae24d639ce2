-------------------------------- MODULE RigHost ---------------------------------
(***************************************************************************)
(* Many rigs on one host: `factory rig ...` (crates/factory/src/rig.rs,    *)
(* rig_lifecycle.rs) over the host registry and docker                     *)
(* (crates/app/src/rigs.rs, crates/infra/src/docker.rs).  One operator     *)
(* runs one command at a time; a command is a sequence of file writes and  *)
(* docker calls, any of which can be its last.  What docker does with a    *)
(* compose project is external, as is the work of the rigs' roles: a       *)
(* landing is pushed to the repo volume and then recorded in the ledger    *)
(* volume (see Landing).                                                   *)
(***************************************************************************)
EXTENDS Naturals, FiniteSets

CONSTANTS
    Rigs,          \* names an operator gives to rigs
    MaxLandings,   \* bound: landings of a rig
    MaxHostFaults, \* bound: failed and broken-off commands
    HostFailAt     \* the steps at which a command may end early

RigHostAssumption ==
    /\ Rigs # {}
    /\ MaxLandings \in Nat
    /\ MaxHostFaults \in Nat

VARIABLES
    registry,      \* rigs.toml: the registered rigs
    files,         \* the rigs whose directory holds a compose.env
    roles,         \* the rigs whose roles run
    served,        \* the rigs whose ledger service runs
    networks,      \* the rigs whose compose network exists
    volumes,       \* volumes[r]: landings the ledger and the repo volume hold; a set, {} or {n}
    archives,      \* the tarballs of finished backups
    console,       \* the console's compose file, and whether it is up
    cmd,           \* the operator's command
    hostFaults     \* faults left to happen

rigHostVars ==
    <<registry, files, roles, served, networks, volumes, archives, console, cmd, hostFaults>>

NoVolumes == [ledger |-> {}, repo |-> {}]
NoCommand == [at |-> "idle"]

RigHostInit ==
    /\ registry = {}
    /\ files = {}
    /\ roles = {}
    /\ served = {}
    /\ networks = {}
    /\ volumes = [r \in Rigs |-> NoVolumes]
    /\ archives = {}
    /\ console = [mounts |-> {}, joins |-> {}, up |-> FALSE]
    /\ cmd = NoCommand
    /\ hostFaults = MaxHostFaults

\* The contents of a volume; docker makes an empty one for whoever mounts a missing volume.
Held(volume) == IF volume = {} THEN 0 ELSE CHOOSE n \in volume : TRUE

-----------------------------------------------------------------------------
(* A rig at work: the integrator pushes a landing, then records it.        *)

Working(r) == r \in roles /\ r \in served

PushLanding(r) ==
    /\ Working(r)
    /\ Held(volumes[r].repo) = Held(volumes[r].ledger)
    /\ Held(volumes[r].repo) < MaxLandings
    /\ volumes' = [volumes EXCEPT ![r].repo = {Held(volumes[r].repo) + 1}]
    /\ UNCHANGED <<registry, files, roles, served, networks, archives, console, cmd, hostFaults>>

\* A landing the repository already holds is only recorded.
RecordLanding(r) ==
    /\ Working(r)
    /\ Held(volumes[r].ledger) < Held(volumes[r].repo)
    /\ volumes' = [volumes EXCEPT ![r].ledger = {Held(volumes[r].ledger) + 1}]
    /\ UNCHANGED <<registry, files, roles, served, networks, archives, console, cmd, hostFaults>>

-----------------------------------------------------------------------------
(* The frame of a command: a step at its place, the next place or the end. *)

CommandAt(at) == cmd.at = at
Goto(at) == cmd' = [cmd EXCEPT !.at = at]
CommandEnds == cmd' = NoCommand
Docker == <<roles, served, networks, volumes>>
Disk == <<registry, files, console>>

\* Layout::load, and the lookup every command but create and console starts with.
Begin(what, r, reg) ==
    /\ cmd = NoCommand
    /\ cmd' = [at |-> what, rig |-> r, registry |-> reg, tar |-> 0]
    /\ UNCHANGED <<Docker, Disk, archives, hostFaults>>

BeginCreate(r) == r \notin registry /\ Begin("create", r, registry \cup {r})
BeginDestroy(r) == r \in registry /\ Begin("destroy", r, registry \ {r})
BeginStart(r) == r \in registry /\ Begin("up", r, registry)
BeginStop(r) == r \in registry /\ Begin("stop", r, registry)
BeginBackup(r) == r \in registry /\ Begin("backup", r, registry)
BeginRestore(r) ==
    r \in registry /\ (\E a \in archives : a.rig = r) /\ Begin("restore", r, registry)
BeginConsole == Begin("console", CHOOSE r \in Rigs : TRUE, registry)

\* Layout::save: the registry, and the console's files over every registered rig.
Save(reg) ==
    /\ registry' = reg
    /\ console' = [console EXCEPT !.mounts = reg, !.joins = reg]

\* A step fails or the operator breaks off: the command ends where it is.
BreakOff ==
    /\ cmd.at \in HostFailAt
    /\ hostFaults > 0
    /\ hostFaults' = hostFaults - 1
    /\ CommandEnds
    /\ UNCHANGED <<Docker, Disk, archives>>

\* compose up that fails halfway leaves the ledger, and maybe some roles, running.
UpHalf ==
    /\ CommandAt("up") /\ "up" \in HostFailAt
    /\ cmd.rig \in files
    /\ hostFaults > 0
    /\ hostFaults' = hostFaults - 1
    /\ served' = served \cup {cmd.rig}
    /\ networks' = networks \cup {cmd.rig}
    /\ volumes' = [volumes EXCEPT ![cmd.rig].ledger = {Held(@)}, ![cmd.rig].repo = {Held(@)}]
    /\ roles' \in {roles, roles \cup {cmd.rig}}
    /\ CommandEnds
    /\ UNCHANGED <<Disk, archives>>

\* docker compose refuses a project whose env file is gone.
NoEnvFile ==
    /\ cmd.at \in {"destroy", "up", "stop", "restore"}
    /\ cmd.rig \notin files
    /\ CommandEnds
    /\ UNCHANGED <<Docker, Disk, archives, hostFaults>>

-----------------------------------------------------------------------------
(* create, start and stop.                                                 *)

WriteFiles ==
    /\ CommandAt("create")
    /\ files' = files \cup {cmd.rig}
    /\ Goto("register")
    /\ UNCHANGED <<Docker, registry, console, archives, hostFaults>>

\* Mutant of Register: a rig that is started is not saved.
RegisterUnstarted ==
    /\ CommandAt("register")
    /\ \/ Save(cmd.registry) /\ CommandEnds
       \/ UNCHANGED <<registry, console>> /\ Goto("up")
    /\ UNCHANGED <<Docker, files, archives, hostFaults>>

Register ==
    /\ CommandAt("register")
    /\ Save(cmd.registry)
    /\ \E start \in BOOLEAN : IF start THEN Goto("up") ELSE CommandEnds
    /\ UNCHANGED <<Docker, files, archives, hostFaults>>

\* checked_up: everything up, volumes and network made when missing.
Up ==
    /\ CommandAt("up")
    /\ cmd.rig \in files
    /\ roles' = roles \cup {cmd.rig}
    /\ served' = served \cup {cmd.rig}
    /\ networks' = networks \cup {cmd.rig}
    /\ volumes' = [volumes EXCEPT ![cmd.rig].ledger = {Held(@)}, ![cmd.rig].repo = {Held(@)}]
    /\ Goto("doctor")
    /\ UNCHANGED <<Disk, archives, hostFaults>>

\* The doctor finds nothing, and the command is done.
Doctor ==
    /\ CommandAt("doctor")
    /\ CommandEnds
    /\ UNCHANGED <<Docker, Disk, archives, hostFaults>>

\* A doctor that finds something exits nonzero, which is an error of the docker call, and the
\* `?` on that call comes before the look at its report: the command returns with an error.
DoctorFinds ==
    /\ CommandAt("doctor")
    /\ Goto("unfit")
    /\ UNCHANGED <<Docker, Disk, archives, hostFaults>>

\* The operator has read the error.
ReadError ==
    /\ CommandAt("unfit")
    /\ CommandEnds
    /\ UNCHANGED <<Docker, Disk, archives, hostFaults>>

\* STOP_ROLES: the ledger stays up.
Stop ==
    /\ CommandAt("stop")
    /\ cmd.rig \in files
    /\ roles' = roles \ {cmd.rig}
    /\ CommandEnds
    /\ UNCHANGED <<served, networks, volumes, Disk, archives, hostFaults>>

-----------------------------------------------------------------------------
(* destroy.                                                                *)

\* `docker compose down`, with -v when the volumes go too.
Down ==
    /\ CommandAt("destroy")
    /\ cmd.rig \in files
    /\ roles' = roles \ {cmd.rig}
    /\ served' = served \ {cmd.rig}
    /\ networks' = networks \ {cmd.rig}
    /\ volumes' \in {volumes, [volumes EXCEPT ![cmd.rig] = NoVolumes]}
    /\ Goto("remove_dir")
    /\ UNCHANGED <<Disk, archives, hostFaults>>

RemoveDir ==
    /\ CommandAt("remove_dir")
    /\ files' = files \ {cmd.rig}
    /\ Goto("forget")
    /\ UNCHANGED <<Docker, registry, console, archives, hostFaults>>

Forget ==
    /\ CommandAt("forget")
    /\ Save(cmd.registry)
    /\ CommandEnds
    /\ UNCHANGED <<Docker, files, archives, hostFaults>>

\* By hand, as restore's refusal tells the operator to.
ComposeDown(r) ==
    /\ cmd = NoCommand
    /\ r \in served
    /\ roles' = roles \ {r}
    /\ served' = served \ {r}
    /\ networks' = networks \ {r}
    /\ UNCHANGED <<volumes, Disk, archives, cmd, hostFaults>>

-----------------------------------------------------------------------------
(* backup and restore.                                                     *)

\* Mutant of BackupOrder: the repository first.
RepoFirst == <<"repo", "ledger">>

\* The volumes in the order a backup archives them, while the rig may be at work.
BackupOrder == <<"ledger", "repo">>

\* tar of a volume, made by mounting it when it is missing.
Archive(which) ==
    /\ volumes' =
           [volumes EXCEPT ![cmd.rig] = [@ EXCEPT ![which] = {Held(volumes[cmd.rig][which])}]]
    /\ UNCHANGED <<roles, served, networks, Disk, hostFaults>>

ArchiveFirst ==
    /\ CommandAt("backup")
    /\ Archive(BackupOrder[1])
    /\ cmd' = [cmd EXCEPT !.at = "archive", !.tar = Held(volumes[cmd.rig][BackupOrder[1]])]
    /\ UNCHANGED archives

ArchiveSecond ==
    /\ CommandAt("archive")
    /\ Archive(BackupOrder[2])
    /\ archives' = archives \cup
           {[rig |-> cmd.rig,
             of |-> [w \in {"ledger", "repo"} |->
                         IF w = BackupOrder[1] THEN cmd.tar ELSE Held(volumes[cmd.rig][w])]]}
    /\ CommandEnds

\* The command refuses while any service runs.
RestoreRefused ==
    /\ CommandAt("restore")
    /\ cmd.rig \in files
    /\ cmd.rig \in served \cup roles
    /\ CommandEnds
    /\ UNCHANGED <<Docker, Disk, archives, hostFaults>>

Refill(which, n) ==
    /\ volumes' = [volumes EXCEPT ![cmd.rig] = [@ EXCEPT ![which] = {n}]]
    /\ UNCHANGED <<roles, served, networks, Disk, archives, hostFaults>>

\* The ledger, and then the repository of the same backup or none: an operator restores the
\* ledger alone only when the repository is at least as far as it.
RestoreLedger ==
    /\ CommandAt("restore")
    /\ cmd.rig \in files
    /\ cmd.rig \notin served \cup roles
    /\ \E a \in archives :
           /\ a.rig = cmd.rig
           /\ Refill("ledger", a.of.ledger)
           /\ \/ cmd' = [cmd EXCEPT !.at = "restore_repo", !.tar = a.of.repo]
              \/ a.of.ledger <= Held(volumes[cmd.rig].repo) /\ CommandEnds

RestoreRepo ==
    /\ CommandAt("restore_repo")
    /\ Refill("repo", cmd.tar)
    /\ CommandEnds

-----------------------------------------------------------------------------
(* console.                                                                *)

SaveConsole ==
    /\ CommandAt("console")
    /\ Save(registry)
    /\ Goto("networks")
    /\ UNCHANGED <<Docker, files, archives, hostFaults>>

\* The console joins the networks that exist; it mounts every rig's ledger volume.
WriteConsole ==
    /\ CommandAt("networks")
    /\ console' = [console EXCEPT !.joins = registry \cap networks]
    /\ Goto("console_up")
    /\ UNCHANGED <<Docker, registry, files, archives, hostFaults>>

\* docker compose fails when an external volume or network of the file is missing.
ConsoleStarts ==
    /\ \A r \in console.mounts : volumes[r].ledger # {}
    /\ console.joins \subseteq networks

ConsoleUpDown ==
    /\ CommandAt("console_up")
    /\ \/ console' = [console EXCEPT !.up = console.up \/ ConsoleStarts]
       \/ console' = [console EXCEPT !.up = FALSE]
    /\ CommandEnds
    /\ UNCHANGED <<Docker, registry, files, archives, hostFaults>>

-----------------------------------------------------------------------------
Command ==
    \/ WriteFiles \/ Register \/ Up \/ Doctor \/ DoctorFinds \/ ReadError \/ Stop
    \/ Down \/ RemoveDir \/ Forget
    \/ ArchiveFirst \/ ArchiveSecond
    \/ RestoreRefused \/ RestoreLedger \/ RestoreRepo
    \/ SaveConsole \/ WriteConsole \/ ConsoleUpDown
    \/ NoEnvFile

RigHostNext ==
    \/ \E r \in Rigs :
           \/ PushLanding(r) \/ RecordLanding(r)
           \/ BeginCreate(r) \/ BeginDestroy(r) \/ BeginStart(r) \/ BeginStop(r)
           \/ BeginBackup(r) \/ BeginRestore(r)
           \/ ComposeDown(r)
    \/ BeginConsole
    \/ Command
    \/ BreakOff \/ UpHalf

RigHostSpec == RigHostInit /\ [][RigHostNext]_rigHostVars

-----------------------------------------------------------------------------
(* Properties.                                                             *)

CommandPlaces ==
    {"create", "register", "up", "doctor", "unfit", "stop", "destroy", "remove_dir", "forget",
     "backup", "archive", "restore", "restore_repo", "console", "networks", "console_up"}

Landings == 0..MaxLandings
Volumes == {{}} \cup {{n} : n \in Landings}

CommandRecords ==
    [at : CommandPlaces, rig : Rigs, registry : SUBSET Rigs, tar : Landings]

\* The host, the console and the command in progress are of these shapes (Layout, HostRegistry).
RigHostTypeOK ==
    /\ registry \subseteq Rigs /\ files \subseteq Rigs
    /\ roles \subseteq Rigs /\ served \subseteq Rigs /\ networks \subseteq Rigs
    /\ volumes \in [Rigs -> [ledger : Volumes, repo : Volumes]]
    /\ archives \subseteq [rig : Rigs, of : [ledger : Landings, repo : Landings]]
    /\ console \in [mounts : SUBSET Rigs, joins : SUBSET Rigs, up : BOOLEAN]
    /\ cmd \in CommandRecords \cup {NoCommand}
    /\ hostFaults \in 0..MaxHostFaults

\* The registry tells the truth of the host: no roles run of a rig it does not know, whatever
\* step a create or a destroy stops at, so what spends tokens can be listed, stopped and
\* destroyed; and between commands every rig it knows has the files its commands need, so no
\* half-done create leaves a name that can be neither started nor destroyed (the order of save,
\* up, down and the writes in create and destroy).  A destroy broken off between removing the
\* directory and saving the registry does leave one, and is left out of HostFailAt.
RegistryIsTrue ==
    /\ roles \subseteq registry
    /\ cmd = NoCommand => registry \subseteq files

\* "a rig that cannot plan (missing harness, credential, or runtime tool) is stopped again and
\* the doctor report is the error" (rig_lifecycle.rs:69): when a start returns with what its
\* doctor found, the rig's roles do not run.
UnfitIsStopped == cmd.at = "unfit" => cmd.rig \notin roles

\* A ledger, live or brought back by a restore, records no landing its repository lacks:
\* backups are taken while the integrator works, ledger first (app::backup, rig restore).
LandingsExist ==
    cmd.at # "restore_repo" =>
        \A r \in Rigs : Held(volumes[r].ledger) <= Held(volumes[r].repo)
=============================================================================
