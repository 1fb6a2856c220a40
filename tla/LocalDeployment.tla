----------------------------- MODULE LocalDeployment -----------------------------
(***************************************************************************)
(* Install, upgrade and uninstall of a release on the user's machine:       *)
(* packages/local-deployment (installer, uninstaller, transaction, steps,   *)
(* launchd service) and the two installers of packages/plugin-runtime that  *)
(* edit files of Codex, hooks.json and its trust state.                     *)
(*                                                                         *)
(* A command is a list of steps; when one throws, the completed ones are    *)
(* undone in reverse order.  Steps and their undoing fail, a step that      *)
(* throws may have done half of its work, or all of it: its rollback is     *)
(* registered only when it returns.  The process dies anywhere, and the     *)
(* user edits his hooks at any moment, also between an installer's read of  *)
(* them and its write.  Nothing reads the journal of a dead command back:   *)
(* the next one starts from what is on disk.                                *)
(***************************************************************************)
EXTENDS Integers, Sequences

CONSTANTS
    Absent,
    Versions,        \* releases a command can install
    MaxCommands,
    MaxEdits,        \* edits of the user
    MaxThrows,       \* calls that throw
    MaxDeaths        \* commands that die

Files == {"config", "agent", "sidecar-launcher", "cli-launcher"}
Paths == Files \cup {"current", "manifest"}

Rendered == "RENDERED"

(* The manifest names the release, the one before it and those it owns.     *)
Manifests == [version : Versions, previous : Versions \cup {Absent}, owned : Seq(Versions)]
Receipts == [state : {"PREPARED", "ACTIVE"}, base : SUBSET Nat]
Hooks == [user : SUBSET Nat, ours : {"NO", "YES", "ALTERED"}]

(* Absent stands for what is not there.                                     *)
ASSUME DeploymentAssumption ==
    /\ {MaxCommands, MaxEdits, MaxThrows, MaxDeaths} \subseteq Nat
    /\ Absent \notin Versions \cup {Rendered, "PREPARED", "ACTIVE"}
    /\ Absent \notin Manifests /\ Absent \notin Receipts /\ Absent \notin Hooks

VARIABLES
    disk,            \* the machine: see DInit
    command,         \* the running command
    edits,           \* edits the user has made
    commands, throws, deaths,
    raced,           \* (auxiliary) edits made between an installer's read and write
    left,            \* (auxiliary) what steps that threw have left, unreported
    died,            \* (auxiliary) a command has died
    unrestored       \* (auxiliary) something could not be taken back

counters == <<edits, commands, throws, deaths>>
dvars == <<disk, command, counters, raced, left, died, unrestored>>

NoCommand == [phase |-> "idle"]

(* hooks: hooks.json, as the edits of the user that are in it and the state  *)
(* of our entry; receipt and trusted: the receipts of the two installers; trust: the hash *)
(* Codex trusts our entry at; trash: quarantined releases with their index. *)
DInit ==
    /\ disk = [at |-> [p \in Paths |-> Absent], releases |-> {}, trash |-> {},
               hooks |-> [user |-> {}, ours |-> "NO"], receipt |-> Absent,
               trust |-> "BEFORE", trusted |-> Absent, service |-> Absent]
    /\ command = NoCommand
    /\ edits = 0 /\ commands = 0 /\ throws = 0 /\ deaths = 0
    /\ raced = {} /\ left = {} /\ died = FALSE /\ unrestored = FALSE

-----------------------------------------------------------------------------
(* HookConfigurationInstaller.                                              *)
Before(receipt) == [user |-> receipt.base, ours |-> "NO"]
After(receipt) == [user |-> receipt.base, ours |-> "YES"]

HooksMayInstall(d) ==
    IF d.receipt = Absent THEN d.hooks.ours # "ALTERED"
    ELSE \/ d.hooks = After(d.receipt)
         \/ d.receipt.state = "PREPARED" /\ d.hooks = Before(d.receipt)

Receipt(d, state) == [state |-> state, base |-> d.hooks.user]

HooksInstalled(d) == [d EXCEPT !.receipt = Receipt(d, "ACTIVE"), !.hooks.ours = "YES"]

(* d is the machine, v the same with hooks.json as the installer read it:   *)
(* the receipt is prepared, then hooks.json written, then the receipt made  *)
(* active, each by a rename that a failing chmod may follow.                *)
HooksInstalledPartly(d, v) ==
    IF d.receipt # Absent /\ d.receipt.state = "ACTIVE" THEN {}
    ELSE {[d EXCEPT !.receipt = Receipt(v, "PREPARED")],
          [HooksInstalled(v) EXCEPT !.receipt = Receipt(v, "PREPARED")], HooksInstalled(v)}

HooksConflict(d) == d.receipt # Absent /\ d.hooks.ours = "ALTERED"

\* Mutant of Unmerged: the original text is put back whatever became of the file.
OriginalAnyway(d) == Before(d.receipt)

(* The original text when nobody touched the file, else our entry taken out.*)
Unmerged(d) ==
    IF d.hooks = After(d.receipt) THEN Before(d.receipt) ELSE [d.hooks EXCEPT !.ours = "NO"]

HooksRemoved(d) ==
    IF d.receipt = Absent THEN d ELSE [d EXCEPT !.hooks = Unmerged(d), !.receipt = Absent]

(* CodexHookTrustInstaller: Codex must discover our entry.                  *)
TrustMayInstall(d) ==
    /\ d.hooks.ours = "YES"
    /\ \/ d.trusted = Absent \/ d.trust = "OURS"
       \/ d.trusted = "PREPARED" /\ d.trust = "BEFORE"

TrustInstalled(d) == [d EXCEPT !.trusted = "ACTIVE", !.trust = "OURS"]

(* The receipt is prepared, Codex's state written, the receipt made active.  *)
TrustInstalledPartly(d) ==
    IF d.trusted = "ACTIVE" THEN {}
    ELSE {[d EXCEPT !.trusted = p[1], !.trust = p[2]] :
            p \in {<<"PREPARED", d.trust>>, <<"PREPARED", "OURS">>, <<"ACTIVE", "OURS">>}}

(* The step of an install removes what it registered when it throws, which   *)
(* may throw too, between Codex's state and the receipt.                    *)
TrustCleanedPartly(d) ==
    IF d.trusted # Absent THEN {}
    ELSE {[d EXCEPT !.trusted = r, !.trust = "BEFORE"] : r \in {"PREPARED", "ACTIVE"}}

TrustConflict(d) == d.trusted # Absent /\ d.trust # "OURS"

TrustRemoved(d) ==
    IF d.trusted = Absent THEN d ELSE [d EXCEPT !.trusted = Absent, !.trust = "BEFORE"]

(* launchd runs what `current' points to when it starts the service.        *)
Started(d) ==
    IF d.service # Absent \/ d.at["agent"] = Absent THEN d ELSE [d EXCEPT !.service = d.at["current"]]
Stopped(d) == [d EXCEPT !.service = Absent]

-----------------------------------------------------------------------------
(* The steps of the two commands, in order.                                 *)
Step(do, path, value) == [do |-> do, path |-> path, value |-> value]
Replace(path, value) == Step("replace", path, value)

(* The two releases before this one stay with the manifest.                 *)
Retained(v, m) ==
    (IF m.version = v THEN <<>> ELSE <<m.version>>) \o
    (IF m.previous \in {v, m.version, Absent} THEN <<>> ELSE <<m.previous>>)

Manifest(v) ==
    LET m == disk.at["manifest"]
    IN IF m = Absent THEN [version |-> v, previous |-> Absent, owned |-> <<v>>]
       ELSE [version |-> v, previous |-> m.version, owned |-> <<v>> \o Retained(v, m)]

\* Mutant of InstallSteps: the release is selected before it is staged.
SelectedFirst(v, manifest) ==
    <<Replace("config", Rendered), Replace("agent", Rendered), Replace("current", v),
      Step("stage", v, Absent), Replace("sidecar-launcher", Rendered), Replace("cli-launcher", Rendered),
      Step("merge-hooks", Absent, Absent), Step("trust-hooks", Absent, Absent),
      Replace("manifest", manifest), Step("activate", Absent, Absent)>>

InstallSteps(v, manifest) ==
    <<Step("stage", v, Absent), Replace("config", Rendered), Replace("agent", Rendered),
      Replace("current", v), Replace("sidecar-launcher", Rendered), Replace("cli-launcher", Rendered),
      Step("merge-hooks", Absent, Absent), Step("trust-hooks", Absent, Absent),
      Replace("manifest", manifest), Step("activate", Absent, Absent)>>

UninstallSteps(m) ==
    <<Step("stop", Absent, Absent), Step("untrust-hooks", Absent, Absent),
      Step("unmerge-hooks", Absent, Absent), Replace("agent", Absent),
      Replace("sidecar-launcher", Absent), Replace("cli-launcher", Absent),
      Replace("config", Absent), Replace("current", Absent)>>
    \o [i \in DOMAIN m.owned |-> Step("quarantine", m.owned[i], i)]
    \o <<Replace("manifest", Absent)>>

(* What a step's own checks allow.                                          *)
Applies(s, d) ==
    /\ s.do = "merge-hooks" => HooksMayInstall(d)
    /\ s.do = "trust-hooks" => TrustMayInstall(d)
    /\ s.do = "unmerge-hooks" => ~HooksConflict(d)
    /\ s.do = "untrust-hooks" => ~TrustConflict(d)

Applied(s, d) ==
    CASE s.do = "replace" -> [d EXCEPT !.at[s.path] = s.value]
      [] s.do = "stage" -> [d EXCEPT !.releases = @ \cup {s.path}]
      [] s.do = "merge-hooks" -> HooksInstalled(d)
      [] s.do = "trust-hooks" -> TrustInstalled(d)
      [] s.do = "unmerge-hooks" -> HooksRemoved(d)
      [] s.do = "untrust-hooks" -> TrustRemoved(d)
      [] s.do = "activate" -> Started(Stopped(d))
      [] s.do = "stop" -> Stopped(d)
      [] s.do = "quarantine" ->
           IF s.path \notin d.releases THEN d
           ELSE [d EXCEPT !.releases = @ \ {s.path}, !.trash = @ \cup {<<s.path, s.value>>}]

(* A file is renamed into place before its mode is set: when that throws,   *)
(* it stays.  Links are only renamed, and what is removed only unlinked.    *)
WrittenLast(s) == s.do = "replace" /\ s.path # "current" /\ s.value # Absent

(* What a step that throws, or dies, may have done; v is the machine with   *)
(* hooks.json as the step read it.  A failed activation stops the service   *)
(* again, unless launchd fails it once more.                                *)
Partly(s, d, v) ==
    {d} \cup
    CASE WrittenLast(s) -> {Applied(s, d)}
      [] s.do = "merge-hooks" /\ Applies(s, v) -> HooksInstalledPartly(d, v)
      [] s.do = "trust-hooks" /\ Applies(s, d) -> TrustInstalledPartly(d) \cup TrustCleanedPartly(d)
      [] s.do = "unmerge-hooks" /\ v.receipt # Absent /\ Applies(s, v) -> {[d EXCEPT !.hooks = Unmerged(v)]}
      [] s.do = "untrust-hooks" /\ d.trusted # Absent /\ Applies(s, d) -> {[d EXCEPT !.trust = "BEFORE"]}
      [] s.do = "activate" -> {Stopped(d), Started(Stopped(d))}
      [] s.do = "stop" -> {Stopped(d)}
      [] OTHER -> {}

\* Mutant of Unlinked: the link is removed, whatever it was before.
AlwaysUnlinked(s, was) == Absent

(* What the rollback of a replaced or removed path leaves there.            *)
Unlinked(s, was) == was.at[s.path]

(* The rollback of step s; `was' is the machine when the steps were planned.*)
Undoes(s, d, was) ==
    /\ s.do = "merge-hooks" /\ was.receipt = Absent => ~HooksConflict(d)
    /\ s.do = "trust-hooks" /\ was.trusted = Absent => ~TrustConflict(d)
    /\ s.do = "unmerge-hooks" /\ was.receipt # Absent => HooksMayInstall(d)
    /\ s.do = "untrust-hooks" /\ was.trusted # Absent => TrustMayInstall(d)

Undone(s, d, was) ==
    CASE s.do = "replace" -> [d EXCEPT !.at[s.path] = Unlinked(s, was)]
      [] s.do = "stage" -> [d EXCEPT !.releases = IF s.path \in was.releases THEN @ ELSE @ \ {s.path}]
      [] s.do = "merge-hooks" -> IF was.receipt = Absent THEN HooksRemoved(d) ELSE d
      [] s.do = "trust-hooks" -> IF was.trusted = Absent THEN TrustRemoved(d) ELSE d
      [] s.do = "unmerge-hooks" -> IF was.receipt # Absent THEN HooksInstalled(d) ELSE d
      [] s.do = "untrust-hooks" -> IF was.trusted # Absent THEN TrustInstalled(d) ELSE d
      [] s.do = "activate" -> Stopped(d)
      [] s.do = "stop" -> IF was.service # Absent THEN Started(d) ELSE d
      [] s.do = "quarantine" ->
           IF <<s.path, s.value>> \notin d.trash THEN d
           ELSE [d EXCEPT !.releases = @ \cup {s.path}, !.trash = @ \ {<<s.path, s.value>>}]

(* The rollbacks that do what another step does.                            *)
Opposite(s, was) ==
    CASE s.do = "merge-hooks" /\ was.receipt = Absent -> "unmerge-hooks"
      [] s.do = "unmerge-hooks" /\ was.receipt # Absent -> "merge-hooks"
      [] s.do = "trust-hooks" /\ was.trusted = Absent -> "untrust-hooks"
      [] s.do = "activate" -> "stop"
      [] OTHER -> "none"

(* What a rollback that throws, or dies, may have done.                     *)
UndonePartly(s, d, v, was) ==
    CASE s.do = "replace" -> Partly(Replace(s.path, was.at[s.path]), d, v)
      [] s.do = "stop" /\ was.service # Absent -> {d, Started(d)}
      [] s.do = "untrust-hooks" /\ was.trusted # Absent -> {d} \cup TrustInstalledPartly(d)
      [] OTHER -> Partly(Step(Opposite(s, was), Absent, Absent), d, v)

-----------------------------------------------------------------------------
Begun(kind, steps) ==
    [phase |-> "apply", kind |-> kind, steps |-> steps, at |-> 1, was |-> disk, seen |-> Absent]

(* Without a manifest nothing that it would own may be there.               *)
NothingUnowned ==
    /\ \A p \in Paths : disk.at[p] = Absent
    /\ disk.receipt = Absent /\ disk.trusted = Absent

Begin(kind, steps) ==
    /\ command.phase = "idle"
    /\ commands < MaxCommands /\ commands' = commands + 1
    /\ command' = Begun(kind, steps)
    /\ UNCHANGED <<disk, edits, throws, deaths, raced, left, died, unrestored>>

Install(v) ==
    /\ disk.at["manifest"] = Absent => NothingUnowned
    /\ Begin("install", InstallSteps(v, Manifest(v)))

(* The quarantine of a release is named by its index alone: one left behind *)
(* refuses the command.                                                     *)
Uninstall ==
    LET m == disk.at["manifest"] IN
    /\ m # Absent
    /\ \A i \in DOMAIN m.owned : <<m.owned[i], i>> \notin disk.trash
    /\ Begin("uninstall", UninstallSteps(m))

Applying == command.phase = "apply" /\ command.at <= Len(command.steps)
Undoing == command.phase = "undo" /\ command.at > 0
Current == command.steps[command.at]

Throws == throws < MaxThrows /\ throws' = throws + 1

Rollback(last) == command' = [command EXCEPT !.phase = "undo", !.at = last, !.seen = Absent]

(* HookConfigurationInstaller installs, or uninstalls: in a step or in the   *)
(* rollback of the other.                                                   *)
Merging ==
    \/ Applying /\ Current.do = "merge-hooks"
    \/ Undoing /\ Opposite(Current, command.was) = "merge-hooks"

Unmerging ==
    \/ Applying /\ Current.do = "unmerge-hooks"
    \/ Undoing /\ Opposite(Current, command.was) = "unmerge-hooks"

(* It reads hooks.json, compares it with the receipt and goes on to write it.*)
Rewrites ==
    \/ Merging /\ HooksMayInstall(disk) /\ (disk.receipt # Absent => disk.hooks = Before(disk.receipt))
    \/ Unmerging /\ disk.receipt # Absent /\ ~HooksConflict(disk)

Reading == command.phase # "idle" /\ command.seen # Absent

(* What is written is computed from what was read.                          *)
View == IF Reading THEN [disk EXCEPT !.hooks = command.seen] ELSE disk

Ready == Rewrites => Reading

(* An edit that comes while the receipt is prepared is noticed at a second   *)
(* reading and is a step that throws; this is the last reading.             *)
ReadHooks ==
    /\ Rewrites /\ ~Reading
    /\ command' = [command EXCEPT !.seen = disk.hooks]
    /\ UNCHANGED <<disk, counters, raced, left, died, unrestored>>

Apply ==
    /\ Applying /\ Ready /\ Applies(Current, View)
    /\ disk' = Applied(Current, View)
    /\ command' = [command EXCEPT !.at = @ + 1, !.seen = Absent]
    /\ UNCHANGED <<counters, raced, left, died, unrestored>>

Changed(d, e) ==
    {p \in Paths : e.at[p] # d.at[p]} \cup (IF e.receipt = d.receipt THEN {} ELSE {"receipt"})
    \cup (IF e.trusted = d.trusted THEN {} ELSE {"trusted"})

(* A step refuses, throws on its way, or is done and its journal entry is    *)
(* not.  Only the last is rolled back with the steps before it.             *)
Fail ==
    /\ Applying
    /\ \/ /\ ~Applies(Current, View) /\ UNCHANGED <<disk, throws, left, unrestored>>
          /\ Rollback(command.at - 1)
       \/ /\ Throws /\ Rollback(command.at - 1)
          /\ disk' \in Partly(Current, disk, View)
          /\ left' = left \cup Changed(disk, disk')
          /\ unrestored' = (unrestored \/ disk'.service \notin {disk.service, Absent})
       \/ /\ Throws /\ Rollback(command.at)
          /\ Ready /\ Applies(Current, View) /\ disk' = Applied(Current, View)
          /\ UNCHANGED <<left, unrestored>>
    /\ UNCHANGED <<edits, commands, deaths, raced, died>>

(* COMMITTED; an uninstall then removes what it quarantined, and may throw. *)
CommitCommand ==
    /\ command.phase = "apply" /\ command.at > Len(command.steps)
    /\ \/ /\ command' = NoCommand
          /\ \/ /\ disk' = IF command.kind = "install" THEN disk ELSE [disk EXCEPT !.trash = {}]
                /\ UNCHANGED throws
             \/ Throws /\ command.kind = "uninstall" /\ UNCHANGED disk
          /\ left' = {} /\ died' = FALSE /\ unrestored' = FALSE
       \/ /\ Throws /\ Rollback(Len(command.steps))
          /\ UNCHANGED <<disk, left, died, unrestored>>
    /\ UNCHANGED <<edits, commands, deaths, raced>>

(* A rollback that throws is reported, and the others still run.            *)
Undo ==
    /\ Undoing
    /\ command' = [command EXCEPT !.at = @ - 1, !.seen = Absent]
    /\ \/ /\ Ready /\ Undoes(Current, View, command.was)
          /\ disk' = Undone(Current, View, command.was)
          /\ UNCHANGED <<throws, unrestored>>
       \/ /\ unrestored' = TRUE
          /\ IF Undoes(Current, View, command.was)
             THEN Throws /\ disk' \in UndonePartly(Current, disk, View, command.was)
             ELSE UNCHANGED <<disk, throws>>
    /\ UNCHANGED <<edits, commands, deaths, raced, left, died>>

(* ROLLED_BACK; an install that touched the service starts the old one.     *)
End ==
    /\ command.phase = "undo" /\ command.at = 0 /\ command' = NoCommand
    /\ \/ /\ disk' = IF command.kind = "install" /\ command.was.service # Absent THEN Started(disk) ELSE disk
          /\ UNCHANGED throws
       \/ Throws /\ UNCHANGED disk
    /\ UNCHANGED <<edits, commands, deaths, raced, left, died, unrestored>>

Die ==
    /\ command.phase # "idle" /\ command' = NoCommand
    /\ deaths < MaxDeaths /\ deaths' = deaths + 1 /\ died' = TRUE
    /\ disk' \in {disk} \cup (IF Applying THEN Partly(Current, disk, View)
                              ELSE IF Undoing /\ Undoes(Current, View, command.was)
                              THEN UndonePartly(Current, disk, View, command.was) ELSE {})
    /\ UNCHANGED <<edits, commands, throws, raced, left, unrestored>>

(* The user adds to his part of hooks.json, and perhaps changes our entry.  *)
Edit ==
    /\ edits < MaxEdits /\ edits' = edits + 1
    /\ \E ours \in IF disk.hooks.ours = "YES" THEN {"YES", "NO", "ALTERED"} ELSE {disk.hooks.ours} :
         disk' = [disk EXCEPT !.hooks = [user |-> disk.hooks.user \cup {edits + 1}, ours |-> ours]]
    /\ raced' = IF Reading THEN raced \cup {edits + 1} ELSE raced
    /\ UNCHANGED <<command, commands, throws, deaths, left, died, unrestored>>

(* The user, or Codex, changes the hash our entry is trusted at.            *)
Distrust ==
    /\ MaxEdits > 0 /\ disk.trust = "OURS"
    /\ disk' = [disk EXCEPT !.trust = "OTHER"]
    /\ UNCHANGED <<command, counters, raced, left, died, unrestored>>

DNext ==
    \/ \E v \in Versions : Install(v)
    \/ Uninstall \/ ReadHooks \/ Apply \/ Fail \/ CommitCommand \/ Undo \/ End \/ Die \/ Edit \/ Distrust

DSpec == DInit /\ [][DNext]_dvars

-----------------------------------------------------------------------------
(* Properties.                                                             *)

(* Wherever a command dies or fails, neither `current', which every launcher *)
(* and launchd resolve at each start, nor the running service is a release  *)
(* that is not there, unless something could not be undone and no command    *)
(* has committed since.                                                     *)
NothingDangles ==
    ~unrestored => {disk.at["current"], disk.service} \ {Absent} \subseteq disk.releases

(* A command that ends, committed or rolled back, leaves one whole          *)
(* installation or none: the release of the manifest is selected and, if    *)
(* any, runs, over all files and both receipts; without a manifest there is *)
(* nothing.  A commit says so whatever commands died or failed before it; a  *)
(* rollback, when what it started from was whole and no rollback of a step   *)
(* threw.  Excepted is what a step that threw had already written: its       *)
(* rollback was not registered (transaction.ts:49), so the file or receipt   *)
(* stays, not among the reported failures; nothing else stays.              *)
Whole(d, v, rest) ==
    /\ d.at["current"] = v /\ v \in d.releases
    /\ \A f \in Files \ rest : d.at[f] = Rendered
    /\ d.receipt # Absent /\ d.trusted # Absent
    /\ d.service \in {Absent, v}

Nothing(d, rest) ==
    /\ \A p \in Paths \ rest : d.at[p] = Absent
    /\ "receipt" \in rest \/ d.receipt = Absent
    /\ "trusted" \in rest \/ d.trusted = Absent
    /\ d.service = Absent

Owned(d) == IF d.at["manifest"] = Absent THEN Absent ELSE d.at["manifest"].version

Complete(d, rest) ==
    \E v \in Versions \cup {Absent} :
       /\ "manifest" \in rest \/ v = Owned(d)
       /\ IF v = Absent THEN Nothing(d, rest) ELSE Whole(d, v, rest)

AllOrNothing == command.phase = "idle" /\ ~died /\ ~unrestored => Complete(disk, left)

(* No install, upgrade, uninstall or rollback takes back an edit of          *)
(* hooks.json, whatever the user did to our entry meanwhile, save one that   *)
(* falls between the installer's last reading of the file and its rename     *)
(* over it (plugin-runtime installer.ts:196-199 and 222-239 await in        *)
(* between), which is overwritten unseen.                                   *)
UserEditsKept == (1..edits) \ raced \subseteq disk.hooks.user
=============================================================================
