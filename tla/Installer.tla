------------------------------ MODULE Installer -----------------------------
(* `tsk install all`, `tsk dev install all`, `tsk dev uninstall ...` and the *)
(* session of scripts/dev.sh: which of the user's files hold lines of tsk,   *)
(* what the manifests and backups remember of them, and which daemon runs.   *)
(* A command is the list of steps it still has to take, in the order of the  *)
(* source. A step reads and writes one file; a command can fail or be killed *)
(* between any two of them, and `leave` may run beside the end of a session. *)
EXTENDS Naturals, Sequences, FiniteSets

CONSTANTS
    Terminals,     \* shells that can run a command at the same time
    Desks,         \* kinds of desktop: "lua" (Omarchy with Lua bindings), "waybar" (an older Omarchy),
                   \* "bare" (the same without a Waybar configuration)
    MaxCommands,   \* bound: commands begun, those that fail or are killed counted twice
    MaxFaults      \* bound: commands that fail or are killed half way

ASSUME BoundsAssumption ==
    /\ Desks \subseteq {"lua", "waybar", "bare"}
    /\ MaxCommands \in Nat /\ MaxFaults \in Nat

VARIABLES
    desk,     \* the machine: its kind, and whether the distro package is installed
    binds,    \* hyprland.conf, bindings.lua and the native gestures of input.conf
    bar,      \* Waybar's config.jsonc and style.css
    menu,     \* elephant.toml, the Omarchy shell and its plugin
    tools,    \* session schema, dev share tree, URL openers, editor setting, Chromium helper, unit
    saved,    \* manifests and backups, by profile
    session,  \* the dev-session marker, the daemons, the note that prod was stopped
    run,      \* the command each terminal runs
    bounds,   \* commands and faults so far
    past,     \* history: what whole commands established, as long as nothing began or broke since
    late      \* history: a backup with a line of dev came back after another uninstall had
              \* removed its manifest, and the dev share tree was not copied since

vars == <<desk, binds, bar, menu, tools, saved, session, run, bounds, past, late>>
---------------------------------------------------------------------------
Profiles == {"Prod", "Dev"}
Uis == {"shell", "tui"}
\* A file is a set of at most one content: {} when it does not exist.
File(contents) == {{}} \cup {{c} : c \in contents}
Content(file) == UNION file
\* A file of bindings holds managed lines of some profiles; Waybar's file has one cffi/tsk module.
Lines == File(SUBSET Profiles)
Bars == [tsk : Profiles \cup {"none"}, stock : BOOLEAN]
\* What a hypr manifest backs up: the bindings if there were any, input.conf if it was patched.
Backups == [text : Lines, native : BOOLEAN]
Helper == {"extension", "externalJson", "hostJson", "manifest"}

(* The steps of each command, as the code calls them.                        *)
InstallBins == <<"schema", "share", "openers", "editor">>
InstallHypr(p) ==
    <<"backup">>
        \o (IF desk.kind = "lua" THEN (IF p = "Dev" THEN <<"stripProdBlock">> ELSE <<>>) \o <<"block">>
            ELSE (IF p = "Dev" THEN <<"readDev", "stripDev">> ELSE <<>>)
                     \o <<"readProd", "stripProd", "append", "gestures">>)
        \o <<"hyprManifest">>
InstallWaybar == <<"barBackup", "pristine", "patchBar", "barManifest">>
InstallWalker == <<"elephant", "walkerManifest">>
InstallPlugin(ui) == <<ui, "enable", "patchMenu">>
InstallChromium == <<"extension", "externalJson", "hostJson", "helperManifest">>
InstallAll(ui) ==
    <<"main">> \o InstallBins \o InstallHypr("Prod") \o InstallPlugin(ui)
        \o (IF desk.packaged THEN <<"systemd">> ELSE <<>>) \o InstallChromium \o <<"exit">>
DevInstallAll ==
    <<"main">> \o InstallBins \o InstallHypr("Dev")
        \o (IF desk.kind = "lua" THEN InstallPlugin("shell") ELSE InstallWaybar \o InstallWalker)
        \o <<"exit">>
UninstallWaybar == <<"prodBar", "seed", "restoreBar", "unpatchBar", "dropBar">>
\* Mutant: the share tree goes before the lines that source it.
UninstallHyprShareFirst ==
    <<"loadHypr", "restore", "dropHypr", "removeShare", "readDev", "stripDev", "ensureProd">>
UninstallHypr ==
    <<"loadHypr", "restore", "dropHypr", "readDev", "stripDev">>
        \o (IF desk.kind = "lua" THEN <<"stripDevBlock", "disable", "unpatchMenu">> ELSE <<>>)
        \o <<"ensureProd", "removeShare">>
DevUninstallHypr == <<"main">> \o UninstallHypr \o <<"exit">>
DevUninstallAll == <<"main">> \o UninstallWaybar \o UninstallHypr \o <<"exit">>
Enter == <<"stopProd">> \o DevInstallAll \o <<"stopProd", "mark", "serve", "wait">>
Leave == <<"stopDev", "detect">> \o DevUninstallAll \o <<"unmark", "startProd", "done">>

Idle == [name |-> "none", todo |-> <<>>, buffer |-> {}, backup |-> [text |-> {}, native |-> FALSE],
         bar |-> {}, had |-> FALSE, restored |-> FALSE, was |-> FALSE, torn |-> FALSE,
         tearing |-> FALSE, whole |-> TRUE]
Profile(t) == IF run[t].name = "install" THEN "Prod" ELSE "Dev"
At(t, s) == run[t].todo # <<>> /\ Head(run[t].todo) = s
\* The rest of a command from a step on.
From(todo, s) ==
    LET i == CHOOSE j \in DOMAIN todo : todo[j] = s /\ \A k \in 1..(j - 1) : todo[k] # s
    IN  SubSeq(todo, i, Len(todo))
\* Take the step: leave r of the command's memory, and go on.
PopWith(t, r) ==
    /\ run' = [run EXCEPT ![t] = [r EXCEPT !.todo = Tail(@)]]
    /\ UNCHANGED <<desk, bounds, past>>
Pop(t) == PopWith(t, run[t])
Goto(t, todo) ==
    /\ run' = [run EXCEPT ![t].todo = todo]
    /\ UNCHANGED <<desk, bounds, past>>
Quiet == \A t \in Terminals : run[t] = Idle
\* What the whole command t established.
Establish(t, facts) == past' = IF run[t].whole THEN past \cup facts ELSE past
---------------------------------------------------------------------------
(* The machine before the commands: with or without tsk installed by the     *)
(* package, with the bar of an older release that still patched Waybar.      *)
Machine(kind, packaged, prod, own) ==
    LET mine == IF prod THEN {"Prod"} ELSE {}
        oldBar == [tsk |-> "none", stock |-> TRUE]
    IN  /\ desk = [kind |-> kind, packaged |-> packaged]
        /\ binds = [conf |-> IF kind = "lua" THEN {} ELSE {mine},
                    lua |-> IF kind = "lua" THEN {mine} ELSE {}, native |-> ~prod]
        /\ bar = IF kind # "waybar" THEN {}
                 ELSE IF prod THEN {[tsk |-> "Prod", stock |-> FALSE]} ELSE {oldBar}
        /\ menu = [elephant |-> IF kind = "waybar" THEN "own" ELSE "absent",
                   ui |-> IF prod /\ kind = "lua" THEN "shell" ELSE "none",
                   on |-> prod /\ kind = "lua", spaces |-> ~(prod /\ kind = "lua"),
                   patched |-> prod /\ kind = "lua"]
        /\ tools = [schema |-> prod, devShare |-> FALSE, openers |-> mine,
                    editor |-> IF own THEN "own" ELSE IF prod THEN "Prod" ELSE "unset",
                    helper |-> {}, enabled |-> prod /\ packaged]
        /\ saved = [hypr |-> [p \in Profiles |-> IF p \in mine THEN {[text |-> {{}}, native |-> kind # "lua"]} ELSE {}],
                    bar |-> [p \in Profiles |-> IF p \in mine /\ kind = "waybar" THEN {{oldBar}} ELSE {}],
                    plain |-> [p \in Profiles |-> {}],
                    pristine |-> [p \in Profiles |-> IF p \in mine /\ kind = "waybar" THEN {oldBar} ELSE {}],
                    walker |-> {}, ui |-> [p \in Profiles |-> "shell"]]
        /\ session = [marker |-> FALSE, prodUp |-> prod /\ packaged, devUp |-> FALSE, noted |-> FALSE]
Init ==
    /\ \E kind \in Desks, packaged \in BOOLEAN, prod \in BOOLEAN, own \in BOOLEAN :
        /\ own => kind = "lua" /\ packaged /\ ~prod   \* bound: the editor's setting matters to the doctor only
        /\ packaged /\ kind # "lua" => prod   \* bound: the package without tsk, where the doctor looks
        /\ prod => packaged                  \* bound: without the package, tsk is installed by a command first
        /\ Machine(kind, packaged, prod, own)
    /\ run = [t \in Terminals |-> Idle]
    /\ bounds = [commands |-> 0, faults |-> 0]
    /\ past = {}
    /\ late = FALSE
---------------------------------------------------------------------------
(* Beginning a command. Only uninstalls run beside each other, or beside a   *)
(* session that waits for its daemon: nothing in the code orders two         *)
(* installers, and no document asks for it.                                  *)
Alone(t) == \A u \in Terminals \ {t} : run[u] = Idle
Beside(t) == \A u \in Terminals \ {t} : run[u] = Idle \/ At(u, "wait") \/ run[u].name \in {"leave", "uninstall"}
DevIntegrationInstalled == "Dev" \in Content(binds.conf) \cup Content(binds.lua)
Stale == session.marker \/ DevIntegrationInstalled

Begin(t, name, todo, tearing) ==
    /\ run[t] = Idle
    /\ bounds.commands + bounds.faults < MaxCommands
    /\ desk.kind = "waybar" => bounds.commands + 1 < MaxCommands   \* bound: no fourth command beside the bar
    /\ bounds' = [bounds EXCEPT !.commands = @ + 1]
    /\ run' = [run EXCEPT ![t] = [Idle EXCEPT !.name = name, !.todo = todo, !.tearing = tearing]]
    /\ past' = {}
    /\ UNCHANGED <<desk, binds, bar, menu, tools, saved, session, late>>
BeginInstall(t) == Alone(t) /\ ~session.marker /\ \E ui \in Uis : Begin(t, "install", InstallAll(ui), FALSE)
BeginDevInstall(t) == Alone(t) /\ Begin(t, "devInstall", DevInstallAll, FALSE)
BeginUninstall(t) == Beside(t) /\ Begin(t, "uninstall", DevUninstallHypr, FALSE)
BeginLeave(t) == Beside(t) /\ Begin(t, "leave", Leave, TRUE)
\* dev.sh enter tears a stale session down first, and refuses a live one.
BeginEnter(t) ==
    /\ Alone(t) /\ ~session.devUp
    /\ IF Stale THEN Begin(t, "enter", Leave, TRUE) ELSE Begin(t, "enter", Enter, FALSE)

\* The shell of a session ends: its EXIT trap tears down, unless this shell did that once before.
EndOfEnter(t) ==
    /\ run' = [run EXCEPT ![t] =
                  IF run[t].torn THEN Idle
                  ELSE [Idle EXCEPT !.name = "leave", !.todo = Leave, !.tearing = TRUE, !.was = run[t].was]]
    /\ past' = past \cup (IF run[t].torn THEN {"left"} ELSE {})
\* A tsk command ends with an error: set -e ends enter, the teardown goes on with a warning.
Abort(t) ==
    CASE run[t].tearing ->
             /\ run' = [run EXCEPT ![t].todo = Tail(From(@, "exit"))]
             /\ past' = past
      [] run[t].name = "enter" /\ ~run[t].tearing -> EndOfEnter(t)
      [] OTHER -> run' = [run EXCEPT ![t] = Idle] /\ past' = past

Exit(t) ==
    /\ At(t, "exit")
    /\ IF Len(run[t].todo) > 1 THEN Pop(t)
       ELSE /\ run' = [run EXCEPT ![t] = Idle]
            /\ Establish(t, IF run[t].name = "install" THEN {"installed"} ELSE {})
            /\ UNCHANGED <<desk, bounds>>
    /\ UNCHANGED <<binds, bar, menu, tools, saved, session, late>>

\* Every tsk process first clears the marker of a session that only prod answers for.
Main(t) ==
    /\ At(t, "main")
    /\ session' = [session EXCEPT !.marker = @ /\ (session.devUp \/ ~session.prodUp)]
    /\ Pop(t)
    /\ UNCHANGED <<binds, bar, menu, tools, saved, late>>
---------------------------------------------------------------------------
(* install_bins.                                                             *)
Schema(t) ==
    /\ At(t, "schema")
    /\ tools' = [tools EXCEPT !.schema = TRUE]
    /\ Pop(t)
    /\ UNCHANGED <<binds, bar, menu, saved, session, late>>
\* The package's share tree is only verified; the dev tree is copied.
Share(t) ==
    /\ At(t, "share")
    /\ tools' = [tools EXCEPT !.devShare = @ \/ Profile(t) = "Dev"]
    /\ late' = (late /\ Profile(t) # "Dev")
    /\ Pop(t)
    /\ UNCHANGED <<binds, bar, menu, saved, session>>
Openers(t) ==
    /\ At(t, "openers")
    /\ tools' = [tools EXCEPT !.openers = @ \cup {Profile(t)}]
    /\ Pop(t)
    /\ UNCHANGED <<binds, bar, menu, saved, session, late>>
\* A value of the user's own stays; an opener of tsk, or nothing, is replaced.
Editor(t) ==
    /\ At(t, "editor")
    /\ tools' = [tools EXCEPT !.editor = IF @ = "own" THEN @ ELSE Profile(t)]
    /\ Pop(t)
    /\ UNCHANGED <<binds, bar, menu, saved, session, late>>

(* install_hypr, install_hypr_lua.                                           *)
Bindings == IF desk.kind = "lua" THEN binds.lua ELSE binds.conf
Backup(t) ==
    /\ At(t, "backup")
    /\ PopWith(t, [run[t] EXCEPT !.backup = [text |-> Bindings, native |-> FALSE]])
    /\ binds' = [binds EXCEPT !.conf = IF desk.kind # "lua" /\ @ = {} THEN {{}} ELSE @]
    /\ UNCHANGED <<bar, menu, tools, saved, session, late>>
\* hyprland.conf is read whole, and written whole without one profile's lines a moment later.
ReadConf(t, p) ==
    /\ At(t, IF p = "Dev" THEN "readDev" ELSE "readProd")
    /\ PopWith(t, [run[t] EXCEPT !.buffer = binds.conf])
    /\ UNCHANGED <<binds, bar, menu, tools, saved, session, late>>
StripConf(t, p) ==
    /\ At(t, IF p = "Dev" THEN "stripDev" ELSE "stripProd")
    /\ binds' = [binds EXCEPT !.conf = IF p \in Content(run[t].buffer) THEN {Content(run[t].buffer) \ {p}} ELSE @]
    /\ PopWith(t, [run[t] EXCEPT !.buffer = {}])
    /\ UNCHANGED <<bar, menu, tools, saved, session, late>>
\* Mutant: the lines go to a second copy of the file.
AppendBeside(t) ==
    /\ At(t, "append")
    /\ binds' = [binds EXCEPT !.conf = @ \cup {{Profile(t)}}]
    /\ Pop(t)
    /\ UNCHANGED <<bar, menu, tools, saved, session, late>>
AppendLines(t) ==
    /\ At(t, "append")
    /\ binds' = [binds EXCEPT !.conf = {Content(@) \cup {Profile(t)}}]
    /\ Pop(t)
    /\ UNCHANGED <<bar, menu, tools, saved, session, late>>
\* Native workspace gestures are commented out; input.conf is backed up when that changes it.
Gestures(t) ==
    /\ At(t, "gestures")
    /\ binds' = [binds EXCEPT !.native = FALSE]
    /\ PopWith(t, [run[t] EXCEPT !.backup.native = binds.native])
    /\ UNCHANGED <<bar, menu, tools, saved, session, late>>
StripBlock(t, p) ==
    /\ At(t, IF p = "Dev" THEN "stripDevBlock" ELSE "stripProdBlock")
    /\ binds' = [binds EXCEPT !.lua = {lines \ {p} : lines \in @}]
    /\ Pop(t)
    /\ UNCHANGED <<bar, menu, tools, saved, session, late>>
\* Mutant: a file that already has a block is left as it is.
BlockOnce(t) ==
    /\ At(t, "block")
    /\ binds' = [binds EXCEPT !.lua = IF Content(@) # {} THEN @ ELSE {{Profile(t)}}]
    /\ Pop(t)
    /\ UNCHANGED <<bar, menu, tools, saved, session, late>>
\* The block of the own profile is replaced or added; the other profile's stays.
Block(t) ==
    /\ At(t, "block")
    /\ binds' = [binds EXCEPT !.lua = {Content(@) \cup {Profile(t)}}]
    /\ Pop(t)
    /\ UNCHANGED <<bar, menu, tools, saved, session, late>>
HyprManifest(t) ==
    /\ At(t, "hyprManifest")
    /\ saved' = [saved EXCEPT !.hypr[Profile(t)] = {run[t].backup}]
    /\ PopWith(t, [run[t] EXCEPT !.backup = Idle.backup])
    /\ UNCHANGED <<binds, bar, menu, tools, session, late>>
---------------------------------------------------------------------------
(* install_waybar and install_walker, of the dev profile only.               *)
HasTsk == \E b \in bar : b.tsk # "none"
Patched(p) == {[tsk |-> p, stock |-> FALSE]}
Fails(t) == Abort(t) /\ UNCHANGED <<desk, binds, bar, menu, tools, session, bounds, late>>

\* Without a Waybar configuration the installation stops here, its bindings in place.
BarBackup(t) ==
    /\ At(t, "barBackup")
    /\ IF bar = {} THEN Fails(t) /\ saved' = saved
       ELSE /\ saved' = [saved EXCEPT !.plain["Dev"] = IF @ = {} /\ ~HasTsk THEN bar ELSE @]
            /\ PopWith(t, [run[t] EXCEPT !.bar = bar])
            /\ UNCHANGED <<binds, bar, menu, tools, session, late>>
\* The first configuration without tsk that an install meets is the pristine one, for good.
Pristine(t) ==
    /\ At(t, "pristine")
    /\ saved' = [saved EXCEPT !.pristine["Dev"] =
                    IF @ = {} /\ (\E b \in run[t].bar : b.tsk = "none") THEN bar ELSE @]
    /\ Pop(t)
    /\ UNCHANGED <<binds, bar, menu, tools, session, late>>
PatchBar(t) ==
    /\ At(t, "patchBar")
    /\ bar' = Patched("Dev")
    /\ Pop(t)
    /\ UNCHANGED <<binds, menu, tools, saved, session, late>>
BarManifest(t) ==
    /\ At(t, "barManifest")
    /\ saved' = [saved EXCEPT !.bar["Dev"] = {run[t].bar}]
    /\ PopWith(t, [run[t] EXCEPT !.bar = {}])
    /\ UNCHANGED <<binds, bar, menu, tools, session, late>>
\* Elephant's launch keys are replaced, whoever set them.
Elephant(t) ==
    /\ At(t, "elephant")
    /\ menu' = [menu EXCEPT !.elephant = IF @ = "absent" THEN @ ELSE "Dev"]
    /\ Pop(t)
    /\ UNCHANGED <<binds, bar, tools, saved, session, late>>
WalkerManifest(t) ==
    /\ At(t, "walkerManifest")
    /\ saved' = [saved EXCEPT !.walker = IF menu.elephant = "absent" THEN @ ELSE {"Dev"}]
    /\ Pop(t)
    /\ UNCHANGED <<binds, bar, menu, tools, session, late>>

(* install_omarchy_plugin, the rest of `tsk install all`.                    *)
\* The tree is copied as the control UI wants it: without the overlay for the TUI.
CopyPlugin(t, ui) ==
    /\ At(t, ui)
    /\ menu' = [menu EXCEPT !.ui = ui]
    /\ saved' = [saved EXCEPT !.ui[Profile(t)] = ui]
    /\ Pop(t)
    /\ UNCHANGED <<binds, bar, tools, session, late>>
Enable(t) ==
    /\ At(t, "enable")
    /\ menu' = [menu EXCEPT !.on = TRUE, !.spaces = FALSE]
    /\ Pop(t)
    /\ UNCHANGED <<binds, bar, tools, saved, session, late>>
PatchMenu(t) ==
    /\ At(t, "patchMenu")
    /\ menu' = [menu EXCEPT !.patched = TRUE]
    /\ Pop(t)
    /\ UNCHANGED <<binds, bar, tools, saved, session, late>>
Systemd(t) ==
    /\ At(t, "systemd")
    /\ tools' = [tools EXCEPT !.enabled = TRUE]
    /\ session' = [session EXCEPT !.prodUp = TRUE]
    /\ Pop(t)
    /\ UNCHANGED <<binds, bar, menu, saved, late>>
Chromium(t, piece) ==
    /\ At(t, IF piece = "manifest" THEN "helperManifest" ELSE piece)
    /\ tools' = [tools EXCEPT !.helper = @ \cup {piece}]
    /\ Pop(t)
    /\ UNCHANGED <<binds, bar, menu, saved, session, late>>
---------------------------------------------------------------------------
(* uninstall_waybar of the dev profile.                                      *)
\* Prod had patched Waybar: its pristine configuration comes back, and the module of the package.
ProdBar(t) ==
    /\ At(t, "prodBar")
    /\ IF desk.packaged /\ (saved.bar["Prod"] # {} \/ saved.pristine["Prod"] # {})
       THEN /\ bar' = IF saved.pristine["Prod"] # {} THEN saved.pristine["Prod"] ELSE UNION saved.bar["Prod"]
            /\ Goto(t, <<"patchProd", "dropDevBar">> \o Tail(From(run[t].todo, "dropBar")))
       ELSE Pop(t) /\ bar' = bar
    /\ UNCHANGED <<binds, menu, tools, saved, session, late>>
PatchProd(t) ==
    /\ At(t, "patchProd")
    /\ bar' = Patched("Prod")
    /\ Pop(t)
    /\ UNCHANGED <<binds, menu, tools, saved, session, late>>
DropDevBar(t) ==
    /\ At(t, "dropDevBar")
    /\ saved' = [saved EXCEPT !.bar["Dev"] = {}]
    /\ run' = [run EXCEPT ![t].todo = Tail(@)]
    /\ Establish(t, {"bar"})
    /\ UNCHANGED <<desk, binds, bar, menu, tools, session, bounds, late>>
\* Otherwise: what was there before tsk, found among the backups if no pristine copy was made.
Seed(t) ==
    /\ At(t, "seed")
    /\ saved' = [saved EXCEPT !.pristine["Dev"] = IF @ = {} THEN saved.plain["Dev"] ELSE @]
    /\ PopWith(t, [run[t] EXCEPT !.had = saved.bar["Dev"] # {}, !.bar = UNION saved.bar["Dev"]])
    /\ UNCHANGED <<binds, bar, menu, tools, session, late>>
RestoreBar(t) ==
    /\ At(t, "restoreBar")
    /\ bar' = CASE saved.pristine["Dev"] # {} -> saved.pristine["Dev"]
                [] saved.pristine["Dev"] = {} /\ run[t].bar # {} -> run[t].bar
                [] OTHER -> bar
    /\ PopWith(t, [run[t] EXCEPT !.restored = saved.pristine["Dev"] # {}, !.bar = {}])
    /\ UNCHANGED <<binds, menu, tools, saved, session, late>>
UnpatchBar(t) ==
    /\ At(t, "unpatchBar")
    /\ bar' = {[tsk |-> "none", stock |-> TRUE] : b \in bar}
    /\ Pop(t)
    /\ UNCHANGED <<binds, menu, tools, saved, session, late>>
\* Nothing known and nothing restored is an error: "No tsk Waybar installation found".
DropBar(t) ==
    /\ At(t, "dropBar")
    /\ saved' = [saved EXCEPT !.bar["Dev"] = {}]
    /\ IF ~run[t].had /\ ~run[t].restored /\ ~HasTsk THEN Fails(t)
       ELSE /\ run' = [run EXCEPT ![t] = [run[t] EXCEPT !.todo = Tail(@), !.had = FALSE, !.restored = FALSE]]
            /\ Establish(t, {"bar"})
            /\ UNCHANGED <<desk, binds, bar, menu, tools, session, bounds, late>>

(* uninstall_hypr of the dev profile.                                        *)
\* The manifest says which backups there are; they are copied a moment later.
LoadHypr(t) ==
    /\ At(t, "loadHypr")
    /\ \E backup \in (IF saved.hypr["Dev"] = {} THEN {Idle.backup} ELSE saved.hypr["Dev"]) :
           PopWith(t, [run[t] EXCEPT !.had = saved.hypr["Dev"] # {}, !.backup = backup])
    /\ UNCHANGED <<binds, bar, menu, tools, saved, session, late>>
\* Another uninstall may have removed the manifest since; its backups are still there.
Restore(t) ==
    /\ At(t, "restore")
    /\ LET backup == run[t].backup IN
        /\ binds' = [conf |-> IF desk.kind # "lua" /\ backup.text # {} THEN backup.text ELSE binds.conf,
                     lua |-> IF desk.kind = "lua" /\ backup.text # {} THEN backup.text ELSE binds.lua,
                     native |-> binds.native \/ backup.native]
        /\ PopWith(t, [run[t] EXCEPT !.restored = backup.text # {} \/ backup.native, !.backup = Idle.backup])
        /\ late' = (late \/ (saved.hypr["Dev"] = {} /\ "Dev" \in Content(backup.text)))
    /\ UNCHANGED <<bar, menu, tools, saved, session>>
DropHypr(t) ==
    /\ At(t, "dropHypr")
    /\ saved' = [saved EXCEPT !.hypr["Dev"] = IF run[t].had THEN {} ELSE @]
    /\ PopWith(t, [run[t] EXCEPT !.had = FALSE])
    /\ UNCHANGED <<binds, bar, menu, tools, session, late>>
\* The plugin is switched off and the stock workspaces module on, whichever profile had installed it.
Disable(t) ==
    /\ At(t, "disable")
    /\ menu' = [menu EXCEPT !.on = IF menu.ui = "none" THEN @ ELSE FALSE, !.spaces = TRUE]
    /\ Pop(t)
    /\ UNCHANGED <<binds, bar, tools, saved, session, late>>
UnpatchMenu(t) ==
    /\ At(t, "unpatchMenu")
    /\ menu' = [menu EXCEPT !.patched = FALSE]
    /\ Pop(t)
    /\ UNCHANGED <<binds, bar, tools, saved, session, late>>
\* Mutant: prod's line is only looked after when no backup came back.
EnsureProdWithoutBackup(t) ==
    /\ At(t, "ensureProd")
    /\ IF saved.hypr["Prod"] = {} \/ run[t].restored THEN Pop(t)
       ELSE Goto(t, <<"readDev", "stripDev", "addProd">> \o Tail(run[t].todo))
    /\ UNCHANGED <<binds, bar, menu, tools, saved, session, late>>
\* With prod installed, its source line must be in hyprland.conf again, whatever the backup held.
EnsureProd(t) ==
    /\ At(t, "ensureProd")
    /\ IF saved.hypr["Prod"] = {} THEN Pop(t)
       ELSE Goto(t, (IF run[t].restored THEN <<>> ELSE <<"readDev", "stripDev">>) \o <<"addProd">> \o Tail(run[t].todo))
    /\ UNCHANGED <<binds, bar, menu, tools, saved, session, late>>
AddProd(t) ==
    /\ At(t, "addProd")
    /\ binds' = [binds EXCEPT !.conf = {Content(@) \cup {"Prod"}}]
    /\ Pop(t)
    /\ UNCHANGED <<bar, menu, tools, saved, session, late>>
RemoveShare(t) ==
    /\ At(t, "removeShare")
    /\ tools' = [tools EXCEPT !.devShare = FALSE]
    /\ run' = [run EXCEPT ![t].todo = Tail(@)]
    /\ Establish(t, {"hypr"})
    /\ UNCHANGED <<desk, binds, bar, menu, saved, session, bounds, late>>
---------------------------------------------------------------------------
(* scripts/dev.sh.                                                           *)
\* Stopping prod notes that it ran; finding it stopped removes the note.
StopProd(t) ==
    /\ At(t, "stopProd")
    /\ session' = [session EXCEPT !.prodUp = FALSE, !.noted = session.prodUp]
    /\ PopWith(t, [run[t] EXCEPT !.was = @ \/ session.prodUp])
    /\ UNCHANGED <<binds, bar, menu, tools, saved, late>>
Mark(t) ==
    /\ At(t, "mark")
    /\ session' = [session EXCEPT !.marker = TRUE]
    /\ Pop(t)
    /\ UNCHANGED <<binds, bar, menu, tools, saved, late>>
Serve(t) ==
    /\ At(t, "serve")
    /\ session' = [session EXCEPT !.devUp = TRUE]
    /\ Pop(t)
    /\ UNCHANGED <<binds, bar, menu, tools, saved, late>>
\* The daemon of the session has been stopped from elsewhere.
Wait(t) ==
    /\ At(t, "wait") /\ ~session.devUp
    /\ EndOfEnter(t)
    /\ UNCHANGED <<desk, binds, bar, menu, tools, saved, session, bounds, late>>
\* Ctrl-C reaches the shell of the session; its daemon, started with &, ignores it.
Interrupt(t) ==
    /\ run[t].name = "enter" /\ ~run[t].tearing
    /\ EndOfEnter(t)
    /\ UNCHANGED <<desk, binds, bar, menu, tools, saved, session, bounds, late>>

StopDev(t) ==
    /\ At(t, "stopDev")
    /\ session' = [session EXCEPT !.devUp = FALSE]
    /\ Pop(t)
    /\ UNCHANGED <<binds, bar, menu, tools, saved, late>>
Detect(t) ==
    /\ At(t, "detect")
    /\ Goto(t, IF Stale THEN Tail(run[t].todo) ELSE From(run[t].todo, "unmark"))
    /\ UNCHANGED <<binds, bar, menu, tools, saved, session, late>>
Unmark(t) ==
    /\ At(t, "unmark")
    /\ session' = [session EXCEPT !.marker = FALSE]
    /\ Pop(t)
    /\ UNCHANGED <<binds, bar, menu, tools, saved, late>>
StartProd(t) ==
    /\ At(t, "startProd")
    /\ session' = [session EXCEPT !.prodUp = @ \/ session.noted \/ run[t].was \/ tools.enabled, !.noted = FALSE]
    /\ Pop(t)
    /\ UNCHANGED <<binds, bar, menu, tools, saved, late>>
\* A teardown that enter made of a stale session is the only one its shell will make.
Done(t) ==
    /\ At(t, "done")
    /\ IF run[t].name = "enter"
       THEN /\ run' = [run EXCEPT ![t] = [Idle EXCEPT !.name = "enter", !.todo = Enter, !.was = run[t].was,
                                                     !.torn = TRUE]]
            /\ past' = {}
       ELSE /\ run' = [run EXCEPT ![t] = Idle]
            /\ Establish(t, {"session", "left"})
    /\ UNCHANGED <<desk, binds, bar, menu, tools, saved, session, bounds, late>>
---------------------------------------------------------------------------
(* Faults: a command fails at any step, or dies there with its shell.        *)
Shaken(t) == [u \in Terminals |-> IF run[u] = Idle THEN Idle ELSE [run[u] EXCEPT !.whole = FALSE]]
InCommand(t) == \E i \in DOMAIN run[t].todo : run[t].todo[i] = "exit"
Fault ==
    /\ bounds.faults < MaxFaults /\ bounds.commands + bounds.faults < MaxCommands
    /\ bounds' = [bounds EXCEPT !.faults = @ + 1]
    /\ past' = {}
    /\ UNCHANGED <<desk, binds, bar, menu, tools, saved, session, late>>
Fail(t) ==
    /\ Fault
    /\ InCommand(t) /\ ~At(t, "exit") /\ ~At(t, "stopProd") /\ ~At(t, "stopDev") /\ ~At(t, "detect")
    /\ run' = [Shaken(t) EXCEPT ![t] =
                  CASE run[t].tearing -> [run[t] EXCEPT !.todo = Tail(From(@, "exit")), !.whole = FALSE]
                    [] run[t].name = "enter" /\ ~run[t].tearing /\ ~run[t].torn ->
                           [Idle EXCEPT !.name = "leave", !.todo = Leave, !.tearing = TRUE,
                                        !.was = run[t].was, !.whole = FALSE]
                    [] OTHER -> Idle]
Kill(t) ==
    /\ Fault
    /\ run[t] # Idle
    /\ run' = [Shaken(t) EXCEPT ![t] = Idle]

Begins(t) == BeginInstall(t) \/ BeginDevInstall(t) \/ BeginUninstall(t) \/ BeginLeave(t) \/ BeginEnter(t)
Installs(t) ==
    \/ Main(t) \/ Schema(t) \/ Share(t) \/ Openers(t) \/ Editor(t) \/ Exit(t)
    \/ Backup(t) \/ AppendLines(t) \/ Gestures(t) \/ Block(t) \/ HyprManifest(t)
    \/ \E p \in Profiles : ReadConf(t, p) \/ StripConf(t, p) \/ StripBlock(t, p)
    \/ BarBackup(t) \/ Pristine(t) \/ PatchBar(t) \/ BarManifest(t) \/ Elephant(t) \/ WalkerManifest(t)
    \/ (\E ui \in Uis : CopyPlugin(t, ui)) \/ Enable(t) \/ PatchMenu(t) \/ Systemd(t)
    \/ \E piece \in Helper : Chromium(t, piece)
Uninstalls(t) ==
    \/ ProdBar(t) \/ PatchProd(t) \/ DropDevBar(t) \/ Seed(t) \/ RestoreBar(t) \/ UnpatchBar(t) \/ DropBar(t)
    \/ LoadHypr(t) \/ Restore(t) \/ DropHypr(t) \/ Disable(t) \/ UnpatchMenu(t) \/ EnsureProd(t) \/ AddProd(t) \/ RemoveShare(t)
Sessions(t) ==
    \/ StopProd(t) \/ Mark(t) \/ Serve(t) \/ Wait(t) \/ Interrupt(t)
    \/ StopDev(t) \/ Detect(t) \/ Unmark(t) \/ StartProd(t) \/ Done(t)
Next == \E t \in Terminals : Begins(t) \/ Installs(t) \/ Uninstalls(t) \/ Sessions(t) \/ Fail(t) \/ Kill(t)
Spec == Init /\ [][Next]_vars
---------------------------------------------------------------------------
(* The checks of `tsk doctor` on an Omarchy desktop with the package.        *)
CheckBackup == \E backup \in saved.hypr["Prod"] : backup.text # {} \/ backup.native
CheckInstalled ==
    /\ "Prod" \in Content(Bindings)
    /\ CheckBackup
    /\ "Prod" \in tools.openers
CheckEditor == tools.editor = "Prod" /\ "Prod" \in tools.openers
CheckShell ==
    /\ menu.ui # "none" /\ menu.on
    /\ saved.ui["Prod"] = "shell" => menu.ui = "shell"
    /\ ~menu.spaces /\ menu.patched
CheckSchema == tools.schema
CheckHelper == {"externalJson", "hostJson", "manifest"} \subseteq tools.helper
\* What `hyprctl binds` lists comes from the bindings: any profile's lines unbind those of Omarchy.
CheckKeys == Content(Bindings) # {}
\* One daemon, of the installed binary, under an enabled unit.
CheckDaemon == session.prodUp /\ ~session.devUp /\ tools.enabled
---------------------------------------------------------------------------
\* Files, manifests, the session and the commands have their types.
TypeOK ==
    /\ desk \in [kind : Desks, packaged : BOOLEAN]
    /\ binds \in [conf : Lines, lua : Lines, native : BOOLEAN]
    /\ bar \in File(Bars)
    /\ menu \in [elephant : {"absent", "own", "Dev"}, ui : Uis \cup {"none"}, on : BOOLEAN,
                 spaces : BOOLEAN, patched : BOOLEAN]
    /\ tools \in [schema : BOOLEAN, devShare : BOOLEAN, openers : SUBSET Profiles,
                  editor : Profiles \cup {"own", "unset"}, helper : SUBSET Helper, enabled : BOOLEAN]
    /\ saved \in [hypr : [Profiles -> File(Backups)], bar : [Profiles -> File(File(Bars))],
                  plain : [Profiles -> File(Bars)], pristine : [Profiles -> File(Bars)],
                  walker : SUBSET Profiles, ui : [Profiles -> Uis]]
    /\ session \in [marker : BOOLEAN, prodUp : BOOLEAN, devUp : BOOLEAN, noted : BOOLEAN]
    /\ bounds.commands <= MaxCommands /\ bounds.faults <= MaxFaults
    /\ past \subseteq {"installed", "bar", "hypr", "session", "left"}
    /\ late \in BOOLEAN
    /\ \A t \in Terminals : run[t].buffer \in Lines /\ run[t].backup \in Backups /\ run[t].bar \in File(Bars)

\* What an uninstall that ran whole promises, also when the teardown of the session ran beside it:
\* no line of dev is left; with prod installed its source line is in hyprland.conf again, and its
\* module in the bar it had patched; no dev daemon and no marker stay, and prod serves if its unit is enabled
\* (uninstall_hypr, uninstall_waybar, teardown_dev_session of dev.sh). The exception: on a Lua
\* desktop prod's block in bindings.lua is not promised, for uninstall_hypr only looks after
\* hyprland.conf. After a second dev install the backup holds dev's block, which comes back and is
\* stripped, and prod's stays away, although docs/dev.md says that leave restores bindings.lua to
\* prod. Of the files a leave promises nothing when the uninstall it runs has failed, as it does on
\* a desktop without Waybar: past then lacks "hypr".
Left ==
    Quiet =>
        /\ "hypr" \in past =>
               /\ ~DevIntegrationInstalled
               /\ desk.kind # "lua" /\ saved.hypr["Prod"] # {} => "Prod" \in Content(binds.conf)
        /\ "bar" \in past => \A b \in bar :
               IF desk.packaged /\ saved.bar["Prod"] # {} THEN b.tsk = "Prod" ELSE b.tsk = "none" /\ b.stock
        /\ "session" \in past => ~session.marker /\ ~session.devUp /\ (tools.enabled => session.prodUp)

\* Hyprland never sources what the installer has taken away: as long as a line of dev stands in
\* hyprland.conf or bindings.lua the dev share tree is there, wherever an install or uninstall died
\* and although two uninstalls may run beside each other (install_hypr, uninstall_hypr). One
\* exception, late: an uninstall reads the manifest, a second one takes manifest, lines and tree
\* away, and the first one copies a backup that holds dev's line, which stands alone until its own
\* strip comes, and for good if it dies before that.
SourcedExists == DevIntegrationInstalled => tools.devShare \/ late

\* After a whole `tsk install all` on Omarchy with the package, whatever dev sessions, failures and
\* other installs went before, every check of `tsk doctor` about what is installed passes; the
\* editor's setting is left to a user who has one of their own (run_doctor_checks). The plugin that
\* was copied is the one of the control UI that was asked for, and the whole helper is there.
DoctorSatisfied ==
    Quiet /\ "installed" \in past /\ desk = [kind |-> "lua", packaged |-> TRUE] =>
        /\ CheckInstalled /\ CheckShell /\ CheckKeys /\ CheckSchema /\ CheckHelper /\ CheckDaemon
        /\ CheckEditor \/ tools.editor = "own"
        /\ menu.ui = saved.ui["Prod"] /\ tools.helper = Helper
=============================================================================
