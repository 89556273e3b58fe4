---------------------------- MODULE ConfigLayers ----------------------------
(***************************************************************************)
(* Two configuration files, the machine's and the project's, and the       *)
(* runtime overrides on top of them.  The settings dialog of the terminal, *)
(* the Configuration view in a browser, the setup wizard and its repairs   *)
(* and the plugin itself write them, each from a process of its own; the   *)
(* plugin follows them by modification time, and an index pass takes the   *)
(* embedding model and the dimension of its vectors from them.             *)
(*                                                                         *)
(* Two settings stand for all: the embedding model (provider, base URL and *)
(* model at once), which belongs to the machine, and an option of the      *)
(* project.  Writing one file is one step.  A file that does not parse is  *)
(* not modelled, nor is an option written to the machine's file.           *)
(***************************************************************************)
EXTENDS Naturals

CONSTANTS
    Models, DefaultModel,
    DimOf,          \* the length of each model's vectors
    Options,
    Unset,
    MaxEdits        \* bound on what the users do

ASSUME ConfigLayersAssumption ==
    /\ Unset \notin {"project", "global"} /\ Unset # [clears |-> "model"]
    /\ \A v \in Options : Unset # [writes |-> v]

VARIABLES
    global, project,    \* the files: model, dim, whether there is a section "embedding", mtime
    option,             \* the option in the project's file
    overrides,          \* runtime-overrides.json: model and option
    tui, web, setup,    \* what each writer is in the middle of
    browser,            \* the view: draft, what it showed of it, the files' mtimes
    plugin,
    storeDim,           \* the dimension of the index
    refused,            \* the last pass of the command line was refused
    edits,
    reverted            \* history: the wizard put back a project file it had read before

settings == <<global, project, option, overrides, tui, web, setup, browser,
              plugin, storeDim, refused, edits, reverted>>
files == <<global, project, option>>

Values == Models \cup {Unset}
Dims == {DimOf[m] : m \in Models}
LastResort == 384

First(a, b) == IF a # Unset THEN a ELSE b
Shadows(file) == <<file.model, file.dim>> # <<Unset, Unset>>
Written(file) == [file EXCEPT !.stamp = @ + 1]
Stamps == <<global.stamp, project.stamp>>

\* Defaults < machine < project < overrides; the dimension has no default.
FileModel == First(First(project.model, global.model), DefaultModel)
FileDim == First(project.dim, global.dim)
EffectiveModel == First(overrides.model, FileModel)
EffectiveOption == First(overrides.option, option)

NoDraft == [layer |-> Unset, value |-> Unset, shown |-> Unset]
InLayer(layer) == IF layer = "project" THEN option ELSE global.model
Snapshot == [draft |-> NoDraft, stamps |-> Stamps, refreshed |-> FALSE,
             values |-> [project |-> option, global |-> global.model]]

ConfigTypeOK ==
    /\ global \in [model : Values, dim : Dims \cup {Unset}, section : BOOLEAN, stamp : Nat]
    /\ project \in [model : Values, dim : Dims \cup {Unset}, section : BOOLEAN, stamp : Nat]
    /\ option \in Options \cup {Unset} /\ overrides.model \in Values
    /\ overrides.option \in Options \cup {Unset}

\* A fresh machine, or one that was set up, whose project may hold what older builds left there.
ConfigInit ==
    /\ \E m \in Values :
        global = [model |-> m, section |-> m # Unset, stamp |-> 0,
                  dim |-> IF m = Unset THEN Unset ELSE DimOf[m]]
    /\ \E section \in BOOLEAN :
        project = [model |-> Unset, dim |-> Unset, section |-> section, stamp |-> 0]
    /\ option = Unset
    /\ overrides \in [model : Values, option : {Unset}]
    /\ tui = Unset /\ web = Unset /\ setup = Unset /\ browser = Snapshot
    /\ plugin = [step |-> "off"]
    /\ storeDim = Unset
    /\ refused = FALSE /\ edits = 0 /\ reverted = FALSE

UserActs == edits < MaxEdits /\ edits' = edits + 1

-----------------------------------------------------------------------------
(* The settings dialog of the terminal. *)

\* A model is a provider option: it goes to the machine's file, and an old override is cleared.
PickModel(m) ==
    /\ tui = Unset /\ UserActs
    /\ global' = Written([global EXCEPT !.model = m, !.section = TRUE])
    /\ tui' = [clears |-> "model"]
    /\ UNCHANGED <<project, option, overrides, web, setup, browser, plugin, storeDim, refused, reverted>>

\* Any other option is an override, which works at once, and then also in the project's file.
PickOption(v) ==
    /\ tui = Unset /\ UserActs
    /\ overrides' = [overrides EXCEPT !.option = v]
    /\ tui' = [writes |-> v]
    /\ UNCHANGED <<files, web, setup, browser, plugin, storeDim, refused, reverted>>

FinishPick ==
    /\ tui # Unset /\ tui' = Unset
    /\ \/ /\ "clears" \in DOMAIN tui
          /\ overrides' = [overrides EXCEPT !.model = Unset]
          /\ UNCHANGED files
       \/ /\ "writes" \in DOMAIN tui
          /\ option' = tui.writes /\ project' = Written(project)
          /\ UNCHANGED <<global, overrides>>
    /\ UNCHANGED <<web, setup, browser, plugin, storeDim, refused, edits, reverted>>

-----------------------------------------------------------------------------
(* The Configuration view, and PATCH /api/config on the server. *)

OpenView ==
    /\ web = Unset /\ browser # Snapshot
    /\ browser' = Snapshot
    /\ UNCHANGED <<files, overrides, tui, web, setup, plugin, storeDim, refused, edits, reverted>>

\* What is typed is compared with what the snapshot showed.
Type(layer, v) ==
    /\ web = Unset /\ browser.draft = NoDraft
    /\ v # browser.values[layer] /\ UserActs
    /\ browser' = [browser EXCEPT
            !.draft = [layer |-> layer, value |-> v, shown |-> browser.values[layer]]]
    /\ UNCHANGED <<files, overrides, tui, web, setup, plugin, storeDim, refused, reverted>>

\* A theme is saved without a base; the answer brings new mtimes and leaves the draft.
ClickTheme ==
    /\ web = Unset /\ browser.draft # NoDraft /\ UserActs
    /\ global' = Written(global)
    /\ browser' = [Snapshot EXCEPT !.stamps = <<global.stamp + 1, project.stamp>>,
                                   !.draft = browser.draft, !.refreshed = TRUE]
    /\ UNCHANGED <<project, option, overrides, tui, web, setup, plugin, storeDim, refused, reverted>>

\* (mutant) a draft is saved over whatever is there
StaleIgnored(layer) == FALSE

Stale(layer) == browser.stamps[IF layer = "project" THEN 2 ELSE 1]
                    # (IF layer = "project" THEN project ELSE global).stamp

Save(layer) ==
    /\ web = Unset /\ browser.draft.layer = layer /\ ~Stale(layer)
    /\ \/ /\ layer = "project"
          /\ option' = browser.draft.value /\ project' = Written(project)
          /\ UNCHANGED global
       \/ /\ layer = "global"
          /\ global' = Written([global EXCEPT !.model = browser.draft.value, !.section = TRUE])
          /\ UNCHANGED <<project, option>>
    /\ web' = layer
    /\ UNCHANGED <<overrides, tui, setup, browser, plugin, storeDim, refused, edits, reverted>>

\* (mutant) the override stays
FinishSaveOnly ==
    /\ web # Unset /\ web' = Unset
    /\ browser' = Snapshot
    /\ UNCHANGED <<files, overrides, tui, setup, plugin, storeDim, refused, edits, reverted>>

\* The override of what was saved is cleared after the file was written.
FinishSave ==
    /\ web # Unset /\ web' = Unset
    /\ overrides' = IF web = "project" THEN [overrides EXCEPT !.option = Unset]
                                       ELSE [overrides EXCEPT !.model = Unset]
    /\ browser' = Snapshot
    /\ UNCHANGED <<files, tui, setup, plugin, storeDim, refused, edits, reverted>>

-----------------------------------------------------------------------------
(* The setup wizard, and the repair of a model that failed its check. *)

StartSetup ==
    /\ setup = Unset /\ UserActs
    /\ setup' = [step |-> "asking", model |-> First(project.model, global.model), dim |-> FileDim]
    /\ UNCHANGED <<files, overrides, tui, web, browser, plugin, storeDim, refused, reverted>>

CancelSetup ==
    /\ setup # Unset /\ setup.step = "asking" /\ setup' = Unset
    /\ UNCHANGED <<files, overrides, tui, web, browser, plugin, storeDim, refused, edits, reverted>>

\* A dimension is probed, or kept if the target is what it was, or dropped.
Dimension(m, probed) ==
    IF probed THEN DimOf[m] ELSE IF setup.model = m THEN setup.dim ELSE Unset

\* The machine's file is written; the project's is read, and kept while the user is asked.
ApplySetup(m, probed) ==
    /\ setup # Unset /\ setup.step = "asking"
    /\ global' = Written([global EXCEPT !.model = m, !.section = TRUE,
                                        !.dim = Dimension(m, probed)])
    /\ setup' = [step |-> "strip", project |-> project, option |-> option]
    /\ UNCHANGED <<project, option, overrides, tui, web, browser, plugin, storeDim, refused, edits, reverted>>

\* The user may keep the provider keys of the project, which shadow the machine's.
StripProject(agreed) ==
    /\ setup # Unset /\ setup.step = "strip" /\ setup' = Unset
    /\ \/ /\ agreed /\ Shadows(setup.project)
          /\ project' = [setup.project EXCEPT !.model = Unset, !.dim = Unset,
                                              !.stamp = project.stamp + 1]
          /\ option' = setup.option
          /\ reverted' = (reverted \/ option # setup.option)
       \/ /\ ~agreed \/ ~Shadows(setup.project)
          /\ project' = Written(project) /\ UNCHANGED <<option, reverted>>
    /\ UNCHANGED <<global, overrides, tui, web, browser, plugin, storeDim, refused, edits>>

\* The repair goes to the file that has the section, and drops the dimension of that file.
Repair(m) ==
    /\ setup = Unset /\ UserActs
    /\ IF project.section \/ ~global.section
       THEN /\ project' = Written([project EXCEPT !.model = m, !.dim = Unset, !.section = TRUE])
            /\ UNCHANGED global
       ELSE /\ global' = Written([global EXCEPT !.model = m, !.dim = Unset])
            /\ UNCHANGED project
    /\ UNCHANGED <<option, overrides, tui, web, setup, browser, plugin, storeDim, refused, reverted>>

-----------------------------------------------------------------------------
(* The plugin, and index passes. *)

\* A reload reads the files, the overrides and, for the embedder, both.
Reload ==
    /\ UserActs
    /\ plugin' = [step |-> IF FileDim = Unset THEN "probing" ELSE "on", dim |-> FileDim,
                  model |-> EffectiveModel, read |-> Stamps, taken |-> Stamps,
                  config |-> <<FileModel, option>>, overrides |-> overrides]
    /\ UNCHANGED <<files, overrides, tui, web, setup, browser, storeDim, refused, reverted>>

\* A probed dimension goes to the project's file; without one the index decides, or the default.
Probe(ok) ==
    /\ plugin.step = "probing"
    /\ plugin' = [plugin EXCEPT !.step = "on",
            !.dim = IF ok THEN DimOf[plugin.model] ELSE First(storeDim, LastResort)]
    /\ IF ok /\ project.dim # DimOf[plugin.model]
       THEN /\ project' = Written([project EXCEPT !.dim = DimOf[plugin.model], !.section = TRUE])
       ELSE UNCHANGED project
    /\ UNCHANGED <<global, option, overrides, tui, web, setup, browser, storeDim, refused, edits, reverted>>

\* (mutant) only the project's file is looked at
TakeStampsOfProject ==
    /\ plugin.step = "on" /\ plugin.read[2] # Stamps[2]
    /\ plugin' = [plugin EXCEPT !.step = "loading", !.taken = Stamps]
    /\ UNCHANGED <<files, overrides, tui, web, setup, browser, storeDim, refused, edits, reverted>>

\* The mtimes are taken before the files are read; the embedder follows the files' model.
TakeStamps ==
    /\ plugin.step = "on" /\ plugin.read # Stamps
    /\ plugin' = [plugin EXCEPT !.step = "loading", !.taken = Stamps]
    /\ UNCHANGED <<files, overrides, tui, web, setup, browser, storeDim, refused, edits, reverted>>

LoadFiles ==
    /\ plugin.step = "loading"
    /\ plugin' = [plugin EXCEPT !.step = "on", !.read = plugin.taken,
            !.config = <<FileModel, option>>,
            !.model = IF plugin.config[1] = FileModel THEN plugin.model ELSE FileModel]
    /\ UNCHANGED <<files, overrides, tui, web, setup, browser, storeDim, refused, edits, reverted>>

\* Every five seconds.
ReadOverrides ==
    /\ plugin.step = "on" /\ plugin.overrides # overrides
    /\ plugin' = [plugin EXCEPT !.overrides = overrides]
    /\ UNCHANGED <<files, overrides, tui, web, setup, browser, storeDim, refused, edits, reverted>>

\* A pass at a dimension, with an embedder: another index is rebuilt, another embedder refused.
Indexed(dim, model) == IF dim = DimOf[model] THEN dim ELSE storeDim

CommandLinePass ==
    LET dim == First(FileDim, DimOf[EffectiveModel])
    IN  /\ storeDim' = Indexed(dim, EffectiveModel)
        /\ refused' = (dim # DimOf[EffectiveModel])
        /\ UNCHANGED <<files, overrides, tui, web, setup, browser, plugin, edits, reverted>>

WatchPass ==
    /\ plugin.step = "on"
    /\ storeDim' = Indexed(plugin.dim, plugin.model)
    /\ UNCHANGED <<files, overrides, tui, web, setup, browser, plugin, refused, edits, reverted>>

-----------------------------------------------------------------------------
Writers ==
    \/ \E m \in Models : PickModel(m) \/ Repair(m)
    \/ \E v \in Options : PickOption(v)
    \/ OpenView \/ ClickTheme
    \/ \E v \in Options : Type("project", v)
    \/ \E m \in Models : Type("global", m)
    \/ \E layer \in {"project", "global"} : Save(layer)
    \/ StartSetup \/ CancelSetup
    \/ \E m \in Models, probed \in BOOLEAN : ApplySetup(m, probed)
    \/ \E agreed \in BOOLEAN : StripProject(agreed)
Finishing == FinishPick \/ FinishSave
Probing == \E ok \in BOOLEAN : Probe(ok)
Following == TakeStamps \/ LoadFiles

ConfigNext ==
    Writers \/ Finishing \/ Reload \/ Probing \/ Following \/ ReadOverrides
        \/ CommandLinePass \/ WatchPass
ConfigSpec == ConfigInit /\ [][ConfigNext]_settings

-----------------------------------------------------------------------------
AtRest == tui = Unset /\ web = Unset

\* Where the settings dialog and the view have both finished, the value in force
\* for an option is the one in the project's file: neither leaves an override
\* that hides a later save of the other (what the wizard put back excepted).
SavesAreNotShadowed ==
    AtRest /\ ~reverted => EffectiveOption = option

\* The view overwrites only a value that it showed, except after a click on a
\* theme, which brings the draft the mtime of a file it never showed.
NothingOverwrittenUnseen ==
    [][\A layer \in {"project", "global"} :
          Save(layer) /\ ~browser.refreshed => InLayer(layer) = browser.draft.shown]_settings

\* A running plugin comes to serve the files and the overrides as they are.
CaughtUp ==
    plugin.step = "on" => plugin.config = <<FileModel, option>> /\ plugin.overrides = overrides
PluginCatchesUp == <>[]CaughtUp

\* A pass of the command line that finds an index of another dimension than that
\* of the model in force rebuilds it, and is not refused.
SwitchesRebuild ==
    [][refused' /\ ~refused => storeDim \in {Unset, DimOf[EffectiveModel]}]_settings
=============================================================================
