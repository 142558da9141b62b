------------------------------ MODULE Installer ------------------------------
(***************************************************************************)
(* rslang-installer.py: finds the release of the Rust toolchain for a host *)
(* and installs its two components, the host toolchain and the assigner    *)
(* target, one after the other. With --no-rustup the place is a prefix;    *)
(* otherwise it is the toolchain's directory in $HOME/.rustup or in what   *)
(* --rustup-home says, and that need not be the home rustup uses: what it  *)
(* lists and what it uninstalls is always of its own home. Nothing is      *)
(* undone when a step fails, and the installer may be run again with other *)
(* options. rustup and the install.sh of the components are external.      *)
(***************************************************************************)
EXTENDS Naturals

CONSTANTS Releases,     \* what the server has
          Published,    \* neither a draft nor a prerelease
          Hosted,       \* with the toolchain for this host and channel
          Targeted,     \* with the assigner target
          MaxRuns       \* bound: how often the installer is run

ASSUME InstallerAssumption == /\ Published \subseteq Releases
                              /\ Hosted \subseteq Releases /\ Targeted \subseteq Releases
                              /\ MaxRuns \in Nat
                              /\ Releases \cap {"none", "pieces", "latest"} = {}

\* The toolchain in rustup's own home, the one in another home, and a prefix.
Places == {"toolchain", "other", "prefix"}
Components == {"host", "assigner"}
Contents == Releases \cup {"none", "pieces"}
Empty == [c \in Components |-> "none"]

\* A run: the options, where they lead, and what `rustup toolchain list` writes next to the
\* name. rustup marks the toolchain that an override selects for the current directory.
Runs == [force : BOOLEAN, place : Places, version : Releases \cup {"latest"},
         mark : {"", "(default)", "(override)"}]

VARIABLES pc, run,
          present,      \* whether a place exists as a directory
          installed,    \* what it holds of each component
          before,       \* both, when the run began
          release,      \* the release found
          component,    \* the component process_dist is at
          outcome,      \* of the last run that ended
          clean,        \* nothing failed in this run and the release could be used
          overlaid,     \* rustup's toolchain was taken for one that does not exist
          runs

vars == <<pc, run, present, installed, before, release, component, outcome, clean,
          overlaid, runs>>
directories == <<present, installed>>

Place == run.place

\* pattern: ^name( \(default\))?$
Matches == run.mark \in {"", "(default)"}

\* Of rustup's own home, wherever the run writes.
toolchain_exists == present["toolchain"] /\ Matches

TypeOK == /\ pc \in {"idle", "check", "uninstall", "uninstalling", "mkdir", "fetch", "assets",
                     "download", "install", "installing"}
          /\ run \in Runs
          /\ present \in [Places -> BOOLEAN]
          /\ installed \in [Places -> [Components -> Contents]]
          /\ before \in [present : [Places -> BOOLEAN],
                         installed : [Places -> [Components -> Contents]]]
          /\ release \in Releases \cup {"none"}
          /\ component \in Components
          /\ outcome \in {"none", "completed", "refused", "error"}
          /\ clean \in BOOLEAN /\ overlaid \in BOOLEAN /\ runs \in 0 .. MaxRuns

Init == /\ pc = "idle" /\ run \in Runs
        /\ present = [p \in Places |-> FALSE] /\ installed = [p \in Places |-> Empty]
        /\ before = [present |-> present, installed |-> installed]
        /\ release = "none" /\ component = "host"
        /\ outcome = "none" /\ clean = TRUE /\ overlaid = FALSE /\ runs = 0
-------------------------------------------------------------------------------
Begin == /\ pc = "idle" /\ runs < MaxRuns
         /\ run' \in Runs
         /\ pc' = IF run'.place # "prefix" THEN "check" ELSE "mkdir"
         /\ before' = [present |-> present, installed |-> installed]
         /\ release' = "none" /\ component' = "host"
         /\ outcome' = "none" /\ clean' = TRUE /\ runs' = runs + 1
         /\ UNCHANGED <<directories, overlaid>>

Exit(how) == pc' = "idle" /\ outcome' = how
Goto(where) == pc' = where /\ UNCHANGED outcome

Overlays == ~toolchain_exists /\ present["toolchain"] /\ Place = "toolchain"

\* Mutant: --force installs over the old toolchain.
Check_over == /\ pc = "check"
              /\ \/ ~toolchain_exists /\ Goto("mkdir")
                 \/ toolchain_exists /\ run.force /\ Goto("mkdir")
                 \/ toolchain_exists /\ ~run.force /\ Exit("refused")
              /\ overlaid' = (overlaid \/ Overlays)
              /\ UNCHANGED <<run, directories, before, release, component, clean, runs>>

\* The directory is all that rustup looks for: a toolchain without any file is listed too.
Check == /\ pc = "check"
         /\ \/ ~toolchain_exists /\ Goto("mkdir")
            \/ toolchain_exists /\ run.force /\ Goto("uninstall")
            \/ toolchain_exists /\ ~run.force /\ Exit("refused")
         /\ overlaid' = (overlaid \/ Overlays)
         /\ UNCHANGED <<run, directories, before, release, component, clean, runs>>

\* rustup toolchain uninstall removes the directory, file after file.
Uninstall == /\ pc = "uninstall" /\ Goto("uninstalling")
             /\ installed' = [installed EXCEPT !["toolchain"] =
                                  [c \in Components |-> IF @[c] = "none" THEN "none"
                                                                         ELSE "pieces"]]
             /\ UNCHANGED <<run, present, before, release, component, clean, overlaid, runs>>

Uninstalled == /\ pc = "uninstalling" /\ Goto("mkdir")
               /\ present' = [present EXCEPT !["toolchain"] = FALSE]
               /\ installed' = [installed EXCEPT !["toolchain"] = Empty]
               /\ overlaid' = FALSE
               /\ UNCHANGED <<run, before, release, component, clean, runs>>

\* Mutant: without exist_ok.
MakeDirectory_new ==
    /\ pc = "mkdir"
    /\ IF present[Place] THEN Exit("error") ELSE Goto("fetch")
    /\ present' = [present EXCEPT ![Place] = TRUE]
    /\ UNCHANGED <<run, installed, before, release, component, clean, overlaid, runs>>

MakeDirectory == /\ pc = "mkdir" /\ Goto("fetch")
                 /\ present' = [present EXCEPT ![Place] = TRUE]
                 /\ UNCHANGED <<run, installed, before, release, component, clean, overlaid,
                                runs>>

Usable == Published \cap Hosted \cap Targeted

\* fetch_release, and the refusal of what is not published.
FetchRelease == /\ pc = "fetch"
                /\ \E r \in Releases :
                      /\ run.version \in {"latest", r} /\ release' = r
                      /\ IF r \in Published THEN Goto("assets") ELSE Exit("error")
                      /\ clean' = (clean /\ r \in Published)
                /\ UNCHANGED <<run, directories, before, component, overlaid, runs>>

\* Mutant: that there is no assigner target is noticed when the host toolchain is in.
FindAssets_host ==
    /\ pc = "assets"
    /\ IF release \in Hosted THEN Goto("download") ELSE Exit("error")
    /\ clean' = (clean /\ release \in Hosted \cap Targeted)
    /\ UNCHANGED <<run, directories, before, release, component, overlaid, runs>>

\* find_host_toolchain and find_assigner_target, both before anything is downloaded.
FindAssets == /\ pc = "assets"
              /\ IF release \in Hosted \cap Targeted THEN Goto("download") ELSE Exit("error")
              /\ clean' = (clean /\ release \in Hosted \cap Targeted)
              /\ UNCHANGED <<run, directories, before, release, component, overlaid, runs>>

\* process_dist: download and unpack into a temporary directory,
Download == /\ pc = "download" /\ Goto("install")
            /\ UNCHANGED <<run, directories, before, release, component, clean, overlaid, runs>>

Holds(what) == installed' = [installed EXCEPT ![Place][component] = what]

\* run install.sh, which copies into the place,
Install == /\ pc = "install" /\ Goto("installing") /\ Holds("pieces")
           /\ UNCHANGED <<run, present, before, release, component, clean, overlaid, runs>>

NextComponent == IF component = "host" THEN component' = "assigner" /\ Goto("download")
                                       ELSE UNCHANGED component /\ Exit("completed")

\* Mutant: the assigner target is recorded under the name of its archive.
Installed_archive == /\ pc = "installing"
                     /\ Holds(IF component = "host" THEN release ELSE "rust-std")
                     /\ NextComponent
                     /\ UNCHANGED <<run, present, before, release, clean, overlaid, runs>>

\* and be done with the component.
Installed == /\ pc = "installing" /\ Holds(release) /\ NextComponent
             /\ UNCHANGED <<run, present, before, release, clean, overlaid, runs>>

\* Mutant: install.sh is run like the commands that may fail (cmd_output_no_fail).
Fail_ignored == /\ pc # "idle"
                /\ IF pc = "installing" THEN NextComponent
                                        ELSE Exit("error") /\ UNCHANGED component
                /\ clean' = FALSE
                /\ UNCHANGED <<run, directories, before, release, overlaid, runs>>

\* A command, a request, a file or the user ends the run; what is done stays done.
Fail == /\ pc # "idle" /\ Exit("error")
        /\ clean' = FALSE
        /\ UNCHANGED <<run, directories, before, release, component, overlaid, runs>>

Next == \/ Begin \/ Check \/ Uninstall \/ Uninstalled \/ MakeDirectory \/ FetchRelease
        \/ FindAssets \/ Download \/ Install \/ Installed \/ Fail
        \/ (pc = "idle" /\ runs = MaxRuns /\ UNCHANGED vars)

Spec == Init /\ [][Next]_vars
-------------------------------------------------------------------------------
(***************************************************************************)
(* Properties.                                                             *)
(***************************************************************************)
\* "Installation completed" is the truth: both components are there, whole and of one
\* published release, whatever earlier runs left in the place.
CompletedIsWhole ==
    outcome = "completed" =>
        /\ release \in Published
        /\ \A c \in Components : installed[Place][c] = release

\* Whatever failures left behind, a run in which nothing fails installs the toolchain,
\* but for one: without --force it is refused when there is a directory in rustup's own
\* home. That directory may be empty: it is made before the release is looked for. And the
\* place the run would write to, if it is another, is not looked at: there a toolchain is
\* no reason to refuse, and for one that is absent the run is refused all the same.
CleanRunsComplete ==
    pc = "idle" /\ runs > 0 /\ clean =>
        outcome = IF /\ run.place # "prefix" /\ ~run.force
                     /\ before.present["toolchain"] /\ run.mark # "(override)"
                  THEN "refused" ELSE "completed"

\* A release that cannot be used, because it is a draft or lacks one of the two assets, is
\* found out before anything is copied: no place loses or gains a file by asking for it.
\* But --force has uninstalled rustup's toolchain by then.
UnusableReleasesSpare ==
    release # "none" /\ release \notin Usable =>
        /\ pc = "idle" => outcome = "error"
        /\ \A p \in Places :
              \/ installed[p] = before.installed[p]
              \/ p = "toolchain" /\ run.place # "prefix" /\ run.force /\ installed[p] = Empty

\* The two components of rustup's toolchain are never of different releases, however many
\* runs failed half way, since --force starts from nothing. It takes a toolchain the
\* installer did not see; and a prefix and another home have no such protection.
OneReleaseInToolchain ==
    ~overlaid =>
        LET here == installed["toolchain"]
        IN  {here["host"], here["assigner"]} \subseteq Releases => here["host"] = here["assigner"]
===============================================================================
