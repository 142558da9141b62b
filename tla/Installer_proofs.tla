--------------------------- MODULE Installer_proofs ---------------------------
(***************************************************************************)
(* What an installation promises, for any releases and any number of runs  *)
(* that stop anywhere.                                                     *)
(***************************************************************************)
EXTENDS Installer, TLAPS

Looking == {"mkdir", "fetch", "assets"}
Copying == {"download", "install", "installing"}

\* A run that must be refused: a plain one that sees a toolchain.
Protected == /\ run.place # "prefix" /\ ~run.force
             /\ before.present["toolchain"] /\ run.mark # "(override)"

\* How far a run is, and what it has found out by then.
RunInv ==
    /\ pc # "idle" => outcome = "none" /\ runs > 0
    /\ pc \notin {"idle"} \cup Copying => component = "host"
    /\ pc \in {"check", "uninstall", "uninstalling"} => run.place # "prefix"
    /\ pc \in {"assets"} \cup Copying => release \in Published
    /\ pc \in {"fetch", "assets"} \cup Copying => present[Place]

\* Such a run gets no further.
ProtectedInv ==
    /\ Protected => pc \in {"idle", "check"}
    /\ pc = "check" => present = before.present

\* Every place is as the run found it, but for what --force uninstalls.
Spared == \A p \in Places :
    \/ installed[p] = before.installed[p]
    \/ p = "toolchain" /\ run.place # "prefix" /\ run.force /\ installed[p] = Empty

\* Until the assets are found every place is spared, and a run that copies has found them.
SpareInv ==
    /\ pc = "check" => installed = before.installed
    /\ pc \in {"uninstall", "uninstalling"} =>
          /\ run.force
          /\ \A p \in Places \ {"toolchain"} : installed[p] = before.installed[p]
    /\ pc \in {"check", "uninstall", "uninstalling", "mkdir", "fetch"} => release = "none"
    /\ pc \in Looking => Spared
    /\ pc \in Copying => release \in Usable
    /\ UnusableReleasesSpare

\* What is installed by when: the host toolchain first.
CopyInv ==
    /\ pc \in Copying /\ component = "assigner" => installed[Place]["host"] = release
    /\ outcome = "completed" =>
          release \in Published /\ \A c \in Components : installed[Place][c] = release

\* A run that ends without a failure was refused, or complete.
CleanInv == pc = "idle" /\ runs > 0 /\ clean =>
                outcome = IF Protected THEN "refused" ELSE "completed"

\* Nothing is in rustup's toolchain without a directory; and as long as no run took it
\* for one that does not exist, a run that copies into it found no assigner target there.
ToolchainInv ==
    /\ ~present["toolchain"] => \A c \in Components : installed["toolchain"][c] = "none"
    /\ ~overlaid /\ Place = "toolchain" /\ pc \in Looking \cup Copying /\ component = "host" =>
          installed["toolchain"]["assigner"] = "none"
    /\ OneReleaseInToolchain

IInv == /\ TypeOK
        /\ RunInv /\ ProtectedInv /\ CopyInv /\ CleanInv /\ ToolchainInv /\ SpareInv
-------------------------------------------------------------------------------
LEMMA Names ==
  /\ "none" \notin Releases /\ "pieces" \notin Releases
  /\ Published \subseteq Releases /\ Usable \subseteq Published /\ MaxRuns \in Nat
  BY InstallerAssumption DEF Usable

LEMMA PlaceInPlaces == ASSUME TypeOK PROVE Place \in Places
  BY DEF TypeOK, Runs, Place, Places

\* install.sh changes the component it is run for, in the place of the run, and no other.
LEMMA HoldsOne ==
  ASSUME TypeOK, NEW what \in Contents, Holds(what)
  PROVE  /\ installed' \in [Places -> [Components -> Contents]]
         /\ installed'[Place][component] = what
         /\ \A p \in Places, c \in Components :
               p # Place \/ c # component => installed'[p][c] = installed[p][c]
  BY PlaceInPlaces DEF TypeOK, Holds

LEMMA InitInv == Init => IInv
<1> SUFFICES ASSUME Init PROVE IInv
  OBVIOUS
<1>1. TypeOK
  <2>1. /\ Empty \in [Components -> Contents]
        /\ present \in [Places -> BOOLEAN]
    BY DEF Init, Empty, Contents
  <2>2. installed \in [Places -> [Components -> Contents]]
    BY <2>1 DEF Init
  <2>3. before \in [present : [Places -> BOOLEAN],
                   installed : [Places -> [Components -> Contents]]]
    BY <2>1, <2>2 DEF Init
  <2>4. runs \in 0 .. MaxRuns
    BY Names DEF Init
  <2>5. /\ pc = "idle" /\ run \in Runs /\ release = "none" /\ component = "host"
        /\ outcome = "none" /\ clean = TRUE /\ overlaid = FALSE
    BY DEF Init
  <2>6. QED  BY <2>1, <2>2, <2>3, <2>4, <2>5 DEF TypeOK, Components
<1>2. RunInv /\ CopyInv /\ CleanInv
  BY DEF Init, RunInv, CopyInv, CleanInv, Copying
<1>3. ProtectedInv
  BY DEF Init, ProtectedInv, Protected, Places
<1>4. ToolchainInv
  BY Names DEF Init, ToolchainInv, OneReleaseInToolchain, Empty, Places, Components, Looking,
         Copying
<1>5. SpareInv
  BY DEF Init, SpareInv, UnusableReleasesSpare, Looking, Copying
<1>6. QED  BY <1>1, <1>2, <1>3, <1>4, <1>5 DEF IInv

\* Every action keeps the types.
LEMMA TypeNext == TypeOK /\ [Next]_vars => TypeOK'
<1> SUFFICES ASSUME TypeOK, [Next]_vars PROVE TypeOK'
  OBVIOUS
<1> USE Names DEF TypeOK, Exit, Goto, directories
<1>1. CASE Begin
  <2>1. before' \in [present : [Places -> BOOLEAN],
                    installed : [Places -> [Components -> Contents]]]
    BY <1>1 DEF Begin
  <2>2. runs' \in 0 .. MaxRuns
    BY <1>1 DEF Begin
  <2>3. QED  BY <1>1, <2>1, <2>2 DEF Begin, Components
<1>2. CASE Check
  BY <1>2 DEF Check
<1>3. CASE Uninstall
  <2>1. [c \in Components |-> IF installed["toolchain"][c] = "none" THEN "none"
                                                                  ELSE "pieces"]
           \in [Components -> Contents]
    BY DEF Contents
  <2>2. installed' \in [Places -> [Components -> Contents]]
    BY <1>3, <2>1 DEF Uninstall
  <2>3. QED  BY <1>3, <2>2 DEF Uninstall
<1>4. CASE Uninstalled
  <2>1. Empty \in [Components -> Contents]
    BY DEF Empty, Contents
  <2>2. QED  BY <1>4, <2>1 DEF Uninstalled
<1>5. CASE MakeDirectory
  BY <1>5 DEF MakeDirectory
<1>6. CASE FetchRelease
  BY <1>6 DEF FetchRelease
<1>7. CASE FindAssets
  BY <1>7 DEF FindAssets
<1>8. CASE Download
  BY <1>8 DEF Download
<1>9. CASE Install
  <2>1. installed' \in [Places -> [Components -> Contents]]
    BY <1>9, HoldsOne DEF Install, Contents
  <2>2. QED  BY <1>9, <2>1 DEF Install
<1>10. CASE Installed
  <2>1. installed' \in [Places -> [Components -> Contents]]
    BY <1>10, HoldsOne DEF Installed, Contents
  <2>2. QED  BY <1>10, <2>1 DEF Installed, NextComponent, Components
<1>11. CASE Fail
  BY <1>11 DEF Fail
<1>12. CASE UNCHANGED vars
  BY <1>12 DEF vars
<1>13. QED
  BY <1>1, <1>2, <1>3, <1>4, <1>5, <1>6, <1>7, <1>8, <1>9, <1>10, <1>11, <1>12 DEF Next

\* Nothing is copied before the release is known to be usable.
LEMMA SpareNext == TypeOK /\ RunInv /\ SpareInv /\ [Next]_vars => SpareInv'
<1> SUFFICES ASSUME TypeOK, RunInv, SpareInv, [Next]_vars PROVE SpareInv'
  OBVIOUS
<1> USE DEF SpareInv, UnusableReleasesSpare, Looking, Copying, Exit, Goto, directories
<1>1. CASE Begin
  <2>1. before'.present = present /\ before'.installed = installed /\ UNCHANGED installed
    BY <1>1 DEF Begin
  <2>2. Spared'
    BY <2>1 DEF Spared
  <2>3. QED  BY <1>1, <2>1, <2>2 DEF Begin
<1>2. CASE Check
  <2>1. UNCHANGED <<run, installed, before, release>> /\ installed = before.installed
    BY <1>2 DEF Check
  <2>2. Spared'
    BY <2>1 DEF Spared
  <2>3. QED  BY <1>2, <2>1, <2>2 DEF Check
<1>3. CASE Uninstall
  <2>1. \A p \in Places \ {"toolchain"} : installed'[p] = installed[p]
    BY <1>3 DEF Uninstall, TypeOK
  <2>2. QED  BY <1>3, <2>1 DEF Uninstall
<1>4. CASE Uninstalled
  <2>1. /\ \A p \in Places \ {"toolchain"} : installed'[p] = installed[p]
        /\ installed'["toolchain"] = Empty
    BY <1>4 DEF Uninstalled, TypeOK, Places
  <2>2. Spared'
    BY <1>4, <2>1 DEF Uninstalled, Spared, RunInv
  <2>3. QED  BY <1>4, <2>2 DEF Uninstalled
<1>5. CASE MakeDirectory
  <2>1. Spared'
    BY <1>5 DEF MakeDirectory, Spared
  <2>2. QED  BY <1>5, <2>1 DEF MakeDirectory
<1>6. CASE FetchRelease
  <2>1. Spared /\ Spared'
    BY <1>6 DEF FetchRelease, Spared
  <2>2. pc' = "idle" => outcome' = "error"
    BY <1>6 DEF FetchRelease
  <2>3. UnusableReleasesSpare'
    BY <2>1, <2>2 DEF Spared
  <2>4. pc' \in {"assets", "idle"}
    BY <1>6 DEF FetchRelease
  <2>5. QED  BY <2>1, <2>3, <2>4
<1>7. CASE FindAssets
  <2>1. Spared /\ Spared'
    BY <1>7 DEF FindAssets, Spared
  <2>2. release \in Published
    BY <1>7 DEF FindAssets, RunInv
  <2>3. QED  BY <1>7, <2>1, <2>2 DEF FindAssets, Usable, Spared
<1>8. CASE Download
  BY <1>8 DEF Download
<1>9. CASE Install
  BY <1>9 DEF Install
<1>10. CASE Installed
  BY <1>10 DEF Installed, NextComponent
<1>11. CASE Fail
  BY <1>11 DEF Fail
<1>12. CASE UNCHANGED vars
  BY <1>12 DEF vars, Spared
<1>13. QED
  BY <1>1, <1>2, <1>3, <1>4, <1>5, <1>6, <1>7, <1>8, <1>9, <1>10, <1>11, <1>12 DEF Next

\* The runs of the history that a protected toolchain, a clean end and a copy are about.
LEMMA NextInv == IInv /\ [Next]_vars => IInv'
<1> SUFFICES ASSUME IInv, [Next]_vars
             PROVE  TypeOK' /\ RunInv' /\ ProtectedInv' /\ CopyInv' /\ CleanInv' /\ ToolchainInv'
  BY SpareNext DEF IInv
<1>0. TypeOK /\ TypeOK'
  BY TypeNext DEF IInv
<1>p. /\ Place \in Places /\ component \in Components
      /\ Places = {"toolchain", "other", "prefix"} /\ Components = {"host", "assigner"}
  BY <1>0, PlaceInPlaces DEF TypeOK, Places, Components
<1> USE <1>0 DEF IInv, RunInv, ProtectedInv, Protected, CopyInv, CleanInv, Looking, Copying,
                 Exit, Goto, directories, Place, toolchain_exists, Matches, Overlays
<1>1. CASE Begin
  <2>1. runs' > 0
    BY <1>1 DEF Begin, TypeOK
  <2>2. ToolchainInv'
    BY <1>1 DEF Begin, ToolchainInv, OneReleaseInToolchain
  <2>3. QED  BY <1>1, <2>1, <2>2 DEF Begin
<1>2. CASE Check
  <2>1. ToolchainInv'
    BY <1>2 DEF Check, ToolchainInv, OneReleaseInToolchain, Components
  <2>2. QED  BY <1>2, <2>1 DEF Check, TypeOK, Runs
<1>3. CASE Uninstall
  <2>1. \A c \in Components :
           /\ installed'["toolchain"][c] \in {"none", "pieces"}
           /\ installed["toolchain"][c] = "none" => installed'["toolchain"][c] = "none"
    BY <1>3, <1>p DEF Uninstall, TypeOK
  <2>2. OneReleaseInToolchain'
    BY <2>1, <1>p, Names DEF OneReleaseInToolchain
  <2>3. ToolchainInv'
    BY <1>3, <2>1, <2>2 DEF Uninstall, ToolchainInv
  <2>4. QED  BY <1>3, <2>3 DEF Uninstall
<1>4. CASE Uninstalled
  <2>1. \A c \in Components : installed'["toolchain"][c] = "none"
    BY <1>4, <1>p DEF Uninstalled, TypeOK, Empty
  <2>2. OneReleaseInToolchain'
    BY <2>1, <1>p, Names DEF OneReleaseInToolchain
  <2>3. ToolchainInv'
    BY <1>p, <2>1, <2>2 DEF ToolchainInv
  <2>4. QED  BY <1>4, <2>3 DEF Uninstalled
<1>5. CASE MakeDirectory
  <2>1. ToolchainInv'
    BY <1>5, <1>p DEF MakeDirectory, ToolchainInv, OneReleaseInToolchain, TypeOK
  <2>2. present'[Place]
    BY <1>5, <1>p DEF MakeDirectory, TypeOK
  <2>3. QED  BY <1>5, <2>1, <2>2 DEF MakeDirectory
<1>6. CASE FetchRelease
  <2>1. ToolchainInv'
    BY <1>6 DEF FetchRelease, ToolchainInv, OneReleaseInToolchain
  <2>2. QED  BY <1>6, <2>1 DEF FetchRelease
<1>7. CASE FindAssets
  <2>1. ToolchainInv'
    BY <1>7 DEF FindAssets, ToolchainInv, OneReleaseInToolchain
  <2>2. QED  BY <1>7, <2>1 DEF FindAssets
<1>8. CASE Download
  <2>1. ToolchainInv'
    BY <1>8 DEF Download, ToolchainInv, OneReleaseInToolchain
  <2>2. QED  BY <1>8, <2>1 DEF Download
<1>9. CASE Install
  <2>1. /\ installed'[Place][component] = "pieces"
        /\ \A p \in Places, c \in Components :
              p # Place \/ c # component => installed'[p][c] = installed[p][c]
    BY <1>9, HoldsOne DEF Install, Contents
  <2>2. /\ pc = "install" /\ pc' = "installing" /\ UNCHANGED outcome
        /\ UNCHANGED <<run, present, before, release, component, clean, overlaid, runs>>
    BY <1>9 DEF Install
  <2>3. RunInv' /\ ProtectedInv' /\ CleanInv'
    BY <2>2
  <2>4. CopyInv'
    BY <2>1, <2>2, <1>p
  <2>5. ToolchainInv'
    BY <2>1, <2>2, <1>p, Names DEF ToolchainInv, OneReleaseInToolchain
  <2>6. QED  BY <2>3, <2>4, <2>5
<1>10. CASE Installed
  <2>1. release \in Contents /\ release \in Published /\ release \in Releases
    BY <1>10, Names DEF Installed, Contents
  <2>2. /\ installed'[Place][component] = release
        /\ \A p \in Places, c \in Components :
              p # Place \/ c # component => installed'[p][c] = installed[p][c]
    BY <1>10, <2>1, HoldsOne DEF Installed
  <2>3. /\ pc = "installing"
        /\ UNCHANGED <<run, present, before, release, clean, overlaid, runs>>
    BY <1>10 DEF Installed
  <2>4. CASE component = "host"
    <3>1. component' = "assigner" /\ pc' = "download" /\ UNCHANGED outcome
      BY <1>10, <2>4 DEF Installed, NextComponent
    <3>2. RunInv' /\ ProtectedInv' /\ CleanInv'
      BY <2>3, <3>1
    <3>3. CopyInv'
      BY <2>2, <2>3, <2>4, <3>1, <1>p
    <3>4. ToolchainInv'
      BY <2>2, <2>3, <2>4, <3>1, <1>p, Names DEF ToolchainInv, OneReleaseInToolchain
    <3>5. QED  BY <3>2, <3>3, <3>4
  <2>5. CASE component = "assigner"
    <3>1. component' = component /\ pc' = "idle" /\ outcome' = "completed"
      BY <1>10, <2>5 DEF Installed, NextComponent
    <3>2. RunInv' /\ ProtectedInv' /\ CleanInv'
      BY <2>3, <3>1
    <3>3. CopyInv'
      BY <2>1, <2>2, <2>3, <2>5, <3>1, <1>p
    <3>4. ToolchainInv'
      BY <2>2, <2>3, <2>5, <3>1, <1>p, Names DEF ToolchainInv, OneReleaseInToolchain
    <3>5. QED  BY <3>2, <3>3, <3>4
  <2>6. QED  BY <2>4, <2>5, <1>p
<1>11. CASE Fail
  <2>1. ToolchainInv'
    BY <1>11 DEF Fail, ToolchainInv, OneReleaseInToolchain
  <2>2. QED  BY <1>11, <2>1 DEF Fail
<1>12. CASE UNCHANGED vars
  BY <1>12 DEF vars, ToolchainInv, OneReleaseInToolchain
<1>13. QED
  BY <1>1, <1>2, <1>3, <1>4, <1>5, <1>6, <1>7, <1>8, <1>9, <1>10, <1>11, <1>12 DEF Next

LEMMA Invariance == Spec => []IInv
  BY InitInv, NextInv, PTL DEF Spec
-------------------------------------------------------------------------------
\* The state of an installation keeps its type.
THEOREM TypeCorrect == Spec => []TypeOK
  BY Invariance, PTL DEF IInv

\* For any releases: "Installation completed" is only ever said of two whole components
\* of one published release.
THEOREM CompletedMeansWhole == Spec => []CompletedIsWhole
<1>1. IInv => CompletedIsWhole
  BY DEF IInv, CopyInv, CompletedIsWhole
<1>2. QED  BY <1>1, Invariance, PTL

\* After any number of runs that stopped anywhere, a run without a failure completes, or
\* is refused because of a directory that was in rustup's own home when it began.
THEOREM CleanRunsEndWell == Spec => []CleanRunsComplete
<1>1. IInv => CleanRunsComplete
  BY DEF IInv, CleanInv, Protected, CleanRunsComplete
<1>2. QED  BY <1>1, Invariance, PTL

\* For any releases: asking for one that is a draft or lacks an asset costs no place a
\* file, but for the toolchain that --force uninstalled before the release was looked for.
THEOREM UnusableReleasesHarmless == Spec => []UnusableReleasesSpare
<1>1. IInv => UnusableReleasesSpare
  BY DEF IInv, SpareInv
<1>2. QED  BY <1>1, Invariance, PTL

\* The two components of rustup's toolchain are of one release, whatever ran before, unless
\* a run took a toolchain that was there for one that was not.
THEOREM ToolchainOfOneRelease == Spec => []OneReleaseInToolchain
<1>1. IInv => OneReleaseInToolchain
  BY DEF IInv, ToolchainInv
<1>2. QED  BY <1>1, Invariance, PTL
===============================================================================
