----------------------------- MODULE MCServices -----------------------------
(***************************************************************************)
(* Instance of SocketInstall, Containers, Triggers, Hosting, HostingFiles  *)
(* and Push for TLC.  They share no state: a behaviour is one of one of    *)
(* them, and the others stay in their initial state.                       *)
(***************************************************************************)
EXTENDS SocketInstall, Containers, Triggers, Hosting, HostingFiles, Push, TLC

VARIABLE part

MCFileSizes == 1..2

Symmetry ==
    UNION {Permutations(Paths), Permutations(Contents \ {Empty}), Permutations(Sites), Permutations(Domains)}

vars == <<installVars, containersVars, triggersVars, hostingVars, hostingFilesVars, pushVars, part>>

Init ==
    /\ InstallInit /\ ContainersInit /\ TriggersInit /\ HostingInit /\ HostingFilesInit /\ PushInit
    /\ part \in {"install", "containers", "triggers", "hosting", "files", "apple", "google"}

(* A step of one part leaves the others alone. *)
Next ==
    /\ UNCHANGED part
    /\ \/ /\ part = "install" /\ InstallNext
          /\ UNCHANGED <<containersVars, triggersVars, hostingVars, hostingFilesVars, pushVars>>
       \/ /\ part = "containers" /\ ContainersNext
          /\ UNCHANGED <<installVars, triggersVars, hostingVars, hostingFilesVars, pushVars>>
       \/ /\ part = "triggers" /\ TriggersNext
          /\ UNCHANGED <<installVars, containersVars, hostingVars, hostingFilesVars, pushVars>>
       \/ /\ part = "hosting" /\ HostingNext
          /\ UNCHANGED <<installVars, containersVars, triggersVars, hostingFilesVars, pushVars>>
       \/ /\ part = "files" /\ HostingFilesNext
          /\ UNCHANGED <<installVars, containersVars, triggersVars, hostingVars, pushVars>>
       \/ /\ part = "apple" /\ AppleNext
          /\ UNCHANGED <<installVars, containersVars, triggersVars, hostingVars, hostingFilesVars>>
       \/ /\ part = "google" /\ GoogleNext
          /\ UNCHANGED <<installVars, containersVars, triggersVars, hostingVars, hostingFilesVars>>

Spec == Init /\ [][Next]_vars

(* The variables of the other parts have one value each. *)
PartView ==
    CASE part = "install" -> <<part, installVars>>
      [] part = "containers" -> <<part, containersVars>>
      [] part = "triggers" -> <<part, triggersVars>>
      [] part = "hosting" -> <<part, hostingVars>>
      [] part = "files" -> <<part, hostingFilesVars>>
      [] part = "apple" -> <<part, pushVars>>
      [] part = "google" -> <<part, pushVars>>
=============================================================================
