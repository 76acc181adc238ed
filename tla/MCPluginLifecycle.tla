-------------------------- MODULE MCPluginLifecycle --------------------------
(***************************************************************************)
(* A small instance on a Paper server: three versions of a plugin, one     *)
(* under another file name, and an addon for a proxy that needs it.  What  *)
(* is described, needed and admitted is what PluginCatalog computes from   *)
(* the descriptors and from what the providers say.                        *)
(***************************************************************************)
EXTENDS PluginLifecycle, TLC

Catalog == INSTANCE PluginCatalog

MCFile == {"essentials-1.jar", "essentials-2.jar"}
MCArtifact == {"v1", "v2", "v3", "addon"}
MCProject == {"essentials", "addons"}
MCName == {"Essentials", "Addon"}

MCOrigin == "v1" :> "essentials" @@ "v2" :> "essentials" @@ "v3" :> "essentials" @@ "addon" :> "addons"
MCFileOf == [a \in MCArtifact |->
                IF a = "v2" THEN "essentials-2.jar" ELSE "essentials-1.jar"]

Descriptor(source, name, depend) ==
    [source |-> source, name |-> name, main |-> "Main", folia |-> "none",
     depend |-> depend, softDepend |-> {}, loadBefore |-> {}]
MCDescriptors ==
    "v1" :> <<Descriptor("plugin.yml", "Essentials", {})>> @@
    "v2" :> <<Descriptor("plugin.yml", "Essentials", {}),
              Descriptor("paper-plugin.yml", "none", {})>> @@
    "v3" :> <<Descriptor("paper-plugin.yml", "Essentials", {})>> @@
    "addon" :> <<Descriptor("velocity-plugin.json", "Addon", {"Essentials"})>>
MCOffer(a) ==
    [platforms |-> IF a = "addon" THEN {"Velocity"} ELSE {"Paper"}, games |-> {"1.20.1"}]

MCResolved == [a \in MCArtifact |-> Catalog!ResolveDescriptors(MCDescriptors[a])]
MCDescribed == {a \in MCArtifact : MCResolved[a].kind # "nothing"}
MCNameOf == [a \in MCArtifact |-> MCResolved[a].desc.name]
MCNeeds == [a \in MCArtifact |-> MCResolved[a].desc.depend]
MCAdmitted ==
    {a \in MCArtifact :
        Catalog!MayInstall(Catalog!CandidateCompatibility(MCOffer(a), "1.20.1", "Paper", "none"))}
Calls == Permutations(Call)
=============================================================================
