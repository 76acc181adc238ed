-------------------------------- MODULE MCModOps --------------------------------
(* Two projects of the first provider that require each other, a library named by   *)
(* its version only, which requires one of them without naming it, and a client-    *)
(* only project of the second provider.                                             *)
EXTENDS ModOps

MCModrinth == {"sodium", "api", "lib"}
MCCurseForge == {"jei"}
MCNames == {"sodium-1", "sodium-2", "api", "lib", "jei"}
MCNewest == [p \in {"sodium", "api", "lib", "jei"} |-> IF p = "sodium" THEN 2 ELSE 1]
MCFileNameOf ==
    [p \in {"sodium", "api", "lib", "jei"} |->
        CASE p = "sodium" -> <<"sodium-1", "sodium-2">>
          [] p = "jei" -> <<"jei">>
          [] OTHER -> <<p>>]
Needed1(p, by) == [project |-> p, by |-> by]
MCRequires ==
    [p \in {"sodium", "api", "lib", "jei", "own"} |->
        CASE p = "sodium" -> {Needed1("api", "project"), Needed1("lib", "version")}
          [] p = "api" -> {Needed1("sodium", "project")}
          [] p = "lib" -> {Needed1("sodium", "nothing")}
          [] OTHER -> {}]
=================================================================================
