-------------------------- MODULE MCSandboxSession --------------------------
(***************************************************************************)
(* Small instances of SandboxSession: radare2 behind its port, Ghidra with   *)
(* its cache, and the deobfuscation pool that is claimed directly.           *)
(***************************************************************************)
EXTENDS SandboxSession, TLC

CONSTANTS c1, c2, p1, p2, port, sample, r2, ghidra_rpc, deobf_tools

OneCase  == {c1}
TwoCases == {c1, c2}
TwoPods  == {p1, p2}
OnePort == {port}
OneArtifact == {sample}
Engines == {r2, ghidra_rpc}
Direct  == {deobf_tools}
EnginePorts == (r2 :> port) @@ (ghidra_rpc :> None)
=============================================================================
