----------------------------- MODULE MCDeobfLoop -----------------------------
(***************************************************************************)
(* Small instances of DeobfLoop.  A sample is a chain of layers: outer may  *)
(* yield inner, inner may yield core, and the managed inner layer may also   *)
(* lead back to the outer one.  FLOSS finds in inner the string it found in  *)
(* outer and one more.                                                      *)
(***************************************************************************)
EXTENDS DeobfLoop, TLC

CONSTANTS outer, inner, core,   \* artifacts of a native sample (or of any)
          mouter, minner, mcore, \* artifacts of a managed one
          s1, s2,               \* strings
          strings               \* the one metric of a snapshot

Two   == {outer, inner}
Six   == {outer, inner, core, mouter, minner, mcore}

AllStrings == {s1, s2}
AllMetrics == {strings}
AllSnapshots == [AllMetrics -> 0 .. 1]
Flat == [m \in AllMetrics |-> 0]
FlatSnapshots == {Flat}

YieldsTwo   == (outer :> {inner}) @@ (inner :> {})
YieldsSix == (outer :> {inner}) @@ (inner :> {core}) @@ (core :> {})
               @@ (mouter :> {minner}) @@ (minner :> {mouter, mcore}) @@ (mcore :> {})

DecodedTwo   == (outer :> {s1}) @@ (inner :> {s1, s2})
DecodedSix == (outer :> {s1}) @@ (inner :> {s1, s2}) @@ (core :> {})
                @@ (mouter :> {s1}) @@ (minner :> {s1, s2}) @@ (mcore :> {})

\* A native chain of layers and a managed one.
NativeAndManaged == [a \in Artifacts |-> IF a \in {outer, inner, core} THEN "native" ELSE "dotnet"]
Native == [a \in Artifacts |-> "native"]
Dotnet == [a \in Artifacts |-> "dotnet"]
\* Two samples of one session: outer is managed, inner a JVM package.
Mixed  == (outer :> "dotnet") @@ (inner :> "jvm")

PlanFor(a, u, f, p, o) ==
    [artifact |-> a, upx |-> u, floss |-> f, pcode |-> p, obf |-> o, snap |-> Flat]

\* UPX-packed; packed with something else, with FLOSS wanted or not; clean.
NativePlans ==
    UNION {{PlanFor(a, TRUE, TRUE, FALSE, "upx"), PlanFor(a, TRUE, FALSE, FALSE, "packed-other"),
            PlanFor(a, FALSE, FALSE, FALSE, "packed-other"), PlanFor(a, FALSE, FALSE, FALSE, "none")} :
             a \in {x \in Artifacts : FormatOf[x] = "native"}}

\* Packed with something no cheap tool knows, FLOSS wanted.
DeepPlans == {PlanFor(a, FALSE, TRUE, FALSE, "packed-other") : a \in Artifacts}

\* A native layer by any of the first, a managed one by the second.
LayerPlans == NativePlans \cup {p \in DeepPlans : FormatOf[p.artifact] = "dotnet"}

\* The second, and virtualised code that is handed over to the engines as p-code.
DeepAndHandoffPlans == DeepPlans \cup {PlanFor(a, FALSE, TRUE, TRUE, "vm") : a \in Artifacts}
=============================================================================
