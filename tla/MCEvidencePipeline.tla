-------------------------- MODULE MCEvidencePipeline --------------------------
(***************************************************************************)
(* Small instances of EvidencePipeline: a native sample of two layers, a    *)
(* managed one and a JVM package.                                           *)
(***************************************************************************)
EXTENDS EvidencePipeline

CONSTANTS outer, inner,   \* the layers of a native sample
          assembly,       \* a managed sample
          package         \* a JVM package

AllArtifacts     == {outer, inner, assembly, package}
AllSamples       == {outer, assembly, package}
OneLayer         == {outer}
PackageAndNative == {outer, package}
Owner    == [a \in Artifacts |-> IF a = inner THEN outer ELSE a]
LayersOf == [a \in Artifacts |-> IF a = outer /\ inner \in Artifacts THEN {outer, inner} ELSE {a}]
Engine   == [a \in Samples |-> CASE a = assembly -> "dotnet" [] a = package -> "jvm"
                                 [] OTHER -> "native"]
TwoKinds == {"network", "other"}

Answer(anchor, flaw, status, kinds, limits, net) ==
    [anchor |-> anchor, flaw |-> flaw, status |-> status, kinds |-> kinds,
     limits |-> limits, net |-> net]

Clean       == Answer("current", "none", "complete", <<>>, <<>>, FALSE)
Finds(k)    == Answer("current", "none", "complete", <<k>>, <<>>, FALSE)
\* One finding survives of an envelope anchored elsewhere.
Salvageable == Answer("other", "findings", "complete", <<"other">>, <<>>, FALSE)
\* Two findings where one fits, from a completed surface.
Crowded     == Answer("current", "none", "complete", <<"other", "network">>, <<>>, TRUE)
\* Strings decoded from the sample, none of them telling.
Decoded     == Answer("current", "none", "complete", <<>>, <<>>, TRUE)
Limited     == Answer("current", "none", "partial", <<>>, <<"own">>, FALSE)

PipelineAnswers ==
    [s \in Stages |->
       CASE s = "deep"     -> {Finds("other"), Salvageable, Prose}
         [] s = "network"  -> {Clean, Finds("network")}
         [] s = "native"   -> {Crowded}
         [] s = "recovery" -> {Clean, Decoded}
         [] OTHER          -> {Clean}]

\* Every stage answers with what it found.
PlainAnswers ==
    [s \in Stages |-> IF s \in {"native", "deep"} THEN {Finds("other")} ELSE {Clean}]

\* The deep model adds a limitation of its own.
LimitedAnswers == [s \in Stages |-> IF s = "deep" THEN {Clean, Limited} ELSE {Clean}]

NoObjection == [rejected |-> {}, qualified |-> {}]
Objections  == {NoObjection, [rejected |-> {<<"deep", 1>>}, qualified |-> {<<"network", 1>>}],
                Silent}
NoObjections == {NoObjection}
=============================================================================
