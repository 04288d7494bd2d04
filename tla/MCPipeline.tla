---------------------------- MODULE MCPipeline -----------------------------
(* One run of one package's tests, in each form.                           *)
EXTENDS Pipeline

AllModes == {"go test", "prebuilt", "gotestmain"}
GoTestOnly == {"go test"}

Warning == <<"testing: warning: ", "no tests to run">>
NoTestFiles == <<skipLinePrefix, skipLineSuffix, NL>>

\* The warning at the start, later, and not at the start of a line; coverage
\* on a short line, on one that is too long, and after an empty one. The line
\* of a package without test files, printed by the binary, by a test, or after
\* a test's report.
Outputs == {
    Warning \o <<NL, "x">>,
    <<"x", NL>> \o Warning \o <<NL>>,
    <<"x">> \o Warning \o <<NL>>,
    <<coveragePrefix, "x", NL, coveragePrefix, NL>>,
    <<coveragePrefix, NL, coveragePrefix, "x", NL>>,
    <<"x", coveragePrefix, "x", NL, coveragePrefix, "x", NL>>,
    NoTestFiles,
    <<marker, "=== RUN", NL>> \o NoTestFiles,
    <<"--- PASS: ", NL>> \o NoTestFiles,
    NoTestFiles \o <<"PASS", NL>> }

Plain == { <<"x", "x", "x">> }
============================================================================
