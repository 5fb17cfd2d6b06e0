---------------------------- MODULE MCEvidencePlane ----------------------------
(* One operator, a few directories, and rivals in the ledger.  The texts of
   qa-gate.md are built from criteria, under headers and indentations that the scan takes
   in different ways; all but one are only validated, in a directory whose scoper.md is
   missing. *)
EXTENDS EvidencePlane

I(form, v, w) == [k |-> "item", ind |-> 6, form |-> form, v |-> v, w |-> w]
Items == {I("double", "manual", "seen"), I("single", "shell", ""), I("bare", "", "tests/a.py"),
          I("bare", "", ""), I("double", "tests/a.py", "test_x"), I("double", "tests/b.py", "test_x"),
          I("single", "tests", "x"), L("text", 6, "")}
Crit == L("crit", 2, "")
Cov == L("cov", 4, "")
OneCriterion ==
    {<<Crit>>, <<Crit, Cov>>, <<Crit, Cov, L("text", 4, "")>>}
    \cup {<<Crit, Cov, i>> : i \in Items}
    \cup {<<Crit, Cov, L("blank", 0, ""), I("bare", "", "tests/a.py"), i>> : i \in Items}
    \cup {<<Crit, i>> : i \in Items}
Opening(title) == <<L(title, 0, ""), L("handoff_id", 0, ""), L("verdict", 0, "PASS"), L("ac", 0, "")>>
Closing == <<L("regression_checked", 0, ""), L("end", 0, "")>>
Good == <<Crit, Cov, I("double", "tests/a.py", "test_x")>>
Odd == {Good, <<Crit>>, <<Crit, Cov>>}
Deeper(a) == [i \in DOMAIN a |-> [a[i] EXCEPT !.ind = @ + 2]]
Texts ==
    {Opening("start") \o a \o Closing : a \in OneCriterion}
    \cup {Opening("start") \o a \o b \o Closing : a \in OneCriterion, b \in {Good, <<Crit>>, <<Crit, Cov>>}}
    \cup {Opening("start") \o a \o <<L("text", 0, "")>> \o Good \o Closing : a \in {Good, <<Crit, Cov>>}}
    \cup {SubSeq(Opening("start") \o Good \o Closing, 1, n) : n \in 1 .. 9}
    \cup {Closing \o Opening("start") \o Good}
    \cup {<<L("titled", 0, "")>> \o Opening("start") \o a \o Closing : a \in OneCriterion}
    \cup {Opening("titled") \o a \o Closing : a \in Odd}
    \cup {Opening("start") \o Good \o <<L("ac", 0, "")>> \o a \o Closing : a \in Odd}
    \cup {Opening("start") \o Good \o Deeper(a) \o Closing : a \in Odd}
GoodText == Opening("start") \o Good \o Closing
FailText == [GoodText EXCEPT ![3] = L("verdict", 0, "FAIL")]
TokenOnly == <<L("start", 0, "")>>
NoToken == <<L("text", 0, "")>>
MCTests == {"tests/a.py"}
MCPaths == {"tests/a.py", "tests/b.py"}

Smoke ==
    [json |-> "object", schema |-> "1", handoff |-> "h1", task |-> "t1", environment |-> "dev",
     branch |-> "main", verdict |-> "ok", checked |-> "now", url |-> "https", head |-> "c1",
     refs |-> "list", reason |-> "", sha |-> "c1", build |-> "", expected |-> ""]
Smokes ==
    {Smoke, [Smoke EXCEPT !.sha = "c0"], [Smoke EXCEPT !.sha = ""], [Smoke EXCEPT !.json = "none"],
     [Smoke EXCEPT !.sha = "c0", !.build = "7", !.expected = "7"],
     [Smoke EXCEPT !.sha = "", !.build = "7"],
     [Smoke EXCEPT !.verdict = NotProof], [Smoke EXCEPT !.reason = NotProof],
     [Smoke EXCEPT !.url = ""], [Smoke EXCEPT !.task = "t2"]}
Told == [json |-> "object", handoff |-> "h1", stage |-> TRUE, task |-> "t1", status |-> "exit code"]
Telemetries ==
    {<<[Told EXCEPT !.json = "none"]>>, <<Told, [Told EXCEPT !.status = "none"]>>,
     <<[Told EXCEPT !.task = ""]>>, <<[Told EXCEPT !.status = "text"]>>, <<[Told EXCEPT !.handoff = "h2"]>>}
Saved == [ph \in CheckpointPhases |->
            [json |-> "object", schema |-> "1", phase |-> ph, task |-> "t1", handoff |-> "h1",
             version |-> 1]]
Proof == [telemetry |-> <<>>, health |-> [json |-> "object", schema |-> "1", status |-> "ok"],
          plan |-> {"t1"}, checkpoints |-> Saved, smoke |-> Smoke]
Built == [Proof EXCEPT !.smoke.sha = "", !.smoke.build = "7", !.smoke.expected = "7",
                       !.telemetry = <<Told>>]
Proofs ==
    {Proof}
    \cup {[Proof EXCEPT !.smoke = s] : s \in Smokes} \cup {[Proof EXCEPT !.telemetry = t] : t \in Telemetries}
    \cup {[Proof EXCEPT !.health.status = "failed"], [Proof EXCEPT !.plan = {}],
          [Proof EXCEPT !.checkpoints["qa-gate"].version = 0]}
Files == [f \in File |-> IF f = "qa-gate" THEN GoodText ELSE TokenOnly]
MCDirs ==
    {[packets |-> Files, proof |-> p] : p \in Proofs}
    \cup {[packets |-> [Files EXCEPT !["scoper"] = <<>>], proof |-> Built]}
    \cup {[packets |-> [Files EXCEPT !["implementer"] = <<>>, !["release-status"] = NoToken], proof |-> Proof]}
    \cup {[packets |-> [Files EXCEPT !["scoper"] = <<>>, !["qa-gate"] = t], proof |-> Proof] :
            t \in Texts \cup {FailText}}
MCRewrites ==
    [f \in File |-> CASE f = "qa-gate" -> {FailText} [] f = "implementer" -> {<<>>} [] OTHER -> {}]
NoRewrites == [f \in File |-> {}]

MCLabels == {<<"", "">>, <<"failed", "">>}
Blocks == [b \in Lists \cup Objects |-> IF b = "pull_request" THEN "loose" ELSE "absent"]
Base(run, handoff, created, updated) ==
    [run |-> run, handoff |-> handoff, status |-> "done", created |-> created, updated |-> updated,
     refs |-> {}, marker |-> FALSE, blocks |-> Blocks]
MCRivals == {Base(2, "h1", 2, 2), Base(4, "h1", 3, 3)}
MCBases == MCRivals \cup
    {Base(2, "h1", 1, 0), [Base(3, "h1", 2, 0) EXCEPT !.marker = TRUE],
     [Base(3, "h1", 2, 0) EXCEPT !.blocks["commits"] = "bad"]}

\* The ledger of two handoffs, for the run that refutes.
WindowRivals == {Base(1, "h2", 1, 1), Base(4, "h1", 3, 3)}
WindowBases == WindowRivals \cup {Base(2, "h1", 1, 1)}
WindowDirs == {[packets |-> Files, proof |-> Proof]}
WindowLabels == {<<"", "">>}
=============================================================================
