------------------------------ MODULE MCProbes ------------------------------
(***************************************************************************)
(* The measurements: the context compiler and the probe over it, the       *)
(* acceptance gate, and what the held-out study makes of a prompt and an   *)
(* answer.  They share no state; part says which one moves.                *)
(***************************************************************************)
EXTENDS ContextProbes, AcceptanceGate, HeldoutDiff, ChangeSet, HeldoutSufficiency

VARIABLE part

measuringVars == <<part, vars, probesVars, gateVars, diffVars, csVars, sufVars>>

-----------------------------------------------------------------------------
(* The compiler: up to three documents over three paths, of sizes that fit *)
(* beside others, fit only without the header, and do not fit at all.      *)
MCDocuments ==
  [path : {1, 2, 3}, score : {0, 1}, bytes : {24, 41, 100}, blank : {FALSE}]
    \cup [path : {1, 2, 3}, score : {0, 1}, bytes : {24}, blank : {TRUE}]

MCInputs == UNION {[1..n -> MCDocuments] : n \in 0..3}
MCPinSets == {{}, {2}}

(* The probe: for each size, filler as short and as long as seeds make it. *)
MCFillerLines ==
  [s \in {2000, 8000, 32000} |->
     CASE s = 2000 -> {90, 131, 150} [] s = 8000 -> {400, 555} [] s = 32000 -> {1700, 2220}]

MCCorpora ==
  [documents : {20}, lines : {3, 8, 40}, room : {0, 9, 30}]
    \cup [documents : 1..24, lines : {8}, room : {30}]

-----------------------------------------------------------------------------
(* The gate: deliverables that depart from a good one in one respect or in *)
(* a few that belong together.                                             *)
MCNotes == [i \in 1..3 |-> [heading |-> <<"Worst case", "Falsification", "Limitations">>[i],
                            body |-> "evidence"]]

MCGood ==
  [entry |-> "callable", cost |-> <<1, 2, 3, 4, 5>>, throws |-> 9, script |-> "declared",
   passes |-> TRUE, target |-> TRUE, catches |-> Kinds, real |-> Kinds, rewrites |-> FALSE,
   notes |-> MCNotes]

MCCosts ==
  {<<-3, -3, -2, -1, 0>>, <<1, 2, 3, 4, 5>>, <<-2, -1, 0, 1, 2>>, <<0, 2, 4, 6, 8>>,
   <<0, 5, 10, 15, 20>>, <<0, 0, 0, 2, 4>>, <<1, 1, 1, 2, 3>>, <<1, 2, 3, 4, 6>>, <<2, 3, 4, 6, 8>>}

MCDeliverables ==
  {[MCGood EXCEPT !.cost = c, !.throws = t] : c \in MCCosts, t \in {4, 9}}
    \cup {[MCGood EXCEPT !.entry = e, !.script = s, !.passes = p, !.target = t] :
            e \in {"callable", "missing", "import_throws"},
            s \in {"declared", "missing", "unparsable"}, p, t \in BOOLEAN}
    \cup {[MCGood EXCEPT !.catches = c, !.real = r, !.rewrites = w] :
            c, r \in SUBSET Kinds, w \in BOOLEAN}
    \cup {[MCGood EXCEPT !.notes = n] :
            n \in {<<>>, <<MCNotes[1]>>, Append(MCNotes, [MCNotes[2] EXCEPT !.body = "thin"]),
                   <<[MCNotes[1] EXCEPT !.body = "empty"]>>}}

MCControl == [MCGood EXCEPT !.cost = <<0, 6, 12, 18, 24>>]

-----------------------------------------------------------------------------
(* A workspace with a file and, linked or not, what other attempts share;  *)
(* links to what is not there, in the workspace, outside and in no place.  *)
MCWorkspace == <<"ws">>
MCNames == {"ws", "src", "a", "b", "z", "nm", "ln", "new", "lib", "shared", "ghost", "gone"}
MCPermissions ==
  {{}, {<<"src", "a">>},
   {<<"src", "a">>, <<"src", "new", "b">>, <<"nm", "lib">>, <<"nm", "new">>, <<"ln", "a">>,
    <<"src">>, <<"src", "a", "b">>, <<"src", "z">>}}

MCEntry(form, names, contents) == [form |-> form, names |-> names, contents |-> contents]
MCEntries ==
  {MCEntry("relative", names, "new") :
     names \in {<<"src", "a">>, <<"src", ".", "x", "..", "a">>, <<"..", "src", "a">>,
                <<"src", "new", "b">>, <<"nm", "lib">>, <<"nm", "new">>, <<"ln", "a">>,
                <<"src">>, <<".">>, <<"src", "a", "b">>, <<"src", "z">>}}
    \cup {MCEntry("relative", <<"src", "a">>, "other")}
    \cup {MCEntry(form, <<"src", "a">>, "new") : form \in {"absolute", "foreign", "malformed"}}

MCReplies ==
  [status : {"completed"}, shape : {"files"}, entries : UNION {[1..n -> MCEntries] : n \in 0..2}]
    \cup [status : {"incomplete", "failed"}, shape : {"files"},
          entries : {<<MCEntry("relative", <<"src", "a">>, "new")>>}]
    \cup [status : {"completed"}, entries : {<<>>},
          shape : {"no_output_text", "output_too_large", "not_json", "no_files_array"}]

MCTree == [p \in {<<"ws">>, <<"ws", "src">>, <<"ws", "src", "a">>, <<"shared">>, <<"shared", "lib">>} |->
             IF Last(p) \in {"a", "lib"} THEN "old" ELSE "dir"]
MCTrees == {MCTree}

MCNoLinks == [p \in {} |-> <<>>]
MCLinkSets ==
  {MCNoLinks, [p \in {<<"ws", "nm">>} |-> <<"shared">>],
   [p \in {<<"ws", "nm">>, <<"ws", "ln">>} |->
      IF Last(p) = "nm" THEN <<"shared">> ELSE <<"ws", "src">>],
   [p \in {<<"ws", "src", "z">>} |-> <<"shared", "lib">>],
   [p \in {<<"ws", "src", "z">>} |-> <<"shared", "ghost">>],
   [p \in {<<"ws", "src", "z">>} |-> <<"gone", "ghost">>],
   [p \in {<<"ws", "nm">>} |-> <<"ws", "src", "new">>]}

-----------------------------------------------------------------------------
(* Sufficiency: files with and without a line to probe, with a placeholder *)
(* or another file's markers in them; issues and packets that quote them.  *)
MCFile(path, lines) == [path |-> path, lines |-> lines]

MCSources ==
  {<<>>, <<MCFile("a", <<"f1", "}", "f2">>)>>, <<MCFile("a", <<"{{ASSISTANCE}}", "f1">>)>>,
   <<MCFile("a", <<"g1", "g2", "g3", "g4", "g5", "g6", "g7">>)>>,
   <<MCFile("a", <<"f1">>), MCFile("b", <<"}">>)>>,
   <<MCFile("a", <<"f1", Closer("b")>>), MCFile("b", <<"f2", Opener("a")>>)>>}

MCIssues == {<<>>, <<"g2", "g3", "g4", "g5", "g6">>, <<"f1">>, <<Opener("a")>>, <<"{{SOURCE}}">>}

MCTasks == [issue : MCIssues, sources : MCSources, missing : {{}, {"a"}},
            assistance : {[T1 |-> <<"f1", "f2">>]}]
MCFirst == [issue |-> <<>>, sources |-> <<MCFile("a", <<"f1", "}", "f2">>)>>, missing |-> {},
            assistance |-> [T1 |-> <<"{{SOURCE}}">>]]
MCTaskCorpora == {<<>>} \cup {<<t>> : t \in MCTasks} \cup {<<MCFirst, t>> : t \in MCTasks}

MCProtocols ==
  [template : {<<"{{ISSUE}}", "{{SOURCE}}", "{{ASSISTANCE}}">>, <<"{{ISSUE}}", "{{ASSISTANCE}}">>,
               <<"{{SOURCE}}", "{{ISSUE}}", "{{SOURCE}}">>},
   claims : {{}, {"tools"}, {"filesystem"}}, tools : BOOLEAN, store : {FALSE},
   cap : {20, 100}, headroom : {0, 10}]

MCTextLines == STRING
MCSubstantial == {"f1", "f2", "g1", "g2", "g3", "g4", "g5", "g6", "g7", "{{ASSISTANCE}}",
                  "{{SOURCE}}", Opener("a"), Closer("b")}

-----------------------------------------------------------------------------
(* A part that does not move.                                              *)
CompileOff ==
  /\ phase = "compiled" /\ documents = <<>> /\ available = 0 /\ pinned = {} /\ ranked = <<>>
  /\ next = 1 /\ seen = {} /\ used = 0 /\ cutoffRank = 0 /\ included = <<>> /\ excluded = <<>>
  /\ rendered = 0 /\ result = [layout |-> <<>>, total_tokens |-> 0]

ProbesOff ==
  /\ step = "controls" /\ shapes = <<>> /\ exit = 0
  /\ filler = [s \in ProbeSizes |-> [lines |-> 90, decoys |-> TRUE]]
  /\ subject = [behaviour |-> "perfect", shape |-> "unknown"]
  /\ reaches = [policy \in Policies |-> {}]

DiffOff == base = <<>> /\ returned = <<>> /\ editCap = 2 /\ script = NoScript

CSOff ==
  /\ reply = MCEntry("malformed", <<>>, "new") /\ permitted = {} /\ links = MCNoLinks
  /\ tree0 = MCTree /\ tree = tree0 /\ verdict = Unread /\ writing = 0

SufOff ==
  /\ corpus = <<>> /\ filter = "" /\ measured = 0 /\ completeness = {} /\ caps = {}
  /\ protocol = [template |-> <<>>, claims |-> {}, tools |-> FALSE, store |-> FALSE,
                 cap |-> 0, headroom |-> 0]
  /\ missing = {} /\ sufExit = -1 /\ dryRun = {}

MCInit ==
  /\ part \in {"compiler", "probe", "gate", "diff", "changes", "sufficiency"}
  /\ IF part = "compiler" THEN Init ELSE CompileOff
  /\ IF part = "probe" THEN ProbesInit ELSE ProbesOff
  /\ GateInit
  /\ IF part = "diff" THEN DiffInit ELSE DiffOff
  /\ IF part = "changes" THEN CSInit ELSE CSOff
  /\ IF part = "sufficiency" THEN SufInit ELSE SufOff

MCNext ==
  /\ UNCHANGED part
  /\ \/ /\ part = "compiler" /\ Next
        /\ UNCHANGED <<probesVars, gateVars, diffVars, csVars, sufVars>>
     \/ /\ part = "probe" /\ ProbesNext
        /\ UNCHANGED <<vars, gateVars, diffVars, csVars, sufVars>>
     \/ /\ part = "gate" /\ GateNext
        /\ UNCHANGED <<vars, probesVars, diffVars, csVars, sufVars>>
     \/ /\ part = "diff" /\ DiffReturnedFile
        /\ UNCHANGED <<vars, probesVars, gateVars, csVars, sufVars>>
     \/ /\ part = "changes" /\ CSNext
        /\ UNCHANGED <<vars, probesVars, gateVars, diffVars, sufVars>>
     \/ /\ part = "sufficiency" /\ SufNext
        /\ UNCHANGED <<vars, probesVars, gateVars, diffVars, csVars>>

MCSpec == MCInit /\ [][MCNext]_measuringVars
=============================================================================
