----------------------------- MODULE StudyFreeze -----------------------------
(***************************************************************************)
(* The freezes of the studies: a script hashes the files an experiment     *)
(* depends on into one identity document, and later the same script, or    *)
(* the program, tells whether document and files are still those.  There   *)
(* are four, of one pattern; they differ in what their aggregate covers,   *)
(* whether a verification rebuilds it from the files, and whether the      *)
(* document carries a digest of itself.                                    *)
(*                                                                         *)
(* Files are read one at a time while an editor works on the same tree.    *)
(* The scripts read in different fixed orders; the model allows any order. *)
(* A hash is the value hashed.  The runner of Stage A is the user of the   *)
(* held-out freeze: it verifies once and reads its inputs again later.     *)
(***************************************************************************)
EXTENDS Naturals

CONSTANTS
  Kinds,       \* the kinds of freeze explored
  Listed,      \* files the scripts list by name: sources, evidence
  Tree,        \* names under the study's directory, found by walking it
  Corpus,      \* the file whose contents are copied into the document
  Report,      \* the file hashed a second time, outside the aggregate
  Versions,    \* contents a file, the script's constants or a field may have
  NoDoc,       \* no identity document
  MaxEdits,    \* bound: edits of files, constants and document
  MaxScripts   \* bound: runs of the scripts

Files == Listed \cup Tree

\* The fields of a document, as far as freezes differ in covering them: the
\* artifacts' hashes, what was copied from another file, what comes from the
\* script's own constants, and a file hashed once more with the plan and claims.
Fields == {"artifacts", "corpus", "settings", "plan"}

HeldoutFreeze == [covers |-> {"artifacts", "corpus", "settings"}, rebuilt |-> TRUE, sealed |-> TRUE]
GateMV1Freeze == [covers |-> Fields, rebuilt |-> FALSE, sealed |-> FALSE]
GateMV2Freeze == [covers |-> {"artifacts", "corpus", "settings"}, rebuilt |-> TRUE, sealed |-> FALSE]
GateMV3Freeze == [covers |-> {"artifacts", "settings"}, rebuilt |-> TRUE, sealed |-> FALSE]

ASSUME StudyAssumption == /\ Kinds \subseteq {HeldoutFreeze, GateMV1Freeze, GateMV2Freeze, GateMV3Freeze}
                          /\ Corpus \in Tree /\ Report \in Tree
                          /\ "absent" \notin Versions
                          /\ MaxEdits \in Nat /\ MaxScripts \in Nat

VARIABLES
  kind,     \* the kind of freeze in this repository
  disk,     \* the files: a version, or Absent
  settings, \* the constants in the script's own text (model, prompts, tasks)
  doc,      \* freeze/identity.json, or NoDoc
  script,   \* the running script: operation, step, what it has read
  uses,     \* inputs the runner has read: file, version, document
  signed,   \* history: the body its aggregate or digest was last computed over
  marred,   \* history: the document was edited since, its digest left on it
  touched,  \* history: what was edited since the script began
  edits, scripts

studyVars == <<kind, disk, settings, doc, script, uses, signed, marred, touched,
               edits, scripts>>

Absent == "absent"

(***************************************************************************)
(* A document: its body, the aggregate over a part of it, and for the      *)
(* held-out freeze the digest of all of it: a set of at most one value.    *)
(***************************************************************************)
Aggregate(k, body) == [f \in k.covers |-> body[f]]

Unsealed == {}
Digest(d) == {<<d.body, d.aggregate>>}

Document(k, body) ==
  LET plain == [body |-> body, aggregate |-> Aggregate(k, body), digest |-> Unsealed]
  IN  IF k.sealed THEN [plain EXCEPT !.digest = Digest(plain)] ELSE plain

Present == {f \in Files : disk[f] # Absent}

\* What the scripts read of the disk: every artifact, and two files once more.
Reads == [file : Present \cup Listed, as : {"artifact"}]
           \cup {[file |-> Corpus, as |-> "corpus"], [file |-> Report, as |-> "plan"]}

\* The body a script writes after its reads.
Body(reads, consts) ==
  [artifacts |-> [f \in {r.file : r \in {q \in DOMAIN reads : q.as = "artifact"}} |->
                    reads[[file |-> f, as |-> "artifact"]]],
   corpus |-> reads[[file |-> Corpus, as |-> "corpus"]],
   settings |-> consts,
   plan |-> reads[[file |-> Report, as |-> "plan"]]]

(***************************************************************************)
(* The script.  Every script begins by hashing the tree, whatever it was   *)
(* called for; the check of a v1 freeze is not a script and does not.      *)
(***************************************************************************)
NoReads == [r \in {} |-> Absent]
Idle == [op |-> "none", pc |-> "idle", consts |-> settings, todo |-> {}, reads |-> NoReads,
         existing |-> NoDoc, bad |-> {}, exit |-> 0]

Start(op) ==
  /\ script.pc \in {"idle", "ended"} /\ scripts < MaxScripts
  /\ op \in {"seal", "run"} => kind.sealed
  /\ scripts' = scripts + 1
  /\ touched' = {}
  /\ uses' = {}
  /\ script' = IF op = "verify" /\ ~kind.rebuilt
               THEN [Idle EXCEPT !.op = op, !.pc = "load"]
               ELSE [Idle EXCEPT !.op = op, !.pc = "hash", !.todo = Reads]
  /\ UNCHANGED <<kind, disk, settings, doc, signed, marred, edits>>

\* A file that is gone when its turn comes makes readFile throw: exit 1.
HashOne ==
  /\ script.pc = "hash"
  /\ \E r \in script.todo :
       script' = IF disk[r.file] = Absent
                 THEN [script EXCEPT !.pc = "ended", !.exit = 1]
                 ELSE [script EXCEPT !.todo = @ \ {r},
                         !.reads = [q \in DOMAIN @ \cup {r} |->
                                      IF q = r THEN disk[r.file] ELSE @[q]]]
  /\ UNCHANGED <<kind, disk, settings, doc, uses, signed, marred, touched, edits, scripts>>

WriteFreeze ==
  /\ script.pc = "hash" /\ script.todo = {} /\ script.op = "freeze"
  /\ doc' = Document(kind, Body(script.reads, script.consts))
  /\ signed' = Body(script.reads, script.consts)
  /\ marred' = FALSE
  /\ script' = [script EXCEPT !.pc = "ended"]
  /\ UNCHANGED <<kind, disk, settings, uses, touched, edits, scripts>>

\* Reading a document that is not there throws, too.
LoadDocument ==
  /\ \/ script.pc = "hash" /\ script.todo = {} /\ script.op # "freeze"
     \/ script.pc = "load"
  /\ script' = IF doc = NoDoc THEN [script EXCEPT !.pc = "ended", !.exit = 1]
               ELSE [script EXCEPT !.pc = IF script.op = "seal" THEN "seal" ELSE "verify",
                       !.existing = doc,
                       !.todo = IF script.op = "seal" THEN {} ELSE DOMAIN doc.body.artifacts]
  /\ UNCHANGED <<kind, disk, settings, doc, uses, signed, marred, touched, edits, scripts>>

\* Seeded fault: a digest that does not match is replaced like a missing one.
MayBeSealedAnyway(existing) == existing.digest # Digest(existing)
\* --seal gives a digest to a document without one, and to no other.
MayBeSealed(existing) == existing.digest = Unsealed

Seal ==
  LET old == script.existing IN
  /\ script.pc = "seal"
  /\ IF MayBeSealed(old)
     THEN doc' = [old EXCEPT !.digest = Digest(old)]
     ELSE UNCHANGED doc
  /\ IF old.digest = Unsealed
     THEN signed' = old.body /\ marred' = FALSE
     ELSE UNCHANGED <<signed, marred>>
  /\ script' = [script EXCEPT !.pc = "ended",
                  !.exit = IF old.digest \in {Unsealed, Digest(old)} THEN 0 ELSE 1]
  /\ UNCHANGED <<kind, disk, settings, uses, touched, edits, scripts>>

\* One artifact of the document against the disk; the v1 check throws at once.
CheckOne ==
  /\ script.pc = "verify" /\ script.todo # {}
  /\ LET f == CHOOSE g \in script.todo : TRUE IN
       script' = IF disk[f] = script.existing.body.artifacts[f]
                 THEN [script EXCEPT !.todo = @ \ {f}]
                 ELSE IF ~kind.rebuilt THEN [script EXCEPT !.pc = "ended", !.exit = 1]
                 ELSE [script EXCEPT !.todo = @ \ {f}, !.bad = @ \cup {f}]
  /\ UNCHANGED <<kind, disk, settings, doc, uses, signed, marred, touched, edits, scripts>>

\* v1: the aggregate is computed from the document it is in.
VerifiesV1(k, s) == s.bad = {} /\ s.existing.aggregate = Aggregate(k, s.existing.body)

\* v2, v3: it is computed from the files as the script has just read them.
VerifiesRebuilt(k, s) == s.bad = {} /\ s.existing.aggregate = Aggregate(k, Body(s.reads, s.consts))

\* Seeded fault: "aggregate=match" alone is taken for an intact freeze.
VerifiesAggregateOnly(k, s) == VerifiesRebuilt(k, s)
\* Seeded fault: the aggregate is computed from the document, not the files.
VerifiesDocumentOnly(k, s) == VerifiesV1(k, s) /\ s.existing.digest = Digest(s.existing)
\* The held-out document must match its own digest as well.
VerifiesHeldout(k, s) == VerifiesRebuilt(k, s) /\ s.existing.digest = Digest(s.existing)

FreezeVerifies(k, s) ==
  IF k.sealed THEN VerifiesHeldout(k, s)
  ELSE IF k.rebuilt THEN VerifiesRebuilt(k, s) ELSE VerifiesV1(k, s)

Verify ==
  /\ script.pc = "verify" /\ script.todo = {}
  /\ script' = IF FreezeVerifies(kind, script)
               THEN [script EXCEPT !.pc = IF script.op = "run" THEN "open" ELSE "ended"]
               ELSE [script EXCEPT !.pc = "ended", !.exit = 1]
  /\ UNCHANGED <<kind, disk, settings, doc, uses, signed, marred, touched, edits, scripts>>

-----------------------------------------------------------------------------
(* The runner of Stage A: a verification that exits with 0, the document   *)
(* once more, and for each attempt the issue and the packet as they are.   *)
OpenRun ==
  /\ script.pc = "open"
  /\ script' = [script EXCEPT !.pc = "attempt", !.existing = doc]
  /\ UNCHANGED <<kind, disk, settings, doc, uses, signed, marred, touched, edits, scripts>>

ReadInput ==
  /\ script.pc = "attempt"
  /\ \E f \in Tree :
       IF disk[f] = Absent
       THEN script' = [script EXCEPT !.pc = "ended", !.exit = 1] /\ UNCHANGED uses
       ELSE uses' = uses \cup {[file |-> f, version |-> disk[f]]} /\ UNCHANGED script
  /\ UNCHANGED <<kind, disk, settings, doc, signed, marred, touched, edits, scripts>>

EndRun ==
  /\ script.pc = "attempt"
  /\ script' = [script EXCEPT !.pc = "ended"]
  /\ UNCHANGED <<kind, disk, settings, doc, uses, signed, marred, touched, edits, scripts>>

-----------------------------------------------------------------------------
(* The editor: a person, a checkout, another script.                       *)
Edit(what) ==
  /\ edits < MaxEdits
  /\ edits' = edits + 1
  /\ touched' = touched \cup {what}
  /\ UNCHANGED <<kind, script, uses, scripts>>

EditFile ==
  /\ \E f \in Files, v \in Versions \cup {Absent} :
       /\ v # disk[f]
       /\ Edit(f)
       /\ disk' = [disk EXCEPT ![f] = v]
  /\ UNCHANGED <<settings, doc, signed, marred>>

EditScript ==
  /\ Edit("settings")
  /\ settings' \in Versions \ {settings}
  /\ UNCHANGED <<disk, doc, signed, marred>>

\* A field of the document; its seal is left on it, or redone as far as an
\* editor can: the digest taken off, the aggregate of v1 computed again.
EditDocument(redo) ==
  /\ doc # NoDoc
  /\ Edit("document")
  /\ \E field \in {"settings", "plan"}, v \in Versions :
       LET body == [doc.body EXCEPT ![field] = v] IN
       /\ body # doc.body
       /\ doc' = [body |-> body,
                  aggregate |-> IF redo /\ ~kind.rebuilt THEN Aggregate(kind, body) ELSE doc.aggregate,
                  digest |-> IF redo THEN Unsealed ELSE doc.digest]
  /\ marred' = (~redo /\ (marred \/ doc.digest # Unsealed \/ ~kind.rebuilt))
  /\ signed' = IF redo THEN doc'.body ELSE signed
  /\ UNCHANGED <<disk, settings>>

StudyNext ==
  \/ \E op \in {"freeze", "seal", "verify", "run"} : Start(op)
  \/ HashOne \/ WriteFreeze \/ LoadDocument \/ Seal \/ CheckOne \/ Verify
  \/ OpenRun \/ ReadInput \/ EndRun
  \/ EditFile \/ EditScript
  \/ \E redo \in BOOLEAN : EditDocument(redo)

\* A tree before its first freeze, or with a freeze from before documents were
\* sealed: the scripts' files are there, one of the tree's may be still to come.
StudyInit ==
  /\ kind \in Kinds
  /\ \E v \in Versions, more \in SUBSET (Tree \ {Corpus, Report}) :
       /\ disk = [f \in Files |-> IF f \in Listed \cup {Corpus, Report} \cup more THEN v ELSE Absent]
       /\ settings = v
       /\ LET body == [artifacts |-> [f \in Present |-> v], corpus |-> v,
                       settings |-> v, plan |-> v]
          IN  /\ signed = body
              /\ doc \in {NoDoc, [Document(kind, body) EXCEPT !.digest = Unsealed]}
  /\ script = Idle
  /\ uses = {} /\ touched = {} /\ marred = FALSE /\ edits = 0 /\ scripts = 0

StudySpec == StudyInit /\ [][StudyNext]_studyVars

-----------------------------------------------------------------------------
(***************************************************************************)
(* A verdict given while nobody edited anything is true both ways.  Exit 0:*)
(* every artifact of the document is on the disk as it was hashed; nothing *)
(* was added or removed and no constant changed (not told by v1, whose     *)
(* aggregate is rebuilt from the document); no field was edited under its  *)
(* seal (not told by v2 and v3, which have none over the document).  Exit  *)
(* 1: something differs, a document that a script wrote over files that    *)
(* did not change under it is never refused.                               *)
(***************************************************************************)
VerdictIsTrue ==
  script.pc = "ended" /\ script.op = "verify" /\ touched = {} =>
    LET frozen == doc.body.artifacts
        now == [artifacts |-> [f \in Present |-> disk[f]], corpus |-> disk[Corpus],
                settings |-> settings, plan |-> disk[Report]]
    IN IF script.exit = 0
       THEN /\ doc # NoDoc
            /\ \A f \in DOMAIN frozen : disk[f] = frozen[f]
            /\ kind.rebuilt => doc.aggregate = Aggregate(kind, now)
            /\ (kind.sealed \/ ~kind.rebuilt) /\ marred => doc.body = signed
       ELSE ~ /\ doc # NoDoc
              /\ doc = Document(kind, now)

(***************************************************************************)
(* What Stage A's attempts read is what the freeze it verified holds,      *)
(* unless the file or the document was edited after the verification had   *)
(* begun: nothing checks the inputs again when they are used, so the       *)
(* promise of run-stage-a.mjs:17 holds for a tree that is left alone.      *)
(***************************************************************************)
AttemptsOnFrozen ==
  \A u \in uses :
    \/ u.file \in touched \/ "document" \in touched
    \/ /\ u.file \in DOMAIN script.existing.aggregate.artifacts
       /\ u.version = script.existing.aggregate.artifacts[u.file]
=============================================================================
