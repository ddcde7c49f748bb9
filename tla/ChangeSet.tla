------------------------------ MODULE ChangeSet ------------------------------
(***************************************************************************)
(* From a model's reply to files in the attempt's workspace:               *)
(* validateChangeSet and assertContainedTarget in                          *)
(* src/src/heldout/changeset.ts, and the loop of                           *)
(* scripts/gate-h-heldout/v2/run-stage-a.mjs that writes the files.        *)
(*                                                                         *)
(* A path is a sequence of names.  The tree maps the real paths to "dir"   *)
(* or to a file's contents, and a link's path to the real path it names.   *)
(***************************************************************************)
EXTENDS Integers, Sequences, SequencesExt

CONSTANTS
  Names,       \* the names paths are made of
  Replies,     \* what the provider may reply: [status, shape, entries]
  Permissions, \* what a task may permit: sets of normalized relative paths
  Trees,       \* the trees a workspace may be in: path -> "dir" or contents
  LinkSets,    \* the links in it: path -> the real path it names
  Workspace    \* the workspace's real path

\* The tree has the parents of what is in it.
HasParent(t, p) == p \in Seq(Names) \ {<<>>} /\ (Len(p) = 1 \/ Front(p) \in DOMAIN t)

ASSUME RepliesAssumption ==
  /\ \A s \in Permissions : \A q \in s : q \in Seq(Names)
  /\ \A a \in Replies :
       /\ a.entries \in Seq(ToSet(a.entries))
       /\ \A e \in ToSet(a.entries) :
            e.form \in {"relative", "absolute", "foreign", "malformed", "empty"}
ASSUME TreesAssumption ==
  \A t \in Trees : Workspace \in DOMAIN t /\ \A p \in DOMAIN t : HasParent(t, p)
\* A link is beside the tree's entries; what it names may not be there.
ASSUME LinksAssumption ==
  \A t \in Trees, l \in LinkSets :
    \A p \in DOMAIN l : /\ p \notin DOMAIN t /\ HasParent(t, p)
                        /\ l[p] \in Seq(Names) \ {<<>>} /\ l[p] \notin DOMAIN l

VARIABLES
  reply, permitted, links,
  tree0, tree, \* the tree before the attempt, and now
  verdict,     \* validateChangeSet's: [ok, reason, files]
  writing      \* the file to write next, or 0 when nothing is left to do

csVars == <<reply, permitted, links, tree0, tree, verdict, writing>>

-----------------------------------------------------------------------------
\* path.normalize on a relative path's names.
NormalizeName(names, name) ==
  IF name = "." THEN names
  ELSE IF name = ".." /\ names # <<>> /\ Last(names) # ".." THEN Front(names)
  ELSE Append(names, name)

Normalize(names) == FoldLeft(NormalizeName, <<>>, names)

Rejected(reason) == [ok |-> FALSE, reason |-> reason, files |-> <<>>]

\* The reason to refuse entry i, or "" when it joins the files before it.
EntryFault(entries, i) ==
  LET path(j) == Normalize(entries[j].names)
  IN  CASE entries[i].form \in {"malformed", "empty"} -> "invalid_file_entry"
        [] entries[i].form \in {"absolute", "foreign"} -> "path_escapes_workspace"
        [] path(i) # <<>> /\ Head(path(i)) = ".." -> "path_escapes_workspace"
        [] path(i) \notin permitted -> "path_not_permitted"
        [] \E j \in 1..(i - 1) : path(j) = path(i) -> "duplicate_path"
        [] OTHER -> ""

EntriesVerdict(entries) ==
  LET faulty == {i \in DOMAIN entries : EntryFault(entries, i) # ""}
  IN  IF faulty = {}
      THEN [ok |-> TRUE, reason |-> "",
            files |-> [i \in DOMAIN entries |->
                         [path |-> Normalize(entries[i].names), contents |-> entries[i].contents]]]
      ELSE Rejected(EntryFault(entries, CHOOSE i \in faulty : \A j \in faulty : i <= j))

\* What the text is before its entries: no text, too large, no JSON, no files.
ValidateChangeSet(a) ==
  CASE permitted = {} -> Rejected("no_permitted_paths_declared")
    [] a.status = "incomplete" -> Rejected("response_incomplete")
    [] a.status # "completed" -> Rejected("response_not_completed")
    [] a.shape # "files" -> Rejected(a.shape)
    [] a.entries = <<>> -> Rejected("empty_change_set")
    [] OTHER -> EntriesVerdict(a.entries)

-----------------------------------------------------------------------------
(***************************************************************************)
(* realpath: every name looked up in turn, a link followed to what it      *)
(* names, the empty set when a name, or what a link names, is not there.   *)
(***************************************************************************)
Follow(found, name) ==
  LET here == {Append(p, name) : p \in found}
  IN  DOMAIN tree \cap ({links[p] : p \in here \cap DOMAIN links} \cup (here \ DOMAIN links))

RealPath(path) ==
  LET found[k \in 0..Len(path)] == IF k = 0 THEN {<<>>} ELSE Follow(found[k - 1], path[k])
  IN  found[Len(path)]

Outside(path) == ~IsStrictPrefix(Workspace, path)

\* Seeded fault: the path is only looked at as text.
TargetAsText(relPath) == {Workspace \o relPath}

\* The real place of a path of the workspace, none when it is outside.  Names
\* that lead nowhere are taken as yet to be created, those of links too.
AssertContainedTarget(relPath) ==
  LET target == Workspace \o relPath
      exists == {k \in 0..Len(target) : RealPath(SubSeq(target, 1, k)) # {}}
      k == CHOOSE k \in exists : \A j \in exists : j <= k
      full == {p \o SubSeq(target, k + 1, Len(target)) : p \in RealPath(SubSeq(target, 1, k))}
  IN  {p \in full : ~Outside(p)}

-----------------------------------------------------------------------------
Unread == [ok |-> FALSE, reason |-> "unread", files |-> <<>>]

Validate ==
  /\ verdict = Unread
  /\ verdict' = ValidateChangeSet(reply)
  /\ writing' = IF verdict'.ok THEN 1 ELSE 0
  /\ UNCHANGED <<reply, permitted, links, tree0, tree>>

\* The places a write through path goes to: a link in it leads elsewhere.
Lands(path) ==
  LET real == RealPath(Front(path))
  IN  IF real = {} THEN {path}
      ELSE LET at == {Append(p, Last(path)) : p \in real}
           IN  {IF p \in DOMAIN links THEN links[p] ELSE p : p \in at}

IsFile(path) == path \in DOMAIN tree /\ tree[path] # "dir"
LeadsNowhere(path) == path \in DOMAIN links /\ links[path] \notin DOMAIN tree

\* mkdir of the file's directories, then writeFile.
WriteThrough(path, contents) ==
  LET made == {SubSeq(path, 1, k) : k \in 1..(Len(path) - 1)}
      at == CHOOSE p \in Lands(path) : TRUE
  IN  [p \in DOMAIN tree \cup {q \in made : RealPath(q) = {}} \cup {at} |->
         IF p = at THEN contents ELSE IF p \in DOMAIN tree THEN tree[p] ELSE "dir"]

\* The file system refuses a directory where a file or a link to nowhere is,
\* and a file where a directory is or where the directory for it is not.
CanWrite(path) ==
  /\ \A k \in 1..(Len(path) - 1) : ~IsFile(SubSeq(path, 1, k)) /\ ~LeadsNowhere(SubSeq(path, 1, k))
  /\ \A p \in Lands(path) :
       /\ p \in DOMAIN tree => tree[p] # "dir"
       /\ path \in DOMAIN links => HasParent(tree, p) /\ ~IsFile(Front(p))

(***************************************************************************)
(* The next file goes to its target, or the attempt ends there: the target *)
(* is outside, or the file system refuses.                                 *)
(***************************************************************************)
WriteFile ==
  /\ writing > 0
  /\ LET file == verdict.files[writing]
         target == AssertContainedTarget(file.path)
     IN  IF target = {} \/ \E p \in target : ~CanWrite(p)
         THEN writing' = 0 /\ UNCHANGED tree
         ELSE /\ \E p \in target : tree' = WriteThrough(p, file.contents)
              /\ writing' = IF writing < Len(verdict.files) THEN writing + 1 ELSE 0
  /\ UNCHANGED <<reply, permitted, links, tree0, verdict>>

\* A write that fails half way: before anything, with some of the directories
\* made, or with the file opened, which empties it, and not or partly written.
WriteFails ==
  /\ writing > 0
  /\ \E p \in AssertContainedTarget(verdict.files[writing].path) :
       /\ CanWrite(p)
       /\ \/ UNCHANGED tree
          \/ \E k \in 1..(Len(p) - 1) : /\ RealPath(SubSeq(p, 1, k)) = {}
                                        /\ tree' = WriteThrough(SubSeq(p, 1, k), "dir")
          \/ tree' = WriteThrough(p, "torn")
  /\ writing' = 0
  /\ UNCHANGED <<reply, permitted, links, tree0, verdict>>

CSInit ==
  /\ reply \in Replies /\ permitted \in Permissions
  /\ links \in LinkSets
  /\ tree0 \in Trees /\ tree = tree0
  /\ verdict = Unread /\ writing = 0

CSNext == Validate \/ WriteFile \/ WriteFails

CSSpec == CSInit /\ [][CSNext]_csVars

-----------------------------------------------------------------------------
Changed == {p \in DOMAIN tree : p \notin DOMAIN tree0 \/ tree[p] # tree0[p]}

\* What the links of the workspace named before the attempt that was not there.
NamedNowhere ==
  {links[q] : q \in {q \in DOMAIN links : ~Outside(q) /\ links[q] \notin DOMAIN tree0}}

(***************************************************************************)
(* Whatever the reply says and wherever the links of the workspace lead,   *)
(* nothing that is there outside the workspace changes, and nothing is     *)
(* added outside but what a link of the workspace names that was not       *)
(* there, which assertContainedTarget takes for a name yet to be created   *)
(* and writeFile follows; no file changes but those the task permits, as   *)
(* their real paths are, each to what the reply says of it or, when the    *)
(* write fails, to a part of it; and nothing changes for a rejected reply. *)
(* So an attempt changes nothing in the node_modules it shares with later  *)
(* attempts, nor in the evaluator.                                         *)
(***************************************************************************)
ContainedWrites ==
  /\ \A p \in Changed : Outside(p) => p \in NamedNowhere
  /\ \A p \in Changed : tree[p] # "dir" =>
       \E q \in permitted, i \in DOMAIN reply.entries :
          /\ RealPath(Workspace \o q) = {p}
          /\ reply.entries[i].form = "relative" /\ Normalize(reply.entries[i].names) = q
          /\ tree[p] \in {reply.entries[i].contents, "torn"}
  /\ ~verdict.ok => tree = tree0
=============================================================================
