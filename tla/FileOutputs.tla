---------------------------- MODULE FileOutputs -----------------------------
(***************************************************************************)
(* Directory and file outputs (internal/output/handlers): Write snapshots  *)
(* the output and describes it, the write plan uploads the snapshot to the *)
(* CAS, Load restores the output from there unless it is already in place. *)
(* Commands of other targets, failing calls and killed processes come in   *)
(* between.                                                                *)
(*                                                                         *)
(* What is at the path of the output is a tree: a function from the paths  *)
(* below it, which are sequences of names, to what is there.  A digest is  *)
(* what it is the digest of, the hash functions being injective: the       *)
(* content of a file, all that is below a directory.                       *)
(***************************************************************************)
EXTENDS Naturals, SequencesExt

CONSTANTS
  EntryNames,   \* the names of directory entries
  Partial,      \* the content of a file that is being written
  Outputs,      \* the trees that commands may leave at the path of the output
  MaxEvents,    \* failures, kills and foreign writes of a behaviour
  MaxBuilds

VARIABLES
  type,      \* the type of the output, "dir" or "file"
  bin,       \* the output is the bin_output of its target, and not just a file
  disk,      \* the tree at the path of the output
  staged,    \* the snapshot in the temporary directory
  output,    \* the proto that Write has returned
  recorded,  \* the stored result: [tree, was], or NoResult
  cas,       \* blobs, as <<digest, content>>
  phase,     \* where the build of the target is
  todo,      \* directories that a Load has yet to fill, as <<path, message>>
  pending,   \* downloads that a Load has started, as <<path, file, stage>>
  events, builds

filesVars == <<type, bin, disk, staged, output, recorded, cas, phase, todo, pending, events, builds>>

-----------------------------------------------------------------------------
(* Trees                                                                   *)

Missing == [p \in {} |-> p]
FileNode(content, exec) == [kind |-> "file", content |-> content, exec |-> exec]
LinkNode(target) == [kind |-> "link", target |-> target]
Directory == [kind |-> "dir"]

IsNode(node) ==
  \/ node.kind = "file" /\ node = FileNode(node.content, node.exec) /\ node.exec \in BOOLEAN
  \/ node.kind = "link" /\ node = LinkNode(node.target)
  \/ node = Directory

KindAt(tree, path) == IF path \in DOMAIN tree THEN tree[path].kind ELSE "none"

\* A tree; what the link that an output itself may be leads to is left out.
IsTree(tree) ==
  /\ tree = [p \in DOMAIN tree |-> tree[p]]
  /\ DOMAIN tree \subseteq Seq(EntryNames)
  /\ KindAt(tree, <<>>) \in {"none", "file", "dir"}
  /\ \A p \in DOMAIN tree :
       /\ IsNode(tree[p])
       /\ \A k \in 0..(Len(p) - 1) : KindAt(tree, SubSeq(p, 1, k)) = "dir"

ASSUME OutputsAssumption == \A tree \in Outputs : IsTree(tree)

\* the tree after something has been put at the path
With(tree, path, node) ==
  [p \in DOMAIN tree \cup {path} |-> IF p = path THEN node ELSE tree[p]]

\* what is below a path
Sub(tree, path) ==
  [p \in {SubSeq(q, Len(path) + 1, Len(q)) : q \in {q \in DOMAIN tree : IsPrefix(path, q)}}
     |-> tree[path \o p]]

-----------------------------------------------------------------------------
(* What is stored of a tree                                                *)

DirectoryNode(digest) == [kind |-> "dir", digest |-> digest]
Blob(content) == [kind |-> "blob", content |-> content]   \* the digest of a file

\* writeDirectoryRecursive: the Directory message, which names files and
\* subdirectories by their digests
Message(tree) ==
  [name \in {p[1] : p \in {p \in DOMAIN tree : Len(p) = 1}} |->
     IF tree[<<name>>] = Directory THEN DirectoryNode(Sub(tree, <<name>>)) ELSE tree[<<name>>]]

\* childrenMap: the messages of all directories below, by their digests
Children(tree) ==
  {<<Sub(tree, p), Message(Sub(tree, p))>> : p \in {p \in DOMAIN tree : p # <<>> /\ tree[p] = Directory}}

\* getDirectoryHash, HashFile: the mode of a file output is not part of it
TreeOf(tree) ==
  IF KindAt(tree, <<>>) = "dir" THEN [kind |-> "tree", root |-> Message(tree), children |-> Children(tree)]
  ELSE Blob(tree[<<>>].content)

\* fileUploads
FileUploads(tree) == {p \in DOMAIN tree : tree[p].kind = "file"}

-----------------------------------------------------------------------------
(* The build of the target                                                 *)

NoResult == [tree |-> Missing, was |-> Missing]

FilesInit ==
  /\ type \in {"dir", "file"} /\ bin \in BOOLEAN /\ (bin => type = "file")
  /\ disk = Missing /\ staged = Missing /\ output = Missing
  /\ recorded = NoResult /\ cas = {} /\ phase = "start" /\ todo = {} /\ pending = {}
  /\ events = 0 /\ builds = 0

bounds == <<type, bin, builds>>
Event == events < MaxEvents /\ events' = events + 1
memory == <<staged, output>>
store == <<recorded, cas>>
load == <<todo, pending>>

\* A cache hit loads, anything else runs the command.
Begin ==
  /\ phase = "start" /\ builds < MaxBuilds
  /\ builds' = builds + 1
  /\ phase' \in (IF recorded # NoResult THEN {"load", "run"} ELSE {"run"})
  /\ UNCHANGED <<type, bin, disk, memory, store, load, events>>

RunCommand ==
  /\ phase = "run"
  /\ disk' \in Outputs
  /\ phase' = "write"
  /\ UNCHANGED <<memory, store, load, events, bounds>>

\* The declared output was not created.
WriteFails ==
  /\ phase = "write" /\ KindAt(disk, <<>>) # type
  /\ phase' = "start" /\ pending' = {}
  /\ UNCHANGED <<disk, memory, store, todo, events, bounds>>

\* a file output with another mode
WithMode(tree, exec) ==
  IF KindAt(tree, <<>>) = "file" THEN With(tree, <<>>, FileNode(tree[<<>>].content, exec)) ELSE tree

\* ensureBinOutputExecutable
Executable(tree) == IF bin THEN WithMode(tree, TRUE) ELSE tree

\* Write: files are copied and hashed in one go.
WriteOutput ==
  /\ phase = "write" /\ KindAt(disk, <<>>) = type
  /\ staged' = disk /\ output' = TreeOf(disk)
  /\ disk' = Executable(disk)
  /\ phase' = "upload"
  /\ UNCHANGED <<store, load, events, bounds>>

\* The command of another target writes the path.
Overwrite ==
  /\ Event
  /\ phase \in {"upload", "start"}
  /\ disk' \in Outputs
  /\ UNCHANGED <<memory, store, phase, load, bounds>>

InCas(digest) == \E blob \in cas : blob[1] = digest
Content(digest) == (CHOOSE blob \in cas : blob[1] = digest)[2]
\* Cas.Write: what is stored under the digest already stays.
CasWrite(digest, content) ==
  cas' = IF InCas(digest) THEN cas ELSE cas \cup {<<digest, content>>}

\* Mutant: the plan reads the workspace.
UploadFromWorkspace(p) ==
  /\ phase = "upload" /\ KindAt(disk, p) = "file"
  /\ CasWrite(Blob(staged[p].content), disk[p].content)
  /\ UNCHANGED <<disk, memory, recorded, phase, load, events, bounds>>

\* uploadFilesToCas, fileWritePlan.Execute: from the snapshot
Upload(p) ==
  /\ phase = "upload" /\ ~InCas(Blob(staged[p].content))
  /\ CasWrite(Blob(staged[p].content), staged[p].content)
  /\ UNCHANGED <<disk, memory, recorded, phase, load, events, bounds>>

Uploaded == \A p \in FileUploads(staged) : InCas(Blob(staged[p].content))

\* directoryWritePlan.Execute: the tree when all files are stored
WriteTree ==
  /\ phase = "upload" /\ type = "dir" /\ ~InCas(output) /\ Uploaded
  /\ CasWrite(output, output)
  /\ UNCHANGED <<disk, memory, recorded, phase, load, events, bounds>>

Cleanup == staged' = Missing /\ output' = Missing

\* The plan has succeeded and the result is stored, or the plan has failed; the
\* snapshot is removed and the build ends.
Commit ==
  /\ phase = "upload"
  /\ \/ /\ Uploaded /\ (type = "dir" => InCas(output))
        /\ recorded' = [tree |-> output, was |-> staged] /\ UNCHANGED events
     \/ Event /\ UNCHANGED recorded
  /\ Cleanup /\ phase' = "start" /\ pending' = {}
  /\ UNCHANGED <<disk, cas, todo, bounds>>

-----------------------------------------------------------------------------
(* Load                                                                    *)

InPlace == disk # Missing /\ TreeOf(disk) = recorded.tree

\* The output is where it belongs, and is left alone.
LoadSkips ==
  /\ phase = "load" /\ InPlace
  /\ phase' = "restored"
  /\ disk' = Executable(disk)
  /\ UNCHANGED <<memory, store, load, events, bounds>>

\* The CAS, or the file system, returns an error, and the command is run.
LoadFails ==
  /\ phase = "load" /\ ~InPlace
  /\ Event \/ (type = "file" /\ KindAt(disk, <<>>) = "dir" /\ UNCHANGED events)
  /\ phase' = "run"
  /\ UNCHANGED <<disk, memory, store, load, bounds>>

Single(node) == [p \in {<<>>} |-> node]
\* os.Create keeps the mode of a file that is there.
Created(path) == FileNode(Partial, KindAt(disk, path) = "file" /\ disk[path].exec)

\* The mode is that of the new file, until bin_output is made executable.
LoadFile ==
  /\ phase = "load" /\ ~InPlace /\ type = "file" /\ KindAt(disk, <<>>) # "dir"
  /\ disk' = Single(Created(<<>>))
  /\ pending' = {<<<<>>, FileNode(recorded.tree.content, bin \/ Created(<<>>).exec), "copy">>}
  /\ phase' = "loading"
  /\ UNCHANGED <<memory, store, todo, events, bounds>>

Tree == Content(recorded.tree)   \* that Load has read from the CAS
Child(digest) == (CHOOSE child \in Tree.children : child[1] = digest)[2]

\* Load of a directory: it is removed and made again.
LoadDirectory ==
  /\ phase = "load" /\ ~InPlace /\ type = "dir"
  /\ disk' = Single(Directory)
  /\ todo' = {<<<<>>, Tree.root>>}
  /\ phase' = "loading"
  /\ UNCHANGED <<memory, store, pending, events, bounds>>

Named(message, kind) == {name \in DOMAIN message : message[name].kind = kind}

\* loadDirectoryRecursive, one call: a goroutine fetches each file, directories
\* and links are made, and the directories are to be filled.
FillDirectory(path, message) ==
  LET made == {Append(path, name) : name \in Named(message, "dir") \cup Named(message, "link")}
      node(name) == IF message[name].kind = "dir" THEN Directory ELSE message[name]
  IN
  /\ phase \in {"loading", "failing"}
  /\ disk' = [p \in DOMAIN disk \cup made |-> IF p \in DOMAIN disk THEN disk[p] ELSE node(Last(p))]
  /\ todo' = (todo \ {<<path, message>>})
             \cup {<<Append(path, name), Child(message[name].digest)>> : name \in Named(message, "dir")}
  /\ pending' = pending \cup {<<Append(path, name), message[name], "open">> : name \in Named(message, "file")}
  /\ UNCHANGED <<memory, store, phase, events, bounds>>

\* A directory or link cannot be made: Load returns without waiting for the
\* downloads it has started.
FillFails ==
  /\ phase \in {"loading", "failing"} /\ todo # {}
  /\ Event
  /\ phase' = "run" /\ todo' = {}
  /\ UNCHANGED <<disk, memory, store, pending, bounds>>

\* downloadFile: os.Create, then the content and the mode
OpenFile(d) ==
  /\ d[3] = "open"
  /\ IF KindAt(disk, Front(d[1])) = "dir" /\ KindAt(disk, d[1]) \in {"none", "file"}
     THEN /\ disk' = With(disk, d[1], Created(d[1]))
          /\ pending' = (pending \ {d}) \cup {<<d[1], d[2], "copy">>}
          /\ UNCHANGED phase
     ELSE /\ pending' = pending \ {d}
          /\ phase' = IF phase = "loading" THEN "failing" ELSE phase
          /\ UNCHANGED disk
  /\ UNCHANGED <<memory, store, todo, events, bounds>>

FillFile(d) ==
  /\ d[3] = "copy"
  /\ disk' = IF KindAt(disk, d[1]) = "file"
             THEN With(disk, d[1], FileNode(Content(Blob(d[2].content)), d[2].exec)) ELSE disk
  /\ pending' = pending \ {d}
  /\ UNCHANGED <<memory, store, phase, todo, events, bounds>>

DownloadFails(d) ==
  /\ phase \in {"loading", "failing"}
  /\ Event
  /\ pending' = pending \ {d} /\ phase' = "failing"
  /\ UNCHANGED <<disk, memory, store, todo, bounds>>

\* Mutant: the errors of downloads are dropped.
LoadReturnsNil ==
  /\ phase \in {"loading", "failing"} /\ todo = {} /\ pending = {}
  /\ phase' = "restored"
  /\ UNCHANGED <<disk, memory, store, load, events, bounds>>

\* group.Wait
LoadReturns ==
  /\ phase \in {"loading", "failing"} /\ todo = {} /\ pending = {}
  /\ phase' = IF phase = "loading" THEN "restored" ELSE "run"
  /\ UNCHANGED <<disk, memory, store, load, events, bounds>>

Finish ==
  /\ phase = "restored"
  /\ phase' = "start"
  /\ UNCHANGED <<disk, memory, store, load, events, bounds>>

\* The process dies; the file system stays as it is.
Kill ==
  /\ phase # "start"
  /\ Event
  /\ Cleanup /\ todo' = {} /\ pending' = {} /\ phase' = "start"
  /\ UNCHANGED <<disk, store, bounds>>

FilesNext ==
  \/ Begin \/ RunCommand \/ WriteOutput \/ WriteFails \/ Overwrite
  \/ \E p \in FileUploads(staged) : Upload(p)
  \/ WriteTree \/ Commit
  \/ LoadSkips \/ LoadFails \/ LoadFile \/ LoadDirectory
  \/ \E t \in todo : FillDirectory(t[1], t[2])
  \/ FillFails
  \/ \E d \in pending : OpenFile(d) \/ FillFile(d) \/ DownloadFails(d)
  \/ LoadReturns \/ Finish \/ Kill

FilesSpec == FilesInit /\ [][FilesNext]_filesVars

-----------------------------------------------------------------------------
(* Properties                                                              *)

\* What Load restores is what Write saw in the build that stored the result,
\* whatever other commands, killed processes and failed loads have left at the
\* path in between, except for the mode of a file output, which the cache does not
\* keep: only bin_output is sure to be executable.
RestoredIsWritten ==
  phase = "restored" => \E exec \in BOOLEAN : (bin => exec) /\ disk = WithMode(recorded.was, exec)
=============================================================================
