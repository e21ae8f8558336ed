------------------------------ MODULE FileTree ------------------------------
(***************************************************************************)
(* The names of a Filesystem (components/filesystem.cpp): what its calls make  *)
(* of the strings Lua passes, and of the host's directories (through          *)
(* drivers/fs_utils.cpp).  A string is a sequence of names and slashes; a node  *)
(* is the names that lead to it from the filesystem's own directory, which is   *)
(* the node <<>>.  The names "." and ".." are left to the host, which may refuse  *)
(* any file or directory to be made, moved, removed or read.                 *)
(***************************************************************************)
EXTENDS Integers, SequencesExt, Subsequence

CONSTANTS
  PathNames,     \* names of files and directories
  PathArguments, \* strings Lua passes
  MaxFileCalls   \* bound

Slash == "/"

ASSUME FileTreeAssumption ==
  /\ Slash \notin PathNames /\ PathArguments \subseteq Seq(PathNames \cup {Slash})
  /\ MaxFileCalls \in Nat

VARIABLES
  _isReadOnly, \* fixed: a loot disk
  tree,        \* "dir" or "file", for each node there is
  answer,      \* what the last call answered: "yes", "no" (false or nil)
  refused,     \* history: whether the host has refused a part of the last call
  fileCalls

fileTreeVars == <<_isReadOnly, tree, answer, refused, fileCalls>>

\* A loot disk has a directory with a file in it.
FileTreeInit ==
  /\ _isReadOnly \in BOOLEAN
  /\ \E d, f \in PathNames :
       tree = [n \in IF _isReadOnly THEN {<<>>, <<d>>, <<d, f>>} ELSE {<<>>} |->
                 IF n = <<d, f>> THEN "file" ELSE "dir"]
  /\ answer = "no" /\ refused = FALSE /\ fileCalls = 0

-----------------------------------------------------------------------------
(* Strings *)

Unslashed(s) == Select(s, PathNames)
Leading(s) == CHOOSE n \in 0..Len(s) : /\ \A i \in 1..n : s[i] = Slash
                                       /\ n < Len(s) => s[n + 1] # Slash

\* Filesystem::clean, with bAbs: one slash in front, and of those at the end one less,
\* which comes back unless removeEnd.
clean(arg, removeEnd) ==
  LET rest   == SubSeq(arg, Leading(arg) + 1, Len(arg))
      hadEnd == rest # <<>> /\ Last(rest) = Slash
  IN  <<Slash>> \o IF hadEnd /\ removeEnd THEN Front(rest) ELSE rest

EndsOpen(path) == Last(path) = Slash

\* The host's answer to a path: what ends in a slash is a directory.
FileExists(path) ==
  /\ Unslashed(path) \in DOMAIN tree
  /\ EndsOpen(path) => tree[Unslashed(path)] = "dir"
isDirectory(path) == FileExists(path) /\ tree[Unslashed(path)] = "dir"

Parent(node) == Front(node)
HasParent(node) == node # <<>> => Parent(node) \in DOMAIN tree /\ tree[Parent(node)] = "dir"

\* fs_utils::list: the host puts each name behind what was asked for.
HostList(request) ==
  {request \o (IF EndsOpen(request) THEN <<>> ELSE <<Slash>>) \o <<Last(n)>> :
     n \in {m \in DOMAIN tree : m # <<>> /\ Parent(m) = Unslashed(request) /\ isDirectory(request)}}

\* What was asked for is taken off again.
relative(requested, full) == SubSeq(full, Len(requested) + 1, Len(full))

\* Filesystem::list; directories end in a slash.
list(arg) ==
  LET request == clean(arg, FALSE)
  IN  {Tail(clean(relative(request, item), TRUE)) \o (IF isDirectory(item) THEN <<Slash>> ELSE <<>>) :
         item \in HostList(request)}

-----------------------------------------------------------------------------
(* Calls *)

FileCall(ok, refusal) == /\ fileCalls < MaxFileCalls /\ fileCalls' = fileCalls + 1
                         /\ answer' = (IF ok THEN "yes" ELSE "no") /\ refused' = refusal
                         /\ UNCHANGED _isReadOnly

Under(node) == {n \in DOMAIN tree : IsPrefix(node, n)}
Without(gone) == [n \in DOMAIN tree \ gone |-> tree[n]]
Denies(refusal) == FileCall(FALSE, refusal) /\ UNCHANGED tree

WithFile(node) == [n \in DOMAIN tree \cup {node} |-> IF n = node THEN "file" ELSE tree[n]]

\* open, to write.
CreateFile(arg) ==
  LET path == clean(arg, FALSE)
      node == Unslashed(path)
      ok   == ~_isReadOnly /\ ~isDirectory(path) /\ ~EndsOpen(path) /\ HasParent(node)
  IN  \/ ok /\ FileCall(TRUE, FALSE) /\ tree' = WithFile(node)
      \/ Denies(ok)

\* A removal that breaks off: what is in a directory goes first, and after the first that
\* the host refuses nothing more does, there or above.
BreaksOff(node, gone) ==
  LET opened == {n \in DOMAIN tree \ gone : Under(n) \cap gone # {}}
  IN  /\ node \notin gone
      /\ \A n \in gone : Under(n) \subseteq gone
      /\ \A m, n \in opened : IsPrefix(m, n) \/ IsPrefix(n, m)

\* fs_utils::remove: what goes, and what it answers.  Of a directory that cannot be read
\* nothing goes, and the -1 that is returned is true.
Removals(node) ==
  {r \in [gone : SUBSET Under(node), ok : BOOLEAN] :
     IF r.ok THEN r.gone = Under(node) \/ (r.gone = {} /\ tree[node] = "dir")
     ELSE BreaksOff(node, r.gone)}
Removes(node) == \E r \in Removals(node) : /\ tree' = Without(r.gone)
                                           /\ FileCall(r.ok, r.gone # Under(node))

remove(arg) ==
  LET path == clean(arg, FALSE)
  IN  IF _isReadOnly \/ ~FileExists(path) THEN Denies(FALSE) ELSE Removes(Unslashed(path))

\* fs_utils::mkdir: every directory that is missing, from the top, unless there is a file in
\* the way, and down to where the host refuses one.
mkdir(node, depth) ==
  LET Above(d) == {SubSeq(node, 1, n) : n \in 0..d}
  IN  IF \E n \in Above(Len(node)) \cap DOMAIN tree : tree[n] = "file" THEN tree
      ELSE [n \in DOMAIN tree \cup Above(depth) |-> IF n \in DOMAIN tree THEN tree[n] ELSE "dir"]

\* What mkdir answers is not looked at.
makeDirectory(arg) ==
  LET path == clean(arg, FALSE)
      node == Unslashed(path)
  IN  IF _isReadOnly \/ FileExists(path) THEN Denies(FALSE)
      ELSE \E depth \in 0..Len(node) : /\ tree' = mkdir(node, depth)
                                       /\ FileCall(TRUE, depth < Len(node))

\* Mutant: any place inside is taken for one directly inside.
hack_broken_renameDeep(from, to) == Len(to) >= Len(from) + 2 /\ IsPrefix(Append(from, Slash), to)

\* One name behind from.
hack_broken_rename(from, to) ==
  Len(to) = Len(from) + 2 /\ IsPrefix(Append(from, Slash), to) /\ Last(to) # Slash

\* rename(2), from what there is to what there is not.
HostRenames(from, to) ==
  /\ Unslashed(to) \notin DOMAIN tree
  /\ HasParent(Unslashed(to)) /\ ~IsPrefix(Unslashed(from), Unslashed(to))
  /\ EndsOpen(to) => tree[Unslashed(from)] = "dir"

\* What was under one node is under the other.
Renamed(f, t, n) == t \o SubSeq(n, Len(f) + 1, Len(n))
MovedTree(f, t) ==
  [n \in (DOMAIN tree \ Under(f)) \cup {Renamed(f, t, u) : u \in Under(f)} |->
     IF n \in DOMAIN tree \ Under(f) THEN tree[n] ELSE tree[Renamed(t, f, n)]]

\* After a removal that broke off the host refuses to move what is left below itself.
rename(rawFrom, rawTo) ==
  LET from == clean(rawFrom, TRUE)
      to   == clean(rawTo, TRUE)
      f == Unslashed(from)
      t == Unslashed(to)
  IN  IF _isReadOnly \/ FileExists(to) \/ ~FileExists(from) THEN Denies(FALSE)
      ELSE IF hack_broken_rename(from, to) THEN Removes(f)
      ELSE \/ HostRenames(from, to) /\ FileCall(TRUE, FALSE) /\ tree' = MovedTree(f, t)
           \/ Denies(HostRenames(from, to))

FileTreeNext ==
  \E a \in PathArguments :
    CreateFile(a) \/ remove(a) \/ makeDirectory(a) \/ \E b \in PathArguments : rename(a, b)

FileTreeSpec == FileTreeInit /\ [][FileTreeNext]_fileTreeVars

-----------------------------------------------------------------------------
\* What list tells of a directory is there under the name it tells, behind the name that
\* was asked for and a slash, and is a directory just if it ends in a slash.
ListedIsThere ==
  \A a \in PathArguments : \A item \in list(a) :
    LET named == clean(a \o <<Slash>> \o item, TRUE)
    IN  FileExists(named) /\ (isDirectory(named) <=> Last(item) = Slash)

\* Only what was below the node is gone: if the host refused nothing, all of it and just if
\* the answer is yes; if it did, not the node, and nothing where that is answered with yes.
RemovedBelow(f) ==
  /\ \A n \in DOMAIN tree' : n \in DOMAIN tree /\ tree'[n] = tree[n]
  /\ \A n \in DOMAIN tree \ DOMAIN tree' : IsPrefix(f, n)
  /\ IF refused' THEN f \in DOMAIN tree' /\ (answer' = "yes" => DOMAIN tree' = DOMAIN tree)
     ELSE answer' = "yes" => \A n \in DOMAIN tree' : ~IsPrefix(f, n)

\* All that is new is a directory above the node, which is one then, if the host refused
\* nothing and no file was in the way.
MadeAbove(f) ==
  /\ \A n \in DOMAIN tree : n \in DOMAIN tree' /\ tree'[n] = tree[n]
  /\ \A n \in DOMAIN tree' \ DOMAIN tree : IsPrefix(n, f) /\ tree'[n] = "dir"
  /\ ~refused' /\ (\A n \in DOMAIN tree : IsPrefix(n, f) => tree[n] = "dir") =>
       f \in DOMAIN tree' /\ tree'[f] = "dir"

\* All that was below f is below t, and the rest is as it was.
MovedBelow(f, t) ==
  LET Was(n) == IF IsPrefix(t, n) THEN Renamed(t, f, n) ELSE n
      moved  == {n \in DOMAIN tree' : IsPrefix(t, n)}
  IN  /\ DOMAIN tree' = {n \in DOMAIN tree : ~IsPrefix(f, n)} \cup moved
      /\ \A n \in DOMAIN tree' : tree'[n] = tree[Was(n)]
      /\ {Was(n) : n \in moved} = Under(f)

\* A name inside the other is the removal of what it is inside of, if it is directly inside.
MovedOrRemoved(f, t) ==
  IF IsPrefix(f, t) THEN RemovedBelow(f) /\ (answer' = "yes" => Len(t) = Len(f) + 1)
  ELSE answer' = "yes" => MovedBelow(f, t)

\* What a call answers is what it did, however the names were spelled.  With no it has done
\* nothing, but for a removal the host let begin and not end (fs_utils.cpp:234).  With yes
\* remove has taken just what is below the name, makeDirectory has made just what was
\* missing above it (unless a file was in the way, filesystem.cpp:648), and rename has moved
\* all below one name to the other and touched nothing else, or, onto a name directly
\* below, removed it ("oc just deletes a", filesystem.cpp:668); only where the host refused
\* to read what was to be removed (fs_utils.cpp:236) or to make what was missing is there
\* less than that, and never more.  What list answers is true of every directory then.
AnswersTruly ==
  /\ answer' = "no" => tree' = tree \/ refused'
  /\ tree' # tree => ListedIsThere'
  /\ answer' = "yes" \/ tree' # tree => \A a \in PathArguments :
       /\ CreateFile(a) => answer' = "yes"
       /\ remove(a) => RemovedBelow(Unslashed(a))
       /\ makeDirectory(a) => answer' = "yes" /\ MadeAbove(Unslashed(a))
       /\ \A b \in PathArguments : rename(a, b) => MovedOrRemoved(Unslashed(a), Unslashed(b))
CallsAnswerTruly == [][AnswersTruly]_fileTreeVars

=============================================================================
