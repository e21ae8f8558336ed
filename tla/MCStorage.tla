----------------------------- MODULE MCStorage ------------------------------
(* FileHandles, FileTree, DriveSectors and Settings for TLC.  They share no state, so a      *)
(* behaviour is one of any of them, chosen at the start.                        *)
EXTENDS FileHandles, FileTree, DriveSectors, Settings

\* Files: eight ints, so that positions wrap and lie on both sides of a file of two or
\* more bytes.
MCDistances == {-MaxInt - 1, -1, 1, MaxInt}
MCSizes == {1, MaxInt}
Symmetry == Permutations(Paths) \cup Permutations(Handles) \cup Permutations(Inodes)

\* Names: one below the other, with slashes before, behind, twice and none.
MCPathArguments ==
  {<<>>, <<"x">>, <<"/", "x", "/">>, <<"x", "/", "/">>, <<"y">>, <<"x", "/", "x">>, <<"x", "/", "/", "y">>,
   <<"x", "/", "y", "/", "x">>, <<"y", "/", "x", "/">>}

\* Drive: a tier of n has n sectors, tier 0 stands for one that is not known.  With four
\* bytes a sector on 32 ints, sector 8 is taken for the first one and sector 4 has a
\* negative offset, as sectors 2^23 and 2^22 of 512 bytes are and have.
MCSectors(t) == t
MCArguments == {-4, -1, 1, 2, 5, 9}

\* Settings: two components, of which one has no address yet; a label with a quote, one
\* that Lua reads as another, and as one that it can't read after that; limits of every sign.
MCShippedConfig == <<[address |-> 7, label |-> NoLabel], [address |-> 0, label |-> NoLabel]>>
MCEscapes == [c \in {"n", Backslash} |-> IF c = "n" THEN LineEnd ELSE c]
MCLabels == {<<"n", Quote>>, <<LineEnd, Quote>>, <<Backslash, "n">>}
MCBiosSizes == {-1, 2}
MCDataSizes == {-1, 1}

VARIABLE part

\* Of a part that is not looked at only one initial state is taken.
StorageInit ==
  /\ part \in {"files", "tree", "drive", "settings"}
  /\ Init /\ FileTreeInit /\ DriveInit /\ SettingsInit
  /\ part # "drive" => tier = 0
  /\ part # "files" => ~readOnly
  /\ part # "tree" => ~_isReadOnly
  /\ part # "settings" => _bios_size_limit < 0 /\ _data_size_limit < 0

StorageNext ==
  /\ UNCHANGED part
  /\ \/ part = "files" /\ Next /\ UNCHANGED <<driveVars, fileTreeVars, settingsVars>>
     \/ part = "tree" /\ FileTreeNext /\ UNCHANGED <<vars, driveVars, settingsVars>>
     \/ part = "drive" /\ DriveNext /\ UNCHANGED <<vars, fileTreeVars, settingsVars>>
     \/ part = "settings" /\ SettingsNext /\ UNCHANGED <<vars, driveVars, fileTreeVars>>
=============================================================================
