------------------------------ MODULE Settings ------------------------------
(***************************************************************************)
(* What an environment's directory keeps from one start to the next: the      *)
(* configuration (model/config.cpp: client.cfg), which Client loads and saves  *)
(* and in which components note their addresses and labels, and the two files  *)
(* of an Eeprom (components/eeprom.cpp), bios.lua and data.                    *)
(*                                                                           *)
(* A file is written by fs_utils::write, which empties it first.  A flashed   *)
(* string is told apart by its length alone; a label is a sequence of          *)
(* characters, since the configuration is saved as a text that Lua reads: what  *)
(* is between the quotes is written as it is, and read with its escapes.       *)
(***************************************************************************)
EXTENDS Integers, SequencesExt

CONSTANTS
  ShippedConfig,  \* client.cfg of the program's directory: the components' settings,
                  \* [address, label]; address 0 is none
  LabelChars,     \* characters; these three are some of them
  Quote, Backslash, LineEnd,
  Escapes,        \* what Lua reads of a character behind a backslash, where it is allowed
  NoLabel,
  ShippedBios,    \* length of the program's bios
  Labels,         \* labels Lua gives
  Lengths,        \* lengths of what Lua flashes
  BiosSizes,      \* BiosSize of the configuration, 0 when it has none
  DataSizes,      \* DataSize
  NoFile,         \* a file that is not there
  MaxStarts       \* bound

DefaultBiosSize == 4096
DefaultDataSize == 256
Setting == [address : Nat, label : Seq(LabelChars) \cup {NoLabel}]

ASSUME SettingsAssumption ==
  /\ {Quote, Backslash, LineEnd} \subseteq LabelChars /\ Labels \subseteq Seq(LabelChars)
  /\ DOMAIN Escapes \subseteq LabelChars /\ \A c \in DOMAIN Escapes : Escapes[c] \in LabelChars
  /\ NoLabel \notin Seq(LabelChars)
  /\ ShippedConfig \in Seq(Setting) /\ ShippedConfig # <<>>
  /\ ShippedBios \in Nat /\ Lengths \subseteq Nat
  /\ BiosSizes \subseteq Int /\ DataSizes \subseteq Int
  /\ NoFile \notin Nat /\ NoFile \notin Seq(Setting)
  /\ NoFile \notin [file : {"client", "bios", "data"}, content : Nat \cup Seq(Setting)]
  /\ MaxStarts \in Nat

VARIABLES
  clientCfg,          \* the file client.cfg: <<>> when it is empty, or what was saved
  biosFile, dataFile, \* the eeprom's files: their lengths
  _bios_size_limit, _data_size_limit,
  envPhase,           \* "off", "on", or "closing" while client.cfg is written
  writing,            \* what a write has emptied a file for, or NoFile
  configData,         \* Config::_data
  configCache,        \* Config::_cache
  noted,              \* whether a table of _data has got an entry "n" (Value::set)
  drawn,              \* addresses given out: make_address draws new ones
  envStarts,
  \* history
  savedConfig,        \* the settings at the last orderly end; NoFile when that was undone
  flashed             \* [bios, data], as Lua last flashed them

fileState == <<clientCfg, biosFile, dataFile, writing>>
settingsVars == <<fileState, _bios_size_limit, _data_size_limit, envPhase, configData, configCache,
                  noted, drawn, envStarts, savedConfig, flashed>>

limit(configured, default) == IF configured = 0 THEN default ELSE configured

SettingsInit ==
  /\ clientCfg = NoFile /\ biosFile = NoFile /\ dataFile = NoFile /\ writing = NoFile
  /\ \E b \in BiosSizes : _bios_size_limit = limit(b, DefaultBiosSize)
  /\ \E d \in DataSizes : _data_size_limit = limit(d, DefaultDataSize)
  /\ envPhase = "off" /\ configData = <<>> /\ configCache = <<>>
  /\ noted = FALSE /\ drawn = 0 /\ envStarts = 0
  /\ savedConfig = NoFile /\ flashed = [bios |-> NoFile, data |-> NoFile]

-----------------------------------------------------------------------------
(* Text *)

\* Lua's reading of what is between double quotes, character by character.
NextChar(read, c) ==
  IF read.escaped
  THEN [text |-> Append(read.text, IF c \in DOMAIN Escapes THEN Escapes[c] ELSE c), escaped |-> FALSE,
        broken |-> read.broken \/ c \notin DOMAIN Escapes]
  ELSE IF c = Backslash THEN [read EXCEPT !.escaped = TRUE]
  ELSE [text |-> Append(read.text, c), escaped |-> FALSE, broken |-> read.broken \/ c = LineEnd]

Unquoted(label) ==
  LET read[i \in 0..Len(label)] ==
        IF i = 0 THEN [text |-> <<>>, escaped |-> FALSE, broken |-> FALSE]
        ELSE NextChar(read[i - 1], label[i])
  IN  read

\* quote_string: a text with a double quote in it is put in long brackets, in which Lua
\* drops a line end at the beginning and reads the rest as it is.
IsBracketed(label) == \E i \in DOMAIN label : label[i] = Quote

\* A label that does not break the text of the configuration, and what is read of it.
Legible(label) ==
  \/ label = NoLabel \/ IsBracketed(label)
  \/ LET read == Unquoted(label)[Len(label)] IN ~read.escaped /\ ~read.broken
ReadBack(label) ==
  IF label = NoLabel THEN NoLabel
  ELSE IF ~IsBracketed(label) THEN Unquoted(label)[Len(label)].text
  ELSE IF label[1] = LineEnd THEN Tail(label) ELSE label

Parses(table) == \A i \in DOMAIN table : Legible(table[i].label)
Parsed(table) == [i \in DOMAIN table |-> [table[i] EXCEPT !.label = ReadBack(@)]]

-----------------------------------------------------------------------------
(* Starting and ending *)

\* Component::initialize: a component without an address notes one that is new.
Addressed(table) ==
  [i \in DOMAIN table |-> IF table[i].address = 0 THEN [table[i] EXCEPT !.address = drawn + i]
                          ELSE table[i]]

\* Mutant: the configuration is taken for saved when the components have changed it.
LoadedLate(table) ==
  configData' = Addressed(table) /\ configCache' = Addressed(table) /\ noted' = FALSE

\* Config::load, then createComponents.
Loaded(table) == configData' = Addressed(table) /\ configCache' = table /\ noted' = FALSE

\* A file that does not parse is an error; an empty one is none, but without a computer
\* there is no machine.
Loads == clientCfg = NoFile \/ (clientCfg # <<>> /\ Parses(clientCfg))

\* Client::load, Eeprom::postInit included; when it fails the client goes again, without
\* anything to save.
StartClient ==
  /\ envPhase = "off" /\ envStarts < MaxStarts /\ envStarts' = envStarts + 1
  /\ IF Loads
     THEN /\ LET table == IF clientCfg = NoFile THEN ShippedConfig ELSE Parsed(clientCfg)
             IN  Loaded(table) /\ drawn' = drawn + Len(table)
          /\ envPhase' = "on"
          /\ IF biosFile = NoFile
             THEN biosFile' = 0 /\ writing' = [file |-> "bios", content |-> ShippedBios]
             ELSE UNCHANGED <<biosFile, writing>>
     ELSE UNCHANGED <<configData, configCache, noted, drawn, envPhase, biosFile, writing>>
  /\ UNCHANGED <<clientCfg, dataFile, _bios_size_limit, _data_size_limit, savedConfig, flashed>>

\* Client::close: Config::save writes only what differs from what was loaded.
CloseClient ==
  /\ envPhase = "on" /\ writing = NoFile
  /\ savedConfig' = configData
  /\ IF configData = configCache /\ ~noted THEN envPhase' = "off" /\ UNCHANGED <<clientCfg, writing>>
     ELSE /\ envPhase' = "closing" /\ clientCfg' = <<>>
          /\ writing' = [file |-> "client", content |-> configData]
  /\ UNCHANGED <<biosFile, dataFile, _bios_size_limit, _data_size_limit, configData, configCache,
                 noted, drawn, envStarts, flashed>>

\* What was to be written is there.
FinishWrite ==
  /\ writing # NoFile /\ writing' = NoFile
  /\ clientCfg' = IF writing.file = "client" THEN writing.content ELSE clientCfg
  /\ biosFile' = IF writing.file = "bios" THEN writing.content ELSE biosFile
  /\ dataFile' = IF writing.file = "data" THEN writing.content ELSE dataFile
  /\ envPhase' = IF envPhase = "closing" THEN "off" ELSE envPhase
  /\ UNCHANGED <<_bios_size_limit, _data_size_limit, configData, configCache, noted, drawn, envStarts,
                 savedConfig, flashed>>

\* The process is killed; a file that it was writing stays empty, and nothing is
\* expected of that one.
ClientKilled ==
  /\ envPhase \in {"on", "closing"} /\ envPhase' = "off"
  /\ writing' = NoFile
  /\ savedConfig' = IF envPhase = "closing" THEN NoFile ELSE savedConfig
  /\ flashed' = IF writing # NoFile /\ writing.file \in DOMAIN flashed
                THEN [flashed EXCEPT ![writing.file] = 0] ELSE flashed
  /\ UNCHANGED <<clientCfg, biosFile, dataFile, _bios_size_limit, _data_size_limit, configData,
                 configCache, noted, drawn, envStarts>>

-----------------------------------------------------------------------------
(* Lua's calls *)

\* Component::update.
setLabel(i, l) ==
  /\ envPhase = "on" /\ writing = NoFile /\ i \in DOMAIN configData
  /\ configData' = [configData EXCEPT ![i].label = l] /\ noted' = TRUE
  /\ UNCHANGED <<fileState, _bios_size_limit, _data_size_limit, envPhase, configCache, drawn,
                 envStarts, savedConfig, flashed>>

Flash(file, n) ==
  /\ envPhase = "on" /\ writing = NoFile
  /\ writing' = [file |-> file, content |-> n]
  /\ flashed' = [flashed EXCEPT ![file] = n]
  /\ UNCHANGED <<clientCfg, _bios_size_limit, _data_size_limit, envPhase, configData, configCache,
                 noted, drawn, envStarts, savedConfig>>

\* set: a negative limit, taken for a size_t, is none.
setBios(n) ==
  /\ _bios_size_limit < 0 \/ n <= _bios_size_limit
  /\ Flash("bios", n)
  /\ biosFile' = 0 /\ UNCHANGED dataFile

\* setData: under a negative limit nothing is taken.
setData(n) ==
  /\ _data_size_limit >= 0 /\ n <= _data_size_limit
  /\ Flash("data", n)
  /\ dataFile' = 0 /\ UNCHANGED biosFile

SettingsNext ==
  \/ StartClient \/ CloseClient \/ FinishWrite \/ ClientKilled
  \/ \E n \in Lengths : setBios(n) \/ setData(n)
  \/ \E i \in DOMAIN configData, l \in Labels : setLabel(i, l)

SettingsSpec == SettingsInit /\ [][SettingsNext]_settingsVars

-----------------------------------------------------------------------------
\* What Lua reads between quotes as it is written there.
Plain(label) ==
  label = NoLabel \/ IF IsBracketed(label) THEN label[1] # LineEnd
                     ELSE \A i \in DOMAIN label : label[i] \notin {Backslash, LineEnd}

\* A machine that starts finds what the last one left: every component under the
\* address that it had when the client was last closed, and with its label if that is
\* read as it is written, although only a configuration that differs is saved, and the
\* eeprom as it was last flashed; kills between starts lose nothing but a file that was
\* just being written.  While all labels are such a start does not fail.  (A client.cfg
\* that was emptied or does not parse is never written again: config.cpp:55,84.)
SettingsKept ==
  [][envStarts' # envStarts =>
       /\ savedConfig # NoFile /\ (\A i \in DOMAIN savedConfig : Plain(savedConfig[i].label)) =>
            envPhase' = "on"
       /\ envPhase' = "on" =>
            /\ savedConfig # NoFile =>
                 /\ DOMAIN configData' = DOMAIN savedConfig
                 /\ \A i \in DOMAIN savedConfig :
                      /\ configData'[i].address = savedConfig[i].address
                      /\ Plain(savedConfig[i].label) => configData'[i].label = savedConfig[i].label
            /\ flashed.bios # NoFile => biosFile' = flashed.bios
            /\ dataFile' = flashed.data]_settingsVars
=============================================================================
