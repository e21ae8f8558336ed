----------------------------- MODULE MCDesktop ------------------------------
(* Machine for TLC with the devices its main thread serves: GpuCells, GpuBinding, *)
(* GpuColors, UnicodeText, TtyInput and ModemPorts; and ServerRelay, which takes    *)
(* packets from machine to machine.  They share no state with it or each other      *)
(* (that events become signals is Machine's own part), so a behaviour is one of     *)
(* any of them, chosen at the start.                                          *)
EXTENDS MCMachine, GpuCells, GpuBinding, GpuColors, UnicodeText, TtyInput, ModemPorts,
        ServerRelay

\* Cells: three columns and two rows, so that wide characters meet edges and each other;
\* copies overlap, start before the screen, end behind it, and at the largest int.
Line(x, t) == [at |-> <<x, 1>>, text |-> t, vertical |-> FALSE]
MCTexts == {Line(x, t) : x \in 0..2, t \in {<<"a">>, <<"W">>, <<"a", "W">>}}
           \cup {[at |-> <<3, 1>>, text |-> <<"W", "a">>, vertical |-> TRUE]}
MCFills == {[at |-> <<1, 1>>, size |-> <<2, 2>>, value |-> "W"],
            [at |-> <<2, 1>>, size |-> <<2, 1>>, value |-> "b"]}
Rectangle(x, y, w, h, dx, dy) == [x |-> x, y |-> y, width |-> w, height |-> h, dx |-> dx, dy |-> dy]
MCCopies == {Rectangle(1, 1, 2, 1, 1, 0), Rectangle(0, 1, 2, 1, 2, 0), Rectangle(1, 1, 3, 1, 0, 1),
             Rectangle(2, 0, 15, 1, -1, 0), Rectangle(-16, 1, 0, 2, 1, 0), Rectangle(1, 1, 2, 2, -1, 1),
             Rectangle(1, 1, 14, 1, 1, 0)}
MCFirstSize  == <<3, 2>>
MCFrameSizes == {<<3, 2>>, <<2, 2>>, <<3, 1>>}

\* Colours: of the palettes and of the cube, and two of neither.
MCRgbs    == {0, 3355443, 16763955, 65280, 986895, 16777215}
MCIndexes == {-1, 0, 3, 15, 16}

\* Text: the ends of the ranges of two and three bytes, and of what has a glyph.
MCFontWidth  == [c \in {32, 97, 127, 128, 2047, 2048, 4095, 4096, 20013, 65533, 65535} |->
                   IF c = 20013 THEN 2 ELSE 1]
MCCodePoints == DOMAIN MCFontWidth \cup {5, 65536 + 97}
MCTextBytes  == {97, 128, 195, 224, 228, 240, 252, 255}

\* Terminal: '@' is the shifted 2, Alt-a begins with Escape, and every byte of a mouse
\* report is a key as well.
Key(seq, code, mods) == [seq |-> seq, code |-> code, mods |-> mods]
MCKeyTable == {Key(<<97>>, 30, {}), Key(<<50>>, 3, {}), Key(<<64>>, 3, {"Shift"}), Key(<<27>>, 1, {}),
               Key(<<27, 97>>, 30, {"Alt"}), Key(<<35>>, 4, {"Shift"}), Key(<<32>>, 57, {}),
               Key(<<77>>, 50, {"Shift"}), Key(<<91>>, 26, {})}
Report(button) == <<27, 91, 77, button, 40, 40>>
MCPtyInputs == {<<97>>, <<64>>, Report(32), Report(35), Report(64)}
MCRawInputs == {<<42>>, <<170>>, <<3>>, <<131>>, <<224, 72>>}

\* Modems: arguments of every kind, up to the limit of two and of 21 bytes and beyond.
Nil == [type |-> "nil", value |-> "", len |-> 0]
True == [type |-> "boolean", value |-> "true", len |-> 1]
Number == [type |-> "number", value |-> "7", len |-> 0]
Text(n) == [type |-> "string", value |-> "s", len |-> n]
Function == [type |-> "function", value |-> "f", len |-> 0]
MCParts == {<<Nil, True>>, <<Number, Text(9)>>, <<Text(10), Number>>, <<Function>>, <<Nil, Nil, Nil>>}

\* Relay: three connections, so that one client can come back while the server still has
\* its old connection.
Symmetry == Permutations(Clients) \cup Permutations(Conns)

VARIABLE part

\* Of a part that is not looked at only one initial state is taken.
DesktopInit ==
  /\ part \in {"machine", "cells", "binding", "colors", "text", "tty", "modems", "relay"}
  /\ Init /\ GpuCellsInit /\ BindingInit /\ ColorsInit /\ TextInit /\ TtyInit /\ ModemsInit /\ RelayInit
  /\ part # "tty" => ~tty.raw /\ tty.mouse

DesktopNext ==
  /\ UNCHANGED part
  /\ \/ /\ part = "machine" /\ Next
        /\ UNCHANGED <<gpuCellVars, bindingVars, colorVars, text, ttyVars, modemVars, relayVars>>
     \/ /\ part = "cells" /\ GpuCellsNext
        /\ UNCHANGED <<vars, bindingVars, colorVars, text, ttyVars, modemVars, relayVars>>
     \/ /\ part = "binding" /\ BindingNext
        /\ UNCHANGED <<vars, gpuCellVars, colorVars, text, ttyVars, modemVars, relayVars>>
     \/ /\ part = "colors" /\ ColorsNext
        /\ UNCHANGED <<vars, gpuCellVars, bindingVars, text, ttyVars, modemVars, relayVars>>
     \/ /\ part = "text" /\ TextNext
        /\ UNCHANGED <<vars, gpuCellVars, bindingVars, colorVars, ttyVars, modemVars, relayVars>>
     \/ /\ part = "tty" /\ TtyNext
        /\ UNCHANGED <<vars, gpuCellVars, bindingVars, colorVars, text, modemVars, relayVars>>
     \/ /\ part = "modems" /\ ModemsNext
        /\ UNCHANGED <<vars, gpuCellVars, bindingVars, colorVars, text, ttyVars, relayVars>>
     \/ /\ part = "relay" /\ RelayNext
        /\ UNCHANGED <<vars, gpuCellVars, bindingVars, colorVars, text, ttyVars, modemVars>>
=============================================================================
