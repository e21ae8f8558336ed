----------------------------- MODULE GpuColors ------------------------------
(***************************************************************************)
(* The colours of a Gpu: color/color_map.cpp, and the calls of                *)
(* components/gpu.cpp that change a depth, a palette or the colour of a cell.  *)
(* One cell and one of its two colours stand for all: none depends on another. *)
(* Distances are exact here and rounded to doubles in the code.               *)
(***************************************************************************)
EXTENDS Integers, FiniteSetsExt

CONSTANTS
  Rgbs,         \* what Lua passes as a colour
  Indexes,      \* and as a palette index
  Monochrome,   \* the colour of depth 1
  MaxColorCalls \* bound

VARIABLES
  color,     \* ColorState: depth and palette, an array of 16
  ground,    \* _fg: the colour that is drawn with
  cellColor, \* the colour of a cell: an index, and whether it was set as one
  colorCalls

colorVars == <<color, ground, cellColor, colorCalls>>

PALETTE_SIZE == 16
Reds == 6
Greens == 8
Blues == 5

Red(c)   == (c \div 65536) % 256
Green(c) == (c \div 256) % 256
Blue(c)  == c % 256
Rgb(r, g, b) == r * 65536 + g * 256 + b

ASSUME ColorAssumption ==
  /\ Rgbs \subseteq 0..Rgb(255, 255, 255) /\ Indexes \subseteq Int
  /\ Monochrome \in Nat /\ MaxColorCalls \in Nat

delta(a, b) == (2126 * (Red(a) - Red(b)) * (Red(a) - Red(b))
                + 7152 * (Green(a) - Green(b)) * (Green(a) - Green(b))
                + 722 * (Blue(a) - Blue(b)) * (Blue(a) - Blue(b))) \div 10000

\* Step i of n from 0 to 255, and the step nearest to a value.
Level(i, n) == (510 * i + n - 1) \div (2 * (n - 1))
StepOf(v, n)  == (2 * v * (n - 1) + 255) \div 510

\* What is read at a place of the palette: behind it lies the depth.
Entry(state, i) == IF i = PALETTE_SIZE THEN state.depth ELSE state.palette[i]

\* The three formats: what the index of a cell stands for.
inflate1(v) == IF v = 0 THEN 0 ELSE Monochrome

inflate4(state, v) == Entry(state, CASE v < 0 -> 0 [] v > PALETTE_SIZE -> PALETTE_SIZE [] OTHER -> v)

isFromPalette(v) == v \in 0..PALETTE_SIZE

inflate8(state, v) ==
  LET index == v - PALETTE_SIZE
  IN  IF isFromPalette(v) THEN inflate4(state, v)
      ELSE Rgb(Level((index \div (Blues * Greens)) % Reds, Reds), Level((index \div Blues) % Greens, Greens),
               Level(index % Blues, Blues))

\* ColorMap::inflate
inflate(state, v) ==
  CASE state.depth = 1 -> inflate1(v)
    [] state.depth = 4 -> inflate4(state, v)
    [] state.depth = 8 -> inflate8(state, v)

\* And the index of a colour.
deflateCube(c) == (PALETTE_SIZE + StepOf(Red(c), Reds) * Greens * Blues
                   + StepOf(Green(c), Greens) * Blues + StepOf(Blue(c), Blues)) % 256

\* The first entry of the palette with the smallest distance.
Nearest(state, c) ==
  Min({delta(state.palette[i], c) * PALETTE_SIZE + i : i \in 0..(PALETTE_SIZE - 1)}) % PALETTE_SIZE

deflate1(c) == IF c.rgb = 0 THEN 0 ELSE 1

deflate4(state, c) == IF c.paletted THEN (IF c.rgb > 0 THEN c.rgb ELSE 0) % PALETTE_SIZE
                      ELSE Nearest(state, c.rgb)

\* Mutant: of the two the colour that is further away.
deflate8Further(state, c) ==
  LET best == deflate4(state, c)
      cube == deflateCube(c.rgb)
  IN  IF c.paletted \/ delta(inflate(state, cube), c.rgb) < delta(inflate(state, best), c.rgb)
      THEN best ELSE cube

deflate8(state, c) ==
  LET best == deflate4(state, c)
      cube == deflateCube(c.rgb)
  IN  IF c.paletted \/ delta(inflate(state, cube), c.rgb) > delta(inflate(state, best), c.rgb)
      THEN best ELSE cube

\* ColorMap::deflate
deflate(state, c) ==
  CASE state.depth = 1 -> deflate1(c)
    [] state.depth = 4 -> deflate4(state, c)
    [] state.depth = 8 -> deflate8(state, c)

Palette4 == <<Rgb(255, 255, 255), Rgb(255, 204, 51), Rgb(204, 102, 204), Rgb(102, 153, 255),
              Rgb(255, 255, 51), Rgb(51, 204, 51), Rgb(255, 102, 153), Rgb(51, 51, 51),
              Rgb(204, 204, 204), Rgb(51, 102, 153), Rgb(153, 51, 204), Rgb(51, 51, 153),
              Rgb(102, 51, 0), Rgb(51, 102, 0), Rgb(255, 51, 51), Rgb(0, 0, 0)>>
Grey(i)  == LET shade == (255 * (i + 1)) \div (PALETTE_SIZE + 1) IN Rgb(shade, shade, shade)

\* initialize_color_state; depth 1 leaves the palette as it is.
initialize_color_state(state, depth) ==
  [depth |-> depth,
   palette |-> [i \in 0..(PALETTE_SIZE - 1) |->
                  CASE depth = 4 -> Palette4[i + 1] [] depth = 8 -> Grey(i) [] OTHER -> state.palette[i]]]

InitialColors == initialize_color_state([palette |-> <<>>], 8)

\* bind leaves blank cells of the two default colours.
ColorsInit ==
  /\ color = InitialColors
  /\ ground = [rgb |-> Rgb(255, 255, 255), paletted |-> FALSE]
  /\ cellColor = [rgb |-> deflate(InitialColors, ground), paletted |-> FALSE]
  /\ colorCalls = 0

ColorCall == colorCalls < MaxColorCalls /\ colorCalls' = colorCalls + 1

\* setForeground, setBackground
SetGround(rgb, p) ==
  /\ ColorCall
  /\ p => color.depth # 1 /\ rgb \in 0..(PALETTE_SIZE - 1)
  /\ ground' = [rgb |-> rgb, paletted |-> p]
  /\ UNCHANGED <<color, cellColor>>

\* set and fill, of the cell.
DrawCell ==
  /\ ColorCall
  /\ cellColor' = [ground EXCEPT !.rgb = deflate(color, ground)]
  /\ UNCHANGED <<color, ground>>

\* inflate_all and deflate_all, around a change of the colour state.
Recoloured(c, from, to) ==
  [c EXCEPT !.rgb = deflate(to, [c EXCEPT !.rgb = inflate(from, c.rgb)])]

SetDepth(bits) ==
  /\ ColorCall /\ bits # color.depth
  /\ color' = initialize_color_state(color, bits)
  /\ cellColor' = Recoloured(cellColor, color, color')
  /\ UNCHANGED ground

SetPaletteColor(i, rgb) ==
  /\ ColorCall
  /\ color.depth # 1 /\ i \in 0..(PALETTE_SIZE - 1) /\ color.palette[i] # rgb
  /\ color' = [color EXCEPT !.palette[i] = rgb]
  /\ cellColor' = Recoloured(cellColor, color, color')
  /\ UNCHANGED ground

\* bind to another screen, whose frame has a depth of 8: the cells stay as they are.
Rebind == ColorCall /\ color' = initialize_color_state(color, 8) /\ UNCHANGED <<ground, cellColor>>

ColorsNext ==
  \/ \E rgb \in Rgbs : SetGround(rgb, FALSE)
  \/ \E i \in Indexes : SetGround(i, TRUE) \/ \E rgb \in Rgbs : SetPaletteColor(i, rgb)
  \/ \E bits \in {1, 4, 8} : SetDepth(bits)
  \/ DrawCell \/ Rebind

-----------------------------------------------------------------------------
\* The colour that get answers (makeColorContext).
ColorOf(state, c) == IF c.paletted /\ state.depth = 8 THEN c.rgb ELSE inflate(state, c.rgb)

\* A change of one palette entry leaves the cells that do not use it in colours that
\* cannot be told from what they were, although every cell on the screen is converted
\* to a colour and back.
OthersKeepTheirColour ==
  [][\A i \in Indexes, rgb \in Rgbs :
       SetPaletteColor(i, rgb) /\ ~cellColor.paletted /\ cellColor.rgb # i =>
       delta(ColorOf(color, cellColor), ColorOf(color', cellColor')) = 0]_colorVars
=============================================================================
