---------------------------- MODULE UnicodeText -----------------------------
(***************************************************************************)
(* The unicode library (apis/unicode.cpp), which the Gpu uses too: a text is   *)
(* bytes, cut into characters by their first bytes.                          *)
(***************************************************************************)
EXTENDS Integers, SequencesExt

CONSTANTS
  TextBytes, MaxText,   \* texts are made of these bytes, and of at most so many
  FontWidth,            \* columns of the characters that have a glyph, by code point
  CodePoints            \* arguments of char

ASSUME TextAssumption ==
  /\ TextBytes \subseteq 0..255 /\ MaxText \in Nat /\ CodePoints \subseteq Nat
  /\ 65533 \in DOMAIN FontWidth   \* the replacement character
  /\ \A c \in DOMAIN FontWidth : c \in Nat /\ FontWidth[c] \in Nat

VARIABLE text

(* UnicodeIt::next *)

\* Mutant: 0xEF counts as the first of four bytes.
nextEarly(t, start) ==
  LET c == t[start]
      step == CASE c <= 128 -> 1 [] c > 192 /\ c <= 224 -> 2 [] c > 224 /\ c < 239 -> 3
                [] c >= 239 /\ c <= 248 -> 4 [] c > 248 /\ c <= 252 -> 5 [] OTHER -> Len(t)
  IN  IF start + step <= Len(t) THEN start + step ELSE Len(t) + 1

\* The start of the next character: what begins with a byte that begins none goes to
\* the end of the text.
next(t, start) ==
  LET c == t[start]
      step == CASE c <= 128 -> 1 [] c > 192 /\ c <= 224 -> 2 [] c > 224 /\ c <= 240 -> 3
                [] c > 240 /\ c <= 248 -> 4 [] c > 248 /\ c <= 252 -> 5 [] OTHER -> Len(t)
  IN  IF start + step <= Len(t) THEN start + step ELSE Len(t) + 1

\* UnicodeIterator: the characters, from the first byte to the end.
subs(t) ==
  LET cut[n \in 0..Len(t)] ==
        IF n = 0 THEN [start |-> 1, all |-> <<>>]
        ELSE LET r == cut[n - 1]
             IN  IF r.start > Len(t) THEN r
                 ELSE [start |-> next(t, r.start),
                       all |-> Append(r.all, SubSeq(t, r.start, next(t, r.start) - 1))]
  IN  cut[Len(t)].all

len(t) == Len(subs(t))

\* Only the first bytes of a character decide how many bytes belong to it here.
Lead(n) == CASE n = 2 -> 192..223 [] n = 3 -> 224..239 [] n = 4 -> 240..247
             [] n = 5 -> 248..251 [] n = 6 -> 252..253
Payload(n) == CASE n = 2 -> 32 [] n = 3 -> 16 [] n = 4 -> 8 [] n = 5 -> 4 [] n = 6 -> 2

tocodepoint(t) ==
  LET n == CHOOSE k \in 2..6 : t[1] \in Lead(k)
      bits[i \in 1..6] == IF i = 1 THEN t[1] % Payload(n) ELSE (bits[i - 1] * 64) + (t[i] % 64)
  IN  CASE t = <<>> -> 0
        [] t # <<>> /\ \A k \in 2..6 : t[1] \notin Lead(k) -> t[1]
        [] OTHER -> IF Len(t) < n THEN 0 ELSE bits[n]

charWidthOf(c) == IF tocodepoint(c) \in DOMAIN FontWidth THEN FontWidth[tocodepoint(c)] ELSE 1

wlen(t) ==
  LET all == subs(t)
      width[n \in 0..Len(all)] == IF n = 0 THEN 0 ELSE width[n - 1] + charWidthOf(all[n])
  IN  width[Len(all)]

\* All characters that end before the column.
wtrunc(t, width) ==
  LET all == subs(t)
      kept[n \in 0..Len(all)] ==
        IF n = 0 THEN [width |-> 0, text |-> <<>>]
        ELSE LET w == kept[n - 1].width + charWidthOf(all[n])
             IN  [width |-> w, text |-> IF w < width THEN kept[n - 1].text \o all[n] ELSE kept[n - 1].text]
  IN  kept[Len(all)].text

\* Places count from 1, and from -1 back.
sub(t, first, last) ==
  LET n == len(t)
      from == CASE first = 0 -> 1 [] first < 0 -> (IF first + n + 1 > 1 THEN first + n + 1 ELSE 1)
                [] OTHER -> first
      to == IF last < 0 THEN last + n + 1 ELSE IF last < n THEN last ELSE n
  IN  IF last = 0 THEN <<>> ELSE FlattenSeq(SubSeq(subs(t), from, to))

reverse(t) == FlattenSeq(Reverse(subs(t)))

\* 16 bits are looked at, and what has no glyph is replaced.
tochar(codepoint) ==
  LET c == IF codepoint % 65536 \in DOMAIN FontWidth THEN codepoint % 65536 ELSE 65533
  IN  CASE c < 128 -> <<c>>
        [] c >= 128 /\ c < 2048 -> <<192 + ((c \div 64) % 32), 128 + (c % 64)>>
        [] OTHER -> <<224 + ((c \div 4096) % 16), 128 + ((c \div 64) % 64), 128 + (c % 64)>>

-----------------------------------------------------------------------------
\* Texts as Lua may pass them: any bytes.
TextInit == text = <<>>
TextNext == Len(text) < MaxText /\ \E b \in TextBytes : text' = Append(text, b)

\* Nothing is lost or doubled where a text is cut: its characters, in the order they
\* come, are the text, well formed or not; two subs that meet at a place are the text,
\* and what wtrunc answers is the longest beginning that ends before the column.
TextKept ==
  LET all == subs(text)
  IN  /\ FlattenSeq(all) = text /\ \A i \in DOMAIN all : all[i] # <<>>
      /\ (\A i \in DOMAIN all, b \in TextBytes : subs(Append(all[i], b))[1] = all[i])
           => reverse(reverse(text)) = text
      /\ \A i \in (-(MaxText + 1))..(MaxText + 1) \ {-1} :
           sub(text, 1, i) \o sub(text, i + 1, -1) = text
      /\ \A w \in 1..(2 * MaxText) : \E n \in 0..Len(all) :
           /\ wtrunc(text, w) = FlattenSeq(SubSeq(all, 1, n))
           /\ wlen(FlattenSeq(SubSeq(all, 1, n))) < w
           /\ n = Len(all) \/ wlen(FlattenSeq(SubSeq(all, 1, n + 1))) >= w

\* What char makes of a code point with a glyph is read back as that code point, and as
\* one character: but for U+0800 to U+0FFF, which start with 0xE0 and are cut in two
\* (unicode.cpp:437).
CharsReadBack ==
  \A c \in CodePoints :
    c \in DOMAIN FontWidth /\ c < 65536 =>
      /\ tocodepoint(tochar(c)) = c
      /\ c \notin 2048..4095 => subs(tochar(c) \o text)[1] = tochar(c)

\* Text survives being cut and being made, whatever bytes Lua passes.
TextIsSound == TextKept /\ CharsReadBack
=============================================================================
