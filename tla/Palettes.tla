------------------------------ MODULE Palettes ------------------------------
(***************************************************************************)
(* Palettes of the legacy scenes, and the names they are recognised by.    *)
(* The bulb keeps colours as hue (0-360), saturation and brightness        *)
(* (0-100); the catalogue and the code compare them as RGB (0-255).  Both  *)
(* conversions round, so neither is the inverse of the other.  They are    *)
(* computed here over integers: `int` truncates, `round` goes to the       *)
(* nearest, at a tie to the even one; the floating point of the code may   *)
(* fall on the other side of an exact tie or whole number.                 *)
(*                                                                         *)
(* A palette of RGB colours is a sequence of triples.  An effect of the    *)
(* catalogue is known by its uuid, and a catalogue file by the sequence of *)
(* the uuids of its entries.                                               *)
(***************************************************************************)
EXTENDS Integers, SequencesExt

CONSTANTS
  Effects,      \* uuids
  EffectName,   \* [Effects -> Names]
  EffectColors, \* [Effects -> sequences of HSB colours]: what the cloud says
  Names,
  NoName,       \* the empty name
  Queries,      \* names a user may type
  Equal,        \* the names that are what is typed, but for case
  Part,         \* the names that what is typed is a part of, but for case
  None

ASSUME PaletteAssumption ==
  /\ EffectName \in [Effects -> Names]
  /\ EffectColors \in [Effects -> Seq([hue : Nat, sat : Nat, bri : Nat])]
  /\ Equal \in [Queries \cup Effects -> SUBSET Names]
  /\ Part \in [Queries \cup Effects -> SUBSET Names]
  /\ \A q \in Queries \cup Effects : Equal[q] \subseteq Part[q]
  /\ None \notin Queries \cup Effects

\* The k-th of I in an order, a set of pairs.
Nth(I, Before, k) == CHOOSE i \in I : Cardinality({j \in I : <<j, i>> \in Before}) = k - 1
Ascending(I) == {p \in I \X I : p[1] < p[2]}
Chosen(s, I) == [k \in 1 .. Cardinality(I) |-> s[Nth(I, Ascending(I), k)]]

Round(n, d) ==
  LET q == (2 * n + d) \div (2 * d)
  IN IF (2 * n + d) % (2 * d) = 0 /\ q % 2 = 1 THEN q - 1 ELSE q

ToHsb(c) ==
  LET hi == Max(ToSet(c))
      d == hi - Min(ToSet(c))
      arc == CASE c[1] = hi -> 60 * (c[2] - c[3])
               [] c[2] = hi -> 120 * d + 60 * (c[3] - c[1])
               [] OTHER -> 240 * d + 60 * (c[1] - c[2])
  IN [hue |-> IF d = 0 THEN 0 ELSE Round(arc % (360 * d), d),
      sat |-> IF d = 0 THEN 0 ELSE Round(100 * d, hi),
      bri |-> Round(100 * hi, 255)]

FromHsb(k) ==
  LET f == k.hue % 60
      Byte(n) == (255 * n) \div 600000
      v == Byte(6000 * k.bri)
      p == Byte(60 * k.bri * (100 - k.sat))
      q == Byte(k.bri * (6000 - k.sat * f))
      t == Byte(k.bri * (6000 - k.sat * (60 - f)))
      sectors == << <<v, t, p>>, <<q, v, p>>, <<p, v, t>>, <<p, q, v>>, <<t, p, v>>, <<v, p, q>> >>
  IN sectors[((k.hue \div 60) % 6) + 1]

decode_palette_hex(p) == [i \in DOMAIN p |-> ToHsb(p[i])]
palette_to_hex(ks) == [i \in DOMAIN ks |-> FromHsb(ks[i])]

\* The colours that are not black, as many as the bulb takes.
Lit(ks) == Chosen(ks, {i \in DOMAIN ks : ks[i].bri > 0})
Shown(p, max) ==
  LET lit == Lit(decode_palette_hex(p))
  IN SubSeq(lit, 1, Min({Len(lit), max}))

normalize_scene_palette(p, max) == palette_to_hex(Shown(p, max))

\* The bulb's entries: a colour and, when the repeat bit is set, one more byte.
\* Each colour heads an entry, or joins that of the colour before if it is the same.
Packed(ks, compact) ==
  LET heads == {i \in DOMAIN ks : compact /\ i > 1 => ks[i] # ks[i - 1]}
      Run(i) == {j \in i .. Len(ks) : (i + 1 .. j) \cap heads = {}}
  IN [n \in 1 .. Cardinality(heads) |->
        LET i == Nth(heads, Ascending(heads), n)
        IN [color |-> ks[i], count |-> Cardinality(Run(i))]]
encode_palette_bytes(p, max, compact) == Packed(Shown(p, max), compact)

\* The decoder adds the byte to the one colour that is always there.
Times(entry) == 1 + (IF entry.count > 1 THEN entry.count ELSE 0)
parse_scene_palette(entries) ==
  palette_to_hex(FlattenSeq([i \in DOMAIN entries |->
                   [j \in 1 .. Times(entries[i]) |-> entries[i].color]]))

-----------------------------------------------------------------------------
(* The catalogue.                                                          *)

\* normalise_effect
Palette == [e \in Effects |-> palette_to_hex(EffectColors[e])]

\* Palettes that differ in the order of their colours.
SameColors(p, q) == ToBag(p) = ToBag(q)

Extends_OffByOne(p, q) == q # <<>> /\ IsStrictPrefix(Front(q), p)
Extends(p, q) == IsStrictPrefix(q, p)

\* What SceneLookup takes from a catalogue.
Indexed(db) == {i \in DOMAIN db : EffectName[db[i]] # NoName /\ Palette[db[i]] # <<>>}

\* The last entry of an exact or reordered palette counts, the first of a longer one.
resolve(db, p) ==
  LET named == Indexed(db)
      exact == {i \in named : Palette[db[i]] = p}
      sorted == {i \in named : SameColors(Palette[db[i]], p)}
      longer == {i \in named : Extends(Palette[db[i]], p)}
  IN CASE exact # {} -> db[Max(exact)]
       [] exact = {} /\ sorted # {} -> db[Max(sorted)]
       [] exact = {} /\ sorted = {} /\ longer # {} -> db[Min(longer)]
       [] OTHER -> None

\* An effect by its uuid, else by its name, else by a part of its name; None
\* when there is no such effect, or more than one.
find_scene_effect(db, q) ==
  LET Only(S) == IF Cardinality(S) = 1 THEN db[CHOOSE i \in S : TRUE] ELSE None
      exact == {i \in DOMAIN db : EffectName[db[i]] \in Equal[q]}
      part == {i \in DOMAIN db : EffectName[db[i]] \in Part[q]}
  IN CASE q \in ToSet(db) -> q
       [] q \notin ToSet(db) /\ exact # {} -> Only(exact)
       [] OTHER -> Only(part)
=============================================================================
