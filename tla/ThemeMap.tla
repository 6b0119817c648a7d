------------------------------ MODULE ThemeMap ------------------------------
(***************************************************************************)
(* hslToHex of theme-map.ts, for hues in whole degrees and saturation and  *)
(* lightness in whole percents.  The real numbers of the code are counted  *)
(* in Units of one, so nothing is rounded before the code rounds; where    *)
(* the exact value is half way, JavaScript's doubles may round otherwise.  *)
(***************************************************************************)
EXTENDS Integers

Units == 1200000

Clamped(low, high, x) == IF x < low THEN low ELSE IF x > high THEN high ELSE x
Abs(x) == IF x < 0 THEN -x ELSE x

\* Mutant: the sector of the hue keeps its place.
channelsUnturned(h, c, x) ==
    IF h < 60 THEN <<c, x, 0>> ELSE IF h < 120 THEN <<x, c, 0>> ELSE IF h < 180 THEN <<0, c, x>>
    ELSE IF h < 240 THEN <<0, c, x>> ELSE IF h < 300 THEN <<x, 0, c>> ELSE <<c, 0, x>>

\* The six sectors of the wheel.
channels(h, c, x) ==
    IF h < 60 THEN <<c, x, 0>> ELSE IF h < 120 THEN <<x, c, 0>> ELSE IF h < 180 THEN <<0, c, x>>
    ELSE IF h < 240 THEN <<0, x, c>> ELSE IF h < 300 THEN <<x, 0, c>> ELSE <<c, 0, x>>

\* Math.round(n * 255)
Byte(n) == (n * 510 + Units) \div (2 * Units)

hslToHex(hue, saturation, lightness) ==
    LET h == ((hue % 360) + 360) % 360
        s == Clamped(0, 100, saturation)
        l == Clamped(0, 100, lightness)
        c == (100 - Abs(2 * l - 100)) * s * 120
        x == (100 - Abs(2 * l - 100)) * s * 2 * (60 - Abs((h % 120) - 60))
        m == l * 12000 - c \div 2
    IN  [i \in 1..3 |-> Byte(channels(h, c, x)[i] + m)]

-----------------------------------------------------------------------------
(* The definition that CSS Color 4 gives: channel n of red 0, green 8, blue 4. *)

Least(S) == CHOOSE x \in S : \A y \in S : x <= y
Greatest(S) == CHOOSE x \in S : \A y \in S : y <= x

CssChannel(n, h, s, l) ==
    LET k == (30 * n + h) % 360
        a == s * Least({l, 100 - l})
    IN  l * 12000 - a * 4 * Greatest({-30, Least({k - 90, 270 - k, 30})})

\* theme-map.ts 52-102: the colour is the one CSS means, for a hue turned any number
\* of times and saturation and lightness out of range.
HslIsCss(h, s, l) ==
    hslToHex(h, s, l) =
        [i \in 1..3 |-> Byte(CssChannel(<<0, 8, 4>>[i], h % 360, Clamped(0, 100, s), Clamped(0, 100, l)))]
=============================================================================
