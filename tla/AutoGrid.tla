------------------------------ MODULE AutoGrid ------------------------------
(***************************************************************************)
(* AutoGrid (libqt/ui/autogrid.cpp): a widget that draws as many lines as   *)
(* fit between its margins, and MyGrid (examples/autogrid), which places    *)
(* labels beside the lines with the getters.                                *)
(*                                                                          *)
(* The horizontal lines ("h") lie along the height, the vertical ones ("w") *)
(* along the width; both follow the same code, written twice.  The distance *)
(* of the lines is a double, grid / num: atom keeps both numbers.  Where it *)
(* is not exact, a product that should be a whole number may come out just  *)
(* below or above it, and the conversion to int cuts: the operators below   *)
(* give the set of the pixels the build can produce.                        *)
(***************************************************************************)
EXTENDS Integers

CONSTANTS
    GridSizes,       \* sizes the layout gives to the widget
    GridMargins,     \* values clients set
    GridMins,
    GridNums,
    MaxSetters       \* bound: setter calls between two resizeEvents

ASSUME GridValuesAssumption ==
    GridSizes \cup GridMargins \cup GridMins \cup GridNums \subseteq Int

VARIABLES
    axis,            \* the members of each direction
    setters,         \* setter calls since the last resizeEvent; the constructor is one
    hung             \* a resizeEvent never returns

gridVars == <<axis, setters, hung>>

Axes == {"h", "w"}

\* The constructor leaves size, grid and num as memory has them; Qt resizes a
\* widget before it paints it.
Member(margin, min) == [lead |-> margin, trail |-> margin, size |-> 0, grid |-> 0,
                        atom |-> [n |-> min, d |-> 1], num |-> 0, min |-> min]

GridInit ==
    /\ axis = [a \in Axes |-> IF a = "h" THEN Member(20, 60) ELSE Member(80, 640)]
    /\ setters = 1
    /\ hung = FALSE

\* Mutant of Turns: the loop goes on while anything is left.
TurnsToTheEnd(g, m) ==
    IF g > 0
    THEN CHOOSE n \in 1 .. g : g - n * m =< 0 /\ \A k \in 0 .. n - 1 : g - k * m > 0
    ELSE 0

\* The turns of the loop: height loses the minimum while two of them fit.
Turns(g, m) ==
    IF g - m > m
    THEN CHOOSE n \in 1 .. g :
            /\ g - n * m - m =< m
            /\ \A k \in 0 .. n - 1 : g - k * m - m > m
    ELSE 0

\* With a minimum of zero or less the loop does not end.
Endless(x) == x.min =< 0 /\ x.grid - x.min > x.min

\* calAtomGridHeight(), calAtomGridWidth(): num may be 0, and the distance
\* infinite or not a number.
Cal(x) == LET n == Turns(x.grid, x.min) IN [x EXCEPT !.num = n, !.atom = [n |-> x.grid, d |-> n]]

\* resizeEvent().
Resize(height, width) ==
    LET to == [a \in Axes |-> LET s == IF a = "h" THEN height ELSE width
                              IN  [axis[a] EXCEPT !.size = s,
                                                  !.grid = s - axis[a].lead - axis[a].trail]]
    IN  /\ ~ hung
        /\ hung' = \E a \in Axes : Endless(to[a])
        /\ axis' = IF hung' THEN to ELSE [a \in Axes |-> Cal(to[a])]
        /\ setters' = 0

\* The setters change one member and compute nothing.
Set(a, member, value) ==
    /\ ~ hung
    /\ setters < MaxSetters
    /\ setters' = setters + 1
    /\ axis' = [axis EXCEPT ![a][member] = value]
    /\ UNCHANGED hung

SetMargin == \E a \in Axes, v \in GridMargins : Set(a, "lead", v) \/ Set(a, "trail", v)
SetGridNum == \E a \in Axes, v \in GridNums : Set(a, "num", v)
SetAtomGridMin == \E a \in Axes, v \in GridMins : Set(a, "min", v)

GridNext ==
    \/ \E h, w \in GridSizes : Resize(h, w)
    \/ SetMargin \/ SetGridNum \/ SetAtomGridMin

-----------------------------------------------------------------------------
(* paintEvent(): it only reads.                                             *)

\* A double that is infinite or not a number has no int.
Drawable(x) == x.atom.d # 0

\* i * atom, as far as the int that is made of it: the whole part, or one of
\* its neighbours where the exact product is whole and the quotient is not.
Whole(x, i)   == (i * x.atom.n) \div x.atom.d
Blurred(x, i) == i > 0 /\ (i * x.atom.n) % x.atom.d = 0 /\ x.atom.n % x.atom.d # 0

\* The places of line i of drawHorLine() and drawVerLine(), i in 0 .. num.
LineAt(x, i) ==
    LET p == x.lead + Whole(x, i) IN IF Blurred(x, i) THEN {p - 1, p} ELSE {p}

\* Where the lines of the other direction end.
FrameEnd(x) == x.size - x.trail

\* The places of label i of MyGrid::paintEvent(), counted from below.
LabelAt(x, i) ==
    LET p == FrameEnd(x) - Whole(x, i)
    IN  IF Blurred(x, i) THEN {p - 1, p}
        ELSE IF (i * x.atom.n) % x.atom.d = 0 THEN {p} ELSE {p - 1}

-----------------------------------------------------------------------------
(* Properties                                                               *)

\* After any resizeEvent, whatever setters came before it: if more than two
\* minimal cells fit, the lines can be drawn, they are more than the minimum
\* (less one pixel of rounding) and at most three minima apart, the first lies on
\* the margin, the last where the lines of the other direction end or one
\* pixel before, and MyGrid's labels are a pixel from their lines, at most.
LinesFit ==
    \A a \in Axes :
        LET x == axis[a]
        IN  setters = 0 /\ ~ hung /\ x.grid > 2 * x.min =>
              /\ x.num > 0 /\ Drawable(x)
              /\ LineAt(x, 0) = {x.lead}
              /\ LineAt(x, x.num) \subseteq {FrameEnd(x) - 1, FrameEnd(x)}
              /\ \A i \in 1 .. x.num :
                    \A p \in LineAt(x, i - 1), q \in LineAt(x, i) :
                        q - p > x.min - 2 /\ q - p =< 3 * x.min + 1
              /\ \A i \in 0 .. x.num :
                    \A p \in LabelAt(x, i), q \in LineAt(x, x.num - i) : p - q \in -1 .. 1
=============================================================================
