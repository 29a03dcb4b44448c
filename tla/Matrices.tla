------------------------------ MODULE Matrices ------------------------------
(***************************************************************************)
(* The 4x4 matrices of VRMath on whole numbers: sixteen elements, column   *)
(* after column, as they are stored and as a tracker event carries them.   *)
(* Angles are quarter turns and the axes of rotations are parallel to those*)
(* of the room, so that nothing is rounded and == needs no tolerance.      *)
(***************************************************************************)
EXTENDS Integers, Sequences

Plus(v, w) == [i \in 1..3 |-> v[i] + w[i]]
Minus(v, w) == [i \in 1..3 |-> v[i] - w[i]]
Times(s, v) == [i \in 1..3 |-> s * v[i]]
Dot(v, w) == v[1] * w[1] + v[2] * w[2] + v[3] * w[3]
Cross(v, w) == <<v[2] * w[3] - v[3] * w[2], v[3] * w[1] - v[1] * w[3], v[1] * w[2] - v[2] * w[1]>>

Signum(n) == IF n > 0 THEN 1 ELSE IF n < 0 THEN -1 ELSE 0

\* Of a vector along an axis; nothing is done to the zero vector.
Normalize(v) == [i \in 1..3 |-> Signum(v[i])]

-----------------------------------------------------------------------------
At(m, r, c) == m[4 * c + r + 1]
FromRowMajorElements(e) == [i \in 1..16 |-> e[4 * ((i - 1) % 4) + ((i - 1) \div 4) + 1]]
Matrix(Element(_, _)) == [i \in 1..16 |-> Element((i - 1) % 4, (i - 1) \div 4)]

Identity == [i \in 1..16 |-> IF i \in {1, 6, 11, 16} THEN 1 ELSE 0]
GetColumn(m, c) == SubSeq(m, 4 * c + 1, 4 * c + 3)

Translation(v) == FromRowMajorElements(<<1, 0, 0, v[1],
                                         0, 1, 0, v[2],
                                         0, 0, 1, v[3],
                                         0, 0, 0, 1>>)

Cos(q) == <<1, 0, -1, 0>>[(q % 4) + 1]
Sin(q) == <<0, 1, 0, -1>>[(q % 4) + 1]
RotationX(q) == FromRowMajorElements(<<1, 0, 0, 0,
                                       0, Cos(q), -Sin(q), 0,
                                       0, Sin(q), Cos(q), 0,
                                       0, 0, 0, 1>>)
RotationY(q) == FromRowMajorElements(<<Cos(q), 0, Sin(q), 0,
                                       0, 1, 0, 0,
                                       -Sin(q), 0, Cos(q), 0,
                                       0, 0, 0, 1>>)
RotationZ(q) == FromRowMajorElements(<<Cos(q), -Sin(q), 0, 0,
                                       Sin(q), Cos(q), 0, 0,
                                       0, 0, 1, 0,
                                       0, 0, 0, 1>>)

Product(m1, m2) ==
    LET element(r, c) == At(m1, r, 0) * At(m2, 0, c) + At(m1, r, 1) * At(m2, 1, c)
                         + At(m1, r, 2) * At(m2, 2, c) + At(m1, r, 3) * At(m2, 3, c)
    IN  Matrix(element)
TimesVector(m, v) ==
    [r \in 1..3 |-> v[1] * At(m, r - 1, 0) + v[2] * At(m, r - 1, 1) + v[3] * At(m, r - 1, 2)]

\* Quarter turns from the x axis to <<x, y>>, which lies on an axis or is zero.
Atan2(y, x) == IF y > 0 THEN 1 ELSE IF y < 0 THEN -1 ELSE IF x < 0 THEN 2 ELSE 0

\* About the line through p along v: take p to the origin and v to the x axis.
Rotation(p, v, q) ==
    LET theta == Atan2(v[3], v[1])
        phi   == -Atan2(v[2], v[1] * v[1] + v[3] * v[3])
        there == Product(RotationZ(phi), Product(RotationY(theta), Translation(Times(-1, p))))
        back  == Product(Translation(p), Product(RotationY(-theta), RotationZ(-phi)))
    IN  Product(back, Product(RotationX(q), there))

\* The first two columns decide, along axes: of the second what is across the first.
\* The elements are written row after row, but the others are taken column after
\* column: the translation becomes the bottom row and the bottom row the translation.
Orthonormal(m) ==
    LET x == Normalize(GetColumn(m, 0))
        y == Normalize(Minus(GetColumn(m, 1), Times(Dot(GetColumn(m, 1), x), x)))
        z == Normalize(Cross(x, y))
    IN  FromRowMajorElements(<<x[1], y[1], z[1], m[4],
                               x[2], y[2], z[2], m[8],
                               x[3], y[3], z[3], m[12],
                               m[13], m[14], m[15], m[16]>>)

Transpose(m) == LET element(r, c) == At(m, c, r) IN Matrix(element)

-----------------------------------------------------------------------------
(* Inversion by cofactors.                                                 *)

\* The n-th index, from 0, when one is excluded.
Kept(n, excluded) == IF n < excluded THEN n ELSE n + 1
SubDeterminant(m, r, c) ==
    LET e(i, j) == At(m, Kept(i, r), Kept(j, c))
        minor(j, k) == e(1, j) * e(2, k) - e(1, k) * e(2, j)
    IN  e(0, 0) * minor(1, 2) - e(0, 1) * minor(0, 2) + e(0, 2) * minor(0, 1)
Cofactor(m) ==
    LET element(r, c) == (IF (r + c) % 2 = 0 THEN 1 ELSE -1) * SubDeterminant(m, r, c)
    IN  Matrix(element)
Determinant(m) ==
    LET C == Cofactor(m)
    IN  At(C, 0, 0) * At(m, 0, 0) + At(C, 0, 1) * At(m, 0, 1)
        + At(C, 0, 2) * At(m, 0, 2) + At(C, 0, 3) * At(m, 0, 3)
TimesScalar(m, s) == [i \in 1..16 |-> m[i] * s]

\* Of a matrix with determinant 1 or -1, its own reciprocal; of a singular one, the identity.
Inverted(m) ==
    IF Determinant(m) = 0 THEN Identity
    ELSE TimesScalar(Transpose(Cofactor(m)), Determinant(m))
=============================================================================
