------------------------------ MODULE Geometry ------------------------------
(***************************************************************************)
(* namespace Matrix: vectors, and the rotations the turtles make.          *)
(*                                                                         *)
(* Numbers are whole and angles are quarter turns, so that everything is   *)
(* exact; the code has doubles, 3.14 for pi, and any angle.  What is       *)
(* rotated about lies along a coordinate axis.  Where a turn ends is       *)
(* therefore not what the code computes, and no property of a run is about *)
(* it: the products and sums are those of the code, the turns stand for    *)
(* some change of direction.                                               *)
(***************************************************************************)
EXTENDS Integers, Sequences

Zero == <<0, 0, 0>>

(* A cosine and a sine, of q quarter turns *)
Cos(q) == CASE q % 4 = 0 -> 1 [] q % 4 = 2 -> -1 [] OTHER -> 0
Sin(q) == Cos(q - 1)

(* Element by element.  (All vectors have three.) *)
matrixAdd(v, w) == <<v[1] + w[1], v[2] + w[2], v[3] + w[3]>>
Scaled(v, n) == <<v[1] * n, v[2] * n, v[3] * n>>
Minus(v, w) == <<v[1] - w[1], v[2] - w[2], v[3] - w[3]>>

Dot(v, w) == v[1] * w[1] + v[2] * w[2] + v[3] * w[3]

(* Three rows, each times the vector *)
vector3MultMatrix(v, m) == <<Dot(m[1], v), Dot(m[2], v), Dot(m[3], v)>>

vector3RotateY(v, q) ==
    vector3MultMatrix(v, << <<Cos(q), 0, -Sin(q)>>, <<0, 1, 0>>, <<Sin(q), 0, Cos(q)>> >>)

(* What isParallel says: not that the axis is parallel to the vector, but  *)
(* that it has no length.  The vector is not rotated then.                 *)
NoAxis(axis) == axis = Zero

(* What the axis over its length is in a coordinate *)
Sign(n) == IF n > 0 THEN 1 ELSE IF n < 0 THEN -1 ELSE 0

(* The matrix of the code, times the vector: what lies along the axis      *)
(* stays, what is across it turns.                                         *)
vector3Rotate(v, axis, q) ==
    LET n(i) == Sign(axis[i])
        along == n(1) * v[1] + n(2) * v[2] + n(3) * v[3]
        turned(i, j, k) == Cos(q) * v[i] + Sin(q) * (n(j) * v[k] - n(k) * v[j])
                             + (1 - Cos(q)) * along * n(i)
    IN IF NoAxis(axis) THEN v
       ELSE <<turned(1, 2, 3), turned(2, 3, 1), turned(3, 1, 2)>>

(* The code's y has the other sign than that of a cross product. *)
vectorCrossProduct(v, w) ==
    <<v[2] * w[3] - v[3] * w[2], v[1] * w[3] - v[3] * w[1], v[1] * w[2] - v[2] * w[1]>>
=============================================================================
