----------------------------- MODULE MCControl -----------------------------
EXTENDS Control

Types == [v \in {"i", "j", "k", "n", "b"} |-> IF v = "b" THEN "BYTE" ELSE "INTEGER"]
Starts == { [i |-> 0, j |-> 0, k |-> 0, n |-> k, b |-> k] : k \in {0, 2, 3} }

Do(k) == [k |-> "do", n |-> k]
Add(v, by) == [k |-> "add", v |-> v, by |-> by]
If(arms, els) == [k |-> "if", arms |-> arms, els |-> els]
While(arms) == [k |-> "while", arms |-> arms]
Repeat(body, c) == [k |-> "repeat", body |-> body, until |-> c]
For(v, lo, hi, by, body) == [k |-> "for", v |-> v, lo |-> lo, hi |-> hi, by |-> by,
                             body |-> body]
Case(v, arms, els) == [k |-> "case", v |-> v, arms |-> arms, els |-> els]
Arm(c, body) == [test |-> c, body |-> body]
On(labels, body) == [labels |-> labels, body |-> body]
Var(v) == [k |-> "var", v |-> v]
Const(k) == [k |-> "const", n |-> k]

A(k) == [k |-> "atom", n |-> k]
Not(x) == [k |-> "not", x |-> x]
And(x, y) == [k |-> "and", x |-> x, y |-> y]
Or(x, y) == [k |-> "or", x |-> x, y |-> y]

(* The shapes of a condition whose atoms are p, p + 1 and p + 2. *)
Conditions(p) ==
    { A(p), Not(A(p)), And(A(p), A(p + 1)), Or(A(p), A(p + 1)),
      Or(And(A(p), A(p + 1)), A(p + 2)), And(A(p), Or(A(p + 1), A(p + 2))),
      Not(And(A(p), Not(A(p + 1)))) }

(* Loops up and down; one over a BYTE stays in the half where the sign does  *)
(* not show. *)
Fors(body) ==
    { For("i", Const(lo), hi, by, body) : lo \in {0, 2}, hi \in {Const(2), Var("n")},
                                          by \in {1, 2, -1} }
    \cup { For("b", Const(lo), hi, by, body) : lo \in {0, 2}, hi \in {Const(2), Var("n")},
                                               by \in {1, 2} }
    \cup { For("b", Const(2), Const(1), -1, body) }

Cases(b1, b2, b3) ==
    { Case(v, arms, els) :
        v \in {"n", "b"}, els \in { << >>, b3 },
        arms \in { << On(<< << 1, 1 >> >>, b1) >>,
                   << On(<< << 0, 0 >>, << 2, 3 >> >>, b1), On(<< << 1, 2 >> >>, b2) >>,
                   << On(<< << 1, 1 >>, << 3, 3 >> >>, b1), On(<< << 2, 2 >> >>, b2) >> } }

(* One statement of each kind, around the given bodies; p tells its atoms    *)
(* from those of the others, and v is the variable of its FOR. *)
Around(b1, b2, b3, p, v) ==
    { If(<< Arm(A(p), b1) >>, << >>), If(<< Arm(A(p), b1) >>, b2),
      If(<< Arm(A(p), b1), Arm(A(p + 1), b2) >>, b3),
      While(<< Arm(A(p), b1) >>), While(<< Arm(A(p), b1), Arm(A(p + 1), b2) >>),
      Repeat(b1, A(p)), For(v, Const(0), Const(1), 1, b1),
      Case("n", << On(<< << 1, 1 >> >>, b1), On(<< << 0, 0 >>, << 2, 2 >> >>, b2) >>, b3) }

B(k) == << Do(k) >>

Flat ==
    UNION { { If(<< Arm(c, B(1)) >>, << >>), If(<< Arm(c, B(1)) >>, B(2)),
              If(<< Arm(A(40), B(1)), Arm(c, B(2)), Arm(A(41), B(3)) >>, << >>),
              If(<< Arm(A(40), B(1)), Arm(c, B(2)) >>, B(3)),
              While(<< Arm(c, B(1)) >>), While(<< Arm(A(40), B(1)), Arm(c, B(2)) >>),
              Repeat(B(1), c) } : c \in Conditions(20) }
    \cup Fors(B(1)) \cup Fors(<< >>)
    \cup Cases(B(1), B(2), B(3))

(* Bodies that change the bound of the loop: it was taken once. *)
Moving == { For("i", Const(0), Var("n"), by, << Do(1), Add("n", d) >>) :
              by \in {1, 2}, d \in {1, -1} }
          \cup { For("i", Const(0), Var("n"), 1, << Add("n", 1) >>) }

Inner == Around(B(4), B(5), B(6), 30, "i")
Nested == UNION { Around(<< s >>, B(2), B(3), 20, "j") \cup Around(B(1), << s >>, << s >>, 20, "j")
                  \cup Around(<< s, Do(7) >>, << s, s >>, << >>, 20, "j") : s \in Inner }
Deep == UNION { UNION { Around(<< t >>, << s >>, << >>, 10, "k") :
                            t \in Around(<< s >>, << Do(7), s >>, B(3), 20, "j") } : s \in Inner }

(* A loop over the half of a BYTE where the sign shows. *)
ByteLoop == { << For("b", Const(0), Const(9), 1, B(1)), Do(9) >> }

Programs == { << s, Do(9) >> : s \in Flat \cup Moving \cup Nested \cup Deep }
            \cup { << >> } \cup { << s, t >> : s, t \in Inner }
=============================================================================
